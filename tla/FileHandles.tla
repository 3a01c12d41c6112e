------------------------------ MODULE FileHandles ------------------------------
(***************************************************************************)
(* The filesystem.* commands (base/builtin/fs.go).  Open files are kept in *)
(* a cache that forgets a handle five minutes after its last use and closes*)
(* its file; read and write look the handle up and put it back to start    *)
(* the five minutes again, which are two calls of the cache.  The other    *)
(* commands work on paths: chmod and chown may walk over a tree that other *)
(* commands change.  The kernel and the cache (go-cache) are external.     *)
(***************************************************************************)
EXTENDS Naturals, Sequences, SequencesExt, FiniteSets

CONSTANTS
  User,      \* concurrent commands
  Handle,    \* the handles that may be opened (uuids)
  ModeText,  \* the modes of open, as sequences of characters
  Path,      \* the paths, as sequences of names; the root <<>> is not among them
  Perm       \* permissions

\* What is above a path of the model, but for the root, is a path of the model.
ASSUME FileAssumption ==
  /\ ModeText \subseteq Seq(STRING) /\ Perm # {}
  /\ Path \subseteq Seq(STRING) \ {<<>>}
  /\ \A p \in Path : \A n \in 1..Len(p) : SubSeq(p, 1, n) \in Path

VARIABLES
  cached,  \* handles the cache holds: fresh, or expired and not yet collected
  fd,      \* the file of each handle: none, open, closed
  opened,  \* the mode each handle was opened with, and the flags it got
  user,    \* what each command does: [pc, h] or [pc, todo, perm, clean]
  hands,   \* handles the cache has dropped and whose file is not yet closed
  stale,   \* history: handles put back after they were dropped
  node,    \* the file system: none, dir or file at each path
  perm     \* its permissions

handleVars == <<cached, fd, opened, hands, stale>>
treeVars == <<node, perm>>
fileVars == <<handleVars, user, treeVars>>

NoUser == [pc |-> "idle"]
NoMode == [text |-> <<>>, flags |-> {}]
SomePerm == CHOOSE p \in Perm : TRUE

FileInit ==
  /\ cached = [h \in Handle |-> "none"] /\ fd = [h \in Handle |-> "none"]
  /\ opened = [h \in Handle |-> NoMode] /\ hands = {} /\ stale = {}
  /\ user = [u \in User |-> NoUser]
  /\ node = [p \in Path |-> "none"] /\ perm = [p \in Path |-> SomePerm]

Doing(u, pc) == user[u].pc = pc

-----------------------------------------------------------------------------
(* Mutants: bugs this code could have, each caught by a property below.    *)

\* evicted closes nothing.
EvictedNot(h) == fd

\* Handles are put into the cache without an expiration.
RefreshedForever == "kept"

-----------------------------------------------------------------------------
(* mode: the characters of a mode to the flags of open(2).                 *)

Reads(chr) == chr \in {"r", "+"}
Writes(chr) == chr \in {"x", "w", "a", "+"}
FlagsOf(chr) == CASE chr = "x" -> {"CREATE", "EXCL"}
                  [] chr = "w" -> {"CREATE", "TRUNC"}
                  [] chr = "a" -> {"CREATE", "APPEND"}
                  [] OTHER -> {}

IsMode(text) ==
  /\ \A i \in DOMAIN text : text[i] \in {"r", "x", "w", "a", "+"}
  /\ Cardinality({i \in DOMAIN text : text[i] # "+"}) = 1

Flags(text) ==
  LET chars == ToSet(text)
      readable == \E c \in chars : Reads(c)
      writable == \E c \in chars : Writes(c) IN
  (UNION {FlagsOf(c) : c \in chars})
  \cup {IF readable /\ writable THEN "RDWR" ELSE IF writable THEN "WRONLY" ELSE "RDONLY"}

-----------------------------------------------------------------------------
(* Handles.                                                                *)

Refreshed == "fresh"

\* open: the file, and then its handle in the cache.  A bad mode changes nothing.
Open(u) ==
  /\ Doing(u, "idle")
  /\ \E h \in Handle, text \in ModeText :
       /\ fd[h] = "none" /\ IsMode(text)
       /\ fd' = [fd EXCEPT ![h] = "open"]
       /\ opened' = [opened EXCEPT ![h] = [text |-> text, flags |-> Flags(text)]]
       /\ user' = [user EXCEPT ![u] = [pc |-> "opened", h |-> h]]
  /\ UNCHANGED <<cached, hands, stale, treeVars>>

OpenSet(u) ==
  /\ Doing(u, "opened")
  /\ cached' = [cached EXCEPT ![user[u].h] = Refreshed]
  /\ user' = [user EXCEPT ![u] = NoUser]
  /\ UNCHANGED <<fd, opened, hands, stale, treeVars>>

\* read and write: an expired handle is unknown, collected or not.
UseGet(u) ==
  /\ Doing(u, "idle")
  /\ \E h \in Handle : /\ cached[h] \notin {"none", "expired"}
                       /\ user' = [user EXCEPT ![u] = [pc |-> "got", h |-> h]]
  /\ UNCHANGED <<handleVars, treeVars>>

\* "refresh cache expiration"
UseSet(u) ==
  /\ Doing(u, "got")
  /\ LET h == user[u].h IN
     /\ cached' = [cached EXCEPT ![h] = Refreshed]
     /\ stale' = IF cached[h] = "none" THEN stale \cup {h} ELSE stale
     /\ user' = [user EXCEPT ![u].pc = "use"]
  /\ UNCHANGED <<fd, opened, hands, treeVars>>

\* The read or the write: it fails on a file that is closed meanwhile.
Use(u) ==
  /\ Doing(u, "use")
  /\ user' = [user EXCEPT ![u] = NoUser]
  /\ UNCHANGED <<handleVars, treeVars>>

\* What the cache holds once h is deleted.
Dropped(h) == [cached EXCEPT ![h] = "none"]

\* close: Delete takes a handle out, expired or not; an unknown one is no error.
Close(u) ==
  /\ Doing(u, "idle")
  /\ \E h \in Handle : /\ cached[h] # "none"
                       /\ cached' = Dropped(h) /\ hands' = hands \cup {h}
  /\ UNCHANGED <<fd, opened, user, stale, treeVars>>

\* Five minutes without a use.
Elapse(h) ==
  /\ cached[h] = "fresh"
  /\ cached' = [cached EXCEPT ![h] = "expired"]
  /\ UNCHANGED <<fd, opened, user, hands, stale, treeVars>>

\* The janitor takes out the expired handles.
Collect ==
  /\ \E h \in Handle : cached[h] = "expired"
  /\ LET old == {h \in Handle : cached[h] = "expired"} IN
     /\ cached' = [h \in Handle |-> IF h \in old THEN "none" ELSE cached[h]]
     /\ hands' = hands \cup old
  /\ UNCHANGED <<fd, opened, user, stale, treeVars>>

\* evicted, called for a handle after the cache was unlocked.
Evicted(h) == [fd EXCEPT ![h] = "closed"]

Evict(h) ==
  /\ h \in hands /\ hands' = hands \ {h}
  /\ fd' = Evicted(h)
  /\ UNCHANGED <<cached, opened, user, stale, treeVars>>

HandleNext ==
  \/ \E u \in User : Open(u) \/ OpenSet(u) \/ UseGet(u) \/ UseSet(u) \/ Use(u) \/ Close(u)
  \/ \E h \in Handle : Elapse(h) \/ Evict(h)
  \/ Collect

-----------------------------------------------------------------------------
(* Paths.                                                                  *)

Above(p) == {q \in Path : Len(q) < Len(p) /\ IsPrefix(q, p)}
Below(p) == {q \in Path : Len(q) > Len(p) /\ IsPrefix(p, q)}
Here(p) == node[p] # "none"
Children(p) == {q \in Below(p) : Len(q) = Len(p) + 1 /\ Here(q)}

\* A walker is disturbed by what appears in its tree.
Disturbed(ps) ==
  [u \in User |-> IF Doing(u, "walk") /\ (ps \cap Below(user[u].root) # {} \/ user[u].root \in ps)
                  THEN [user[u] EXCEPT !.clean = FALSE] ELSE user[u]]

\* mkdir: every directory on the way that is missing; nothing under a file.
Mkdir(u, p) ==
  /\ Doing(u, "idle")
  /\ \A q \in Above(p) \cup {p} : node[q] # "file"
  /\ LET new == {q \in Above(p) \cup {p} : ~Here(q)} IN
     /\ new # {}
     /\ node' = [q \in Path |-> IF q \in new THEN "dir" ELSE node[q]]
     /\ perm' = [q \in Path |-> IF q \in new THEN SomePerm ELSE perm[q]]
     /\ user' = Disturbed(new)
  /\ UNCHANGED handleVars

\* A command creates a file in a directory.
Touch(u, p) ==
  /\ Doing(u, "idle") /\ ~Here(p) /\ \A q \in Above(p) : node[q] = "dir"
  /\ node' = [node EXCEPT ![p] = "file"] /\ perm' = [perm EXCEPT ![p] = SomePerm]
  /\ user' = Disturbed({p})
  /\ UNCHANGED handleVars

\* remove: RemoveAll.
RemoveTree(u, p) ==
  /\ Doing(u, "idle") /\ Here(p)
  /\ node' = [q \in Path |-> IF q = p \/ q \in Below(p) THEN "none" ELSE node[q]]
  /\ UNCHANGED <<user, perm, handleVars>>

\* move: Rename, with all that is below; the kernel refuses a file in place of
\* a directory, a directory in place of what is not empty, and a move below itself.
Move(u, p, to) ==
  /\ Doing(u, "idle") /\ Here(p) /\ p # to /\ to \notin Below(p)
  /\ \A q \in Above(to) : node[q] = "dir"
  /\ node[to] = "none" \/ (node[to] = node[p] /\ Children(to) = {})
  /\ LET At(q) == p \o SubSeq(q, Len(to) + 1, Len(q))
         new == {q \in Below(to) \cup {to} : At(q) \in Path /\ Here(At(q))}
         old == Below(p) \cup {p} IN
     /\ \A q \in Below(p) : Here(q) => to \o SubSeq(q, Len(p) + 1, Len(q)) \in Path
     /\ node' = [q \in Path |-> IF q \in new THEN node[At(q)] ELSE IF q \in old THEN "none" ELSE node[q]]
     /\ perm' = [q \in Path |-> IF q \in new THEN perm[At(q)] ELSE perm[q]]
     /\ user' = Disturbed(new)
  /\ UNCHANGED handleVars

\* chmod and chown without recursion.
Chmod(u, p, m) ==
  /\ Doing(u, "idle") /\ Here(p)
  /\ perm' = [perm EXCEPT ![p] = m]
  /\ user' = Disturbed({p})
  /\ UNCHANGED <<node, handleVars>>

\* chmod and chown with recursion: a walk over the tree below a path.
ChmodWalk(u, p, m) ==
  /\ Doing(u, "idle")
  /\ user' = [user EXCEPT ![u] = [pc |-> "walk", root |-> p, todo |-> {p}, perm |-> m, clean |-> TRUE]]
  /\ UNCHANGED <<treeVars, handleVars>>

\* What is left of a walk at a file that is gone: it is skipped.
Skip(todo) == todo

\* One file of the walk; a directory's names are read after its own change.
Walk(u) ==
  /\ Doing(u, "walk")
  /\ \E p \in user[u].todo :
       LET rest == user[u].todo \ {p} IN
       \/ /\ Here(p)
          /\ perm' = [perm EXCEPT ![p] = user[u].perm]
          /\ user' = [Disturbed({p}) EXCEPT ![u] = [user[u] EXCEPT !.todo = rest \cup Children(p)]]
       \/ /\ ~Here(p)
          /\ user' = [user EXCEPT ![u].todo = Skip(rest)]
          /\ UNCHANGED perm
  /\ UNCHANGED <<node, handleVars>>

WalkEnds(u) ==
  /\ Doing(u, "walk") /\ user[u].todo = {}
  /\ user' = [user EXCEPT ![u] = NoUser]
  /\ UNCHANGED <<treeVars, handleVars>>

TreeNext ==
  \E u \in User :
    \/ \E p \in Path : Mkdir(u, p) \/ Touch(u, p) \/ RemoveTree(u, p) \/ \E q \in Path : Move(u, p, q)
    \/ \E p \in Path, m \in Perm : Chmod(u, p, m) \/ ChmodWalk(u, p, m)
    \/ Walk(u) \/ WalkEnds(u)

FileSpec == FileInit /\ [][HandleNext \/ TreeNext]_fileVars

-----------------------------------------------------------------------------
(* Properties.                                                             *)

\* A file gets the flags Python's open gives its mode: it is created unless it
\* is only read, truncated, appended to or exclusive as asked, and a plus adds
\* what the letter does not give.
ModeAsPython ==
  \A h \in Handle : fd[h] # "none" =>
    LET text == ToSet(opened[h].text)  flags == opened[h].flags IN
    /\ "CREATE" \in flags <=> "r" \notin text
    /\ "TRUNC" \in flags <=> "w" \in text
    /\ "APPEND" \in flags <=> "a" \in text
    /\ "EXCL" \in flags <=> "x" \in text
    /\ "RDWR" \in flags <=> "+" \in text
    /\ "RDONLY" \in flags <=> "r" \in text /\ "+" \notin text

\* No open file is lost: it is in the cache, about to be put there or about to be
\* closed, whatever commands and the janitor do to its handle at the same time.
OpenIsTracked ==
  \A h \in Handle : fd[h] = "open" =>
    \/ cached[h] # "none" \/ h \in hands
    \/ \E u \in User : user[u].pc = "opened" /\ user[u].h = h

\* A handle that the cache knows has an open file, unless a command put it back
\* after it was closed or collected.
CachedIsOpen ==
  \A h \in Handle : cached[h] # "none" /\ h \notin stale => fd[h] = "open"

\* A file that nobody uses any more is closed in the end, also if its handle
\* was put back after it was closed.
IdleIsClosed ==
  \A h \in Handle : []<>(\/ cached[h] = "none" /\ fd[h] # "open"
                         \/ \E u \in User : user[u].pc \in {"opened", "got", "use"} /\ user[u].h = h)

\* A recursive chmod into whose tree nothing was put or changed meanwhile has
\* reached every file of it, although files may vanish under the walk.
WalkIsComplete ==
  \A u \in User : Doing(u, "walk") /\ user[u].todo = {} /\ user[u].clean =>
    \A p \in Below(user[u].root) \cup {user[u].root} : Here(p) => perm[p] = user[u].perm

\* Files are opened as asked and never lost, and a recursive chmod reaches all.
FilesAreTracked == ModeAsPython /\ OpenIsTracked /\ CachedIsOpen /\ WalkIsComplete
================================================================================
