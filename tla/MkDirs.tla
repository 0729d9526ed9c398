------------------------------- MODULE MkDirs -------------------------------
(***************************************************************************)
(* Opening a file whose directories may not be there: mkdirs_open and      *)
(* mkdirs of decode/mkdirs_open.c, run by several processes at once, each  *)
(* of which calls it once.                                                 *)
(*                                                                         *)
(* open, then mkdir from the last directory upwards until one can be made, *)
(* then mkdir downwards, then open again.  Every system call is a step of  *)
(* its own.  Nobody removes a directory, and no file has the name of one.  *)
(***************************************************************************)
EXTENDS Integers, Sequences

CONSTANTS
  Decoders,    (* the processes                                             *)
  Paths,       (* pathnames: sequences of components, the last is the file  *)
  Standing     (* directories that are there from the start                 *)

(* The first k components of p: a directory of it if k < Len(p). *)
Upto(p, k) == [i \in 1..k |-> p[i]]

(* The directories of p. *)
DirsOf(p) == {Upto(p, k) : k \in 1..(Len(p) - 1)}

Parent(p) == Upto(p, Len(p) - 1)

ASSUME MkDirsAssumption ==
  /\ Paths \subseteq Seq(STRING) \ {<<>>}
  /\ Paths # {}
  /\ Standing \subseteq UNION {DirsOf(p) : p \in Paths}
  /\ \A q \in Standing : DirsOf(q) \subseteq Standing

VARIABLES
  dirs,        (* the directories there are, but the one all paths begin in *)
  call,        (* per process: where in its call it is, how it ended        *)
  path,        (* ... the pathname                                          *)
  lev,         (* ... the level of the next mkdir                           *)
  raced,       (* history: another process has made a directory of path     *)
               (* since the call began                                      *)
  spoiled      (* history: the processes that were killed, or refused       *)
               (* something, in the call                                    *)

dvars == <<dirs, call, path, lev, raced, spoiled>>

AllDirs == UNION {DirsOf(p) : p \in Paths}
Calls   == {"none", "up", "down", "reopen", "opened", "failed", "killed"}

DirsTypeOK ==
  /\ dirs \subseteq AllDirs
  /\ call \in [Decoders -> Calls]
  /\ path \in [Decoders -> Paths]
  /\ lev \in [Decoders -> Nat]
  /\ \A d \in Decoders : call[d] \in {"up", "down"} => lev[d] \in 1..(Len(path[d]) - 1)
  /\ raced \in [Decoders -> BOOLEAN]
  /\ spoiled \subseteq Decoders

DirsInit ==
  /\ dirs = Standing
  /\ call = [d \in Decoders |-> "none"]
  /\ path = [d \in Decoders |-> CHOOSE p \in Paths : TRUE]
  /\ lev = [d \in Decoders |-> 0]
  /\ raced = [d \in Decoders |-> FALSE]
  /\ spoiled = {}

-----------------------------------------------------------------------------
There(q)   == q = <<>> \/ q \in dirs
NextDir(d) == Upto(path[d], lev[d])      (* the directory of its next mkdir *)
Inside(d)  == call[d] \in {"up", "down", "reopen"}

(* The first open: the directories are there, or ENOENT. *)
OpenFinds(d, p) ==
  /\ call[d] = "none" /\ There(Parent(p))
  /\ call' = [call EXCEPT ![d] = "opened"]
  /\ path' = [path EXCEPT ![d] = p]
  /\ UNCHANGED <<dirs, lev, raced, spoiled>>

OpenMisses(d, p) ==
  /\ call[d] = "none" /\ ~There(Parent(p))
  /\ call' = [call EXCEPT ![d] = "up"]
  /\ path' = [path EXCEPT ![d] = p]
  /\ lev' = [lev EXCEPT ![d] = Len(p) - 1]
  /\ UNCHANGED <<dirs, raced, spoiled>>

(* Mutant of MkdirMakes: the level of the directory is made again. *)
MkdirMakesAgain(d) ==
  /\ call[d] \in {"up", "down"}
  /\ There(Parent(NextDir(d))) /\ ~There(NextDir(d))
  /\ dirs' = dirs \cup {NextDir(d)}
  /\ call' = [call EXCEPT ![d] = "down"] /\ UNCHANGED lev
  /\ raced' = [e \in Decoders |-> raced[e] \/
                 (e # d /\ Inside(e) /\ NextDir(d) \in DirsOf(path[e]))]
  /\ UNCHANGED <<path, spoiled>>

(* Mutant of MkdirMakes: the way down goes on to the file itself. *)
MkdirMakesAll(d) ==
  /\ call[d] \in {"up", "down"}
  /\ There(Parent(NextDir(d))) /\ ~There(NextDir(d))
  /\ dirs' = dirs \cup {NextDir(d)}
  /\ IF lev[d] = Len(path[d])
       THEN call' = [call EXCEPT ![d] = "reopen"] /\ UNCHANGED lev
       ELSE call' = [call EXCEPT ![d] = "down"] /\ lev' = [lev EXCEPT ![d] = @ + 1]
  /\ raced' = [e \in Decoders |-> raced[e] \/
                 (e # d /\ Inside(e) /\ NextDir(d) \in DirsOf(path[e]))]
  /\ UNCHANGED <<path, spoiled>>

(* mkdir makes the directory: back to the level below, or to the open. *)
MkdirMakes(d) ==
  /\ call[d] \in {"up", "down"}
  /\ There(Parent(NextDir(d))) /\ ~There(NextDir(d))
  /\ dirs' = dirs \cup {NextDir(d)}
  /\ IF lev[d] = Len(path[d]) - 1
       THEN call' = [call EXCEPT ![d] = "reopen"] /\ UNCHANGED lev
       ELSE call' = [call EXCEPT ![d] = "down"] /\ lev' = [lev EXCEPT ![d] = @ + 1]
  /\ raced' = [e \in Decoders |-> raced[e] \/
                 (e # d /\ Inside(e) /\ NextDir(d) \in DirsOf(path[e]))]
  /\ UNCHANGED <<path, spoiled>>

(* Mutant of MkdirMisses: the directories are made from the top. *)
MkdirMissesTop(d) ==
  /\ call[d] = "up" /\ ~There(Parent(NextDir(d)))
  /\ lev' = [lev EXCEPT ![d] = 1]
  /\ UNCHANGED <<dirs, call, path, raced, spoiled>>

(* ENOENT again: mkdirs calls itself for the directory above. *)
MkdirMisses(d) ==
  /\ call[d] = "up" /\ ~There(Parent(NextDir(d)))
  /\ lev' = [lev EXCEPT ![d] = @ - 1]
  /\ UNCHANGED <<dirs, call, path, raced, spoiled>>

(* Mutant of MkdirExists: the directory is there, so try again. *)
MkdirExistsRetries(d) ==
  /\ call[d] \in {"up", "down"} /\ There(NextDir(d))
  /\ call' = [call EXCEPT ![d] = "up"]
  /\ lev' = [lev EXCEPT ![d] = Len(path[d]) - 1]
  /\ UNCHANGED <<dirs, path, raced, spoiled>>

(* Any other error ends the call, EEXIST as well. *)
MkdirExists(d) ==
  /\ call[d] \in {"up", "down"} /\ There(NextDir(d))
  /\ call' = [call EXCEPT ![d] = "failed"]
  /\ UNCHANGED <<dirs, path, lev, raced, spoiled>>

Reopen(d) ==
  /\ call[d] = "reopen" /\ There(Parent(path[d]))
  /\ call' = [call EXCEPT ![d] = "opened"]
  /\ UNCHANGED <<dirs, path, lev, raced, spoiled>>

(* A system call is refused: no permission, no space, no inode. *)
Refused(d) ==
  /\ call[d] = "none" \/ Inside(d)
  /\ call' = [call EXCEPT ![d] = "failed"]
  /\ spoiled' = spoiled \cup {d}
  /\ UNCHANGED <<dirs, path, lev, raced>>

(* The process ends in the middle: what it has made stays. *)
Killed(d) ==
  /\ Inside(d)
  /\ call' = [call EXCEPT ![d] = "killed"]
  /\ spoiled' = spoiled \cup {d}
  /\ UNCHANGED <<dirs, path, lev, raced>>

(* A step of d in the call. *)
InCall(d) ==
  \/ \E p \in Paths : OpenFinds(d, p) \/ OpenMisses(d, p)
  \/ MkdirMakes(d) \/ MkdirMisses(d) \/ MkdirExists(d)
  \/ Reopen(d) \/ Refused(d) \/ Killed(d)

-----------------------------------------------------------------------------
(* The call makes what is missing, and no more than that is needed: who    *)
(* has nobody making directories of its path beside it gets its file       *)
(* unless the system refuses, whichever directories are there already or   *)
(* were left behind by a process that was killed half way.                 *)
FailsOnlyByRace ==
  \A d \in Decoders : call[d] = "failed" /\ d \notin spoiled => raced[d]

(* EEXIST is taken for a failure, so that of those that need a directory   *)
(* at the same time some get no file.  Never all of them: while nobody is  *)
(* killed or refused, one that lost has another that got its file, or that *)
(* has made a directory and goes on.                                       *)
NotAllFail ==
  (\E d \in Decoders : call[d] = "failed") /\ spoiled = {}
  => \E e \in Decoders : call[e] \in {"down", "reopen", "opened"}

(* The system calls that the call may still make: mkdir up to the first    *)
(* component, mkdir down again, and the open.                              *)
CallsLeft(d) ==
  CASE call[d] = "up"     -> lev[d] + (Len(path[d]) - 2) + 1
    [] call[d] = "down"   -> (Len(path[d]) - lev[d]) + 1
    [] call[d] = "reopen" -> 1
    [] OTHER              -> 0

(* mkdirs_open comes to an end without the help of an alarm: every system  *)
(* call brings it nearer, and none that another process makes sets it      *)
(* back.  There are no more than two for each directory of the path        *)
(* (mkdirs_open.c:34-103).                                                 *)
EveryCallCounts ==
  [][\A d \in Decoders : Inside(d) =>
       \/ UNCHANGED <<call[d], path[d], lev[d]>>
       \/ CallsLeft(d)' < CallsLeft(d)]_dvars
=============================================================================
