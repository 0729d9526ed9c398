----------------------------- MODULE RouteTable -----------------------------
(***************************************************************************)
(* Image decoders (pnga2area -r pcode) that take the number of their       *)
(* output file from one entry of the McIDAS routing table: getrte_,        *)
(* fshrte_ and sysin_ of decode/rtesubs.c and their caller in              *)
(* decode/pnga2area.c.                                                     *)
(*                                                                         *)
(* The entry names a cylinder of file numbers and the number used last.  A *)
(* decoder reads the entry, files its image under the next number and      *)
(* writes its copy of the entry back afterwards; nothing is locked.  LDM   *)
(* may run several decoders of one product at a time (PIPE -close), any of *)
(* them may give up or be killed, writes to the disk may fail unnoticed,   *)
(* and an operator may suspend, release or change the entry with the       *)
(* McIDAS command ROUTE.                                                   *)
(***************************************************************************)
EXTENDS Integers, Sequences, FiniteSets

CONSTANTS
  Decoders,     (* decoder processes that may run at the same time          *)
  Beg, End,     (* the cylinder (rbeg, rend)                                *)
  HasCylinder,  (* FALSE: rbeg and rend are unset                           *)
  Inum,         (* the number on the command line, used without an entry    *)
  Conds, Xcuts, (* the condition codes (rcond) and rxcut an entry may have  *)
  HasSys,       (* the entry names SYSKEY words (rsysb, rsyse, rsysc)       *)
  MaxProd       (* bound: images the feed delivers                          *)

ASSUME RouteTableAssumption ==
  /\ Inum \in Nat
  /\ Beg \in Nat /\ End \in Nat /\ Beg <= End /\ Inum \notin Beg..End
  /\ Conds \subseteq 0..7 /\ Xcuts \subseteq {0, 1}
  /\ {HasCylinder, HasSys} \subseteq BOOLEAN
  /\ MaxProd \in Nat

(* The missing value of a number. *)
UNSET == -1

Cylinder   == IF HasCylinder THEN Beg..End ELSE {Inum}
Numbers    == Cylinder \cup {Inum}
Prods      == 1..MaxProd
Status     == {"SUS", "REL"}

(* The words of the entry; a decoder's copy of them is rtecom. *)
Entry == [stat : Status, now : Cylinder \cup {UNSET}, last : Cylinder \cup {UNSET},
          cond : Conds, xcut : Xcuts]

(* A process that does not run has no copy. *)
Blank == [stat |-> "none"]

(* What a decoder leaves of its image: all of it or, since it does not look *)
(* at what write returns, an image with lines missing or out of place.     *)
Left == {"whole", "short"}

(* An AREA file: the image written to it last, and what of it is there.    *)
(* "mixed": lines of two decoders that had the file open at once.          *)
Area == [prod : Prods \cup {0}, is : {"none", "partial", "mixed"} \cup Left]

(* An image that was filed: the number, and what its decoder left of it.   *)
Filed == [num : Numbers, prod : Prods, is : Left]

VARIABLES
  entry,      (* ROUTE.SYS: the entry of the product                        *)
  syskey,     (* SYSKEY.TAB: the words of the cylinder's ends and number    *)
  area,       (* the AREA files                                             *)
  pc,         (* per decoder; "down" when it does not run                   *)
  rtecom,     (* per decoder: its copy of the entry                         *)
  irte,       (* per decoder: what getrte_ returned: 0, or 1 for the entry  *)
  narea,      (* per decoder: the number of its output file                 *)
  prod,       (* per decoder: its image                                     *)
  nprod,      (* images delivered                                           *)
  left,       (* history, per decoder: what its writes left of an image     *)
              (* that it has yet to file                                    *)
  good,       (* history: the images filed, in the order of the entries     *)
              (* written back                                               *)
  clash       (* history: two decoders have held the entry at the same time *)

own  == <<rtecom, irte, narea, prod, left>>
vars == <<entry, syskey, area, pc, own, nprod, good, clash>>

PCs == {"down", "route", "open", "write", "flush", "sysb", "syse", "sysc", "post", "exit"}

(* Types of the table, the files and the decoders' state; every number is  *)
(* one of the cylinder, the default or unset.                              *)
TypeOK ==
  /\ entry \in Entry
  /\ syskey \in [{"beg", "end", "cur"} -> Numbers \cup {UNSET}]
  /\ area \in [Numbers -> Area]
  /\ pc \in [Decoders -> PCs]
  /\ rtecom \in [Decoders -> Entry \cup {Blank}]
  /\ irte \in [Decoders -> {0, 1}]
  /\ narea \in [Decoders -> Numbers]
  /\ prod \in [Decoders -> Prods \cup {0}]
  /\ nprod \in 0..MaxProd
  /\ left \in [Decoders -> Left]
  /\ good \in Seq(Filed)
  /\ clash \in {"no", "yes"}

(* A table as an operator makes it, nothing filed yet. *)
Init ==
  /\ entry \in [stat : {"REL"}, now : {UNSET}, last : {UNSET}, cond : Conds, xcut : Xcuts]
  /\ syskey = [w \in {"beg", "end", "cur"} |-> UNSET]
  /\ area = [n \in Numbers |-> [prod |-> 0, is |-> "none"]]
  /\ pc = [d \in Decoders |-> "down"]
  /\ rtecom = [d \in Decoders |-> Blank]
  /\ irte = [d \in Decoders |-> 0]
  /\ narea = [d \in Decoders |-> Inum]
  /\ prod = [d \in Decoders |-> 0]
  /\ left = [d \in Decoders |-> "whole"]
  /\ nprod = 0
  /\ good = <<>>
  /\ clash = "no"

-----------------------------------------------------------------------------
(* Mutants of Advance: no way back to the beginning; no advance. *)
AdvancePastEnd(now) ==
  IF ~HasCylinder THEN Inum ELSE IF now = UNSET THEN Beg ELSE now + 1
AdvanceNot(now) ==
  IF ~HasCylinder THEN Inum ELSE IF now = UNSET THEN Beg ELSE now

(* getrte_: the number after the one filed last, around the cylinder. *)
Advance(now) ==
  IF ~HasCylinder THEN Inum
  ELSE IF now = UNSET \/ now + 1 > End THEN Beg ELSE now + 1

(* fshrte_: the condition test; pnga2area reports total success (istat = 1). *)
Passes(d) == rtecom[d].cond \in {0, 1, 3, 5, 7}

(* The number was given back, but the table is written only at exit. *)
Buffered(d) == irte[d] # 0 /\ ~Passes(d) /\ rtecom[d].xcut # 0

(* The decoder has read the entry and not yet written it back. *)
Holds(d) ==
  \/ irte[d] # 0 /\ pc[d] \in {"open", "write", "flush"}
  \/ Buffered(d) /\ pc[d] \in {"post", "exit"}

(* What is recorded of the image of d. *)
Image(d) == [num |-> narea[d], prod |-> prod[d], is |-> left[d]]

Goto(d, where) == pc' = [pc EXCEPT ![d] = where]

(* The process ends: nothing of it is left. *)
Gone(d) ==
  /\ Goto(d, "down")
  /\ rtecom' = [rtecom EXCEPT ![d] = Blank]
  /\ irte' = [irte EXCEPT ![d] = 0]
  /\ narea' = [narea EXCEPT ![d] = Inum]
  /\ prod' = [prod EXCEPT ![d] = 0]
  /\ left' = [left EXCEPT ![d] = "whole"]

-----------------------------------------------------------------------------
(* LDM starts a decoder for an image. *)
Start(d) ==
  /\ pc[d] = "down"
  /\ nprod < MaxProd
  /\ nprod' = nprod + 1
  /\ prod' = [prod EXCEPT ![d] = nprod + 1]
  /\ Goto(d, "route")
  /\ UNCHANGED <<entry, syskey, area, rtecom, irte, narea, left, good, clash>>

(* Mutant of GetRoute: the number is taken out of the table at once. *)
GetRouteSaved(d) ==
  /\ pc[d] = "route"
  /\ entry.stat = "REL"
  /\ entry' = [entry EXCEPT !.now = Advance(entry.now)]
  /\ rtecom' = [rtecom EXCEPT ![d] = entry']
  /\ narea' = [narea EXCEPT ![d] = Advance(entry.now)]
  /\ irte' = [irte EXCEPT ![d] = 1]
  /\ clash' = IF \E e \in Decoders \ {d} : Holds(e) THEN "yes" ELSE clash
  /\ Goto(d, "open")
  /\ UNCHANGED <<syskey, area, prod, left, nprod, good>>

(* Mutant of GetRoute: the number is taken whatever the status. *)
GetRouteAny(d) ==
  /\ pc[d] = "route"
  /\ rtecom' = [rtecom EXCEPT ![d] = [entry EXCEPT !.now = Advance(entry.now)]]
  /\ narea' = [narea EXCEPT ![d] = Advance(entry.now)]
  /\ irte' = [irte EXCEPT ![d] = 1]
  /\ clash' = IF \E e \in Decoders \ {d} : Holds(e) THEN "yes" ELSE clash
  /\ Goto(d, "open")
  /\ UNCHANGED <<entry, syskey, area, prod, left, nprod, good>>

(* getrte_ finds the entry released: the next number is taken. *)
GetRoute(d) ==
  /\ pc[d] = "route"
  /\ entry.stat = "REL"
  /\ rtecom' = [rtecom EXCEPT ![d] = [entry EXCEPT !.now = Advance(entry.now)]]
  /\ narea' = [narea EXCEPT ![d] = Advance(entry.now)]
  /\ irte' = [irte EXCEPT ![d] = 1]
  /\ clash' = IF \E e \in Decoders \ {d} : Holds(e) THEN "yes" ELSE clash
  /\ Goto(d, "open")
  /\ UNCHANGED <<entry, syskey, area, prod, left, nprod, good>>

(* getrte_ finds the entry suspended, or no table it can open: 0 is        *)
(* returned and the image goes to the default number.                      *)
GetDefault(d) ==
  /\ pc[d] = "route"
  /\ \/ entry.stat = "SUS" /\ rtecom' = [rtecom EXCEPT ![d] = entry]
     \/ UNCHANGED rtecom
  /\ narea' = [narea EXCEPT ![d] = Inum]
  /\ irte' = [irte EXCEPT ![d] = 0]
  /\ Goto(d, "open")
  /\ UNCHANGED <<entry, syskey, area, prod, left, nprod, good, clash>>

(* The output file is made or truncated, and the image directory written. *)
OpenArea(d) ==
  /\ pc[d] = "open"
  /\ area' = [area EXCEPT ![narea[d]] = [prod |-> prod[d], is |-> "partial"]]
  /\ Goto(d, "write")
  /\ UNCHANGED <<entry, syskey, own, nprod, good, clash>>

(* Lines that d writes to a file that another one has opened since, before *)
(* it gives up, is killed or goes on.                                      *)
WriteLines(d) ==
  LET f == narea[d] IN
  /\ pc[d] = "write"
  /\ area[f] # [prod |-> prod[d], is |-> "partial"]
  /\ area' = [area EXCEPT ![f].is = "mixed"]
  /\ UNCHANGED <<entry, syskey, pc, own, nprod, good, clash>>

(* The rest of the image is written, and nobody looks at what write        *)
(* returns: if one fails, here or for the directory, lines are missing or  *)
(* out of place, and the decoder goes on all the same.  In a file that     *)
(* another one has opened since, or has written to, the lines of either or *)
(* any mixture of both may be left.                                        *)
WriteImage(d) ==
  LET f == narea[d] IN
  /\ pc[d] = "write"
  /\ \E is \in Left :
       LET mine == [prod |-> prod[d], is |-> is] IN
       /\ left' = [left EXCEPT ![d] = is]
       /\ \E what \in {mine, area[f], [area[f] EXCEPT !.is = "mixed"]} :
            /\ area[f] = [prod |-> prod[d], is |-> "partial"] => what = mine
            /\ area' = [area EXCEPT ![f] = what]
  /\ Goto(d, IF irte[d] # 0 THEN "flush" ELSE "exit")
  /\ UNCHANGED <<entry, syskey, rtecom, irte, narea, prod, nprod, good, clash>>

(* A read error or 60 s without data: the input is eaten and the process   *)
(* ends, with the file as it is and the table not touched; also when the   *)
(* output file cannot be opened.                                           *)
GiveUp(d) ==
  /\ pc[d] \in {"route", "open", "write"}
  /\ Gone(d)
  /\ UNCHANGED <<entry, syskey, area, nprod, good, clash>>

(* Mutant of FlushRoute: the number advances here too. *)
FlushRouteAdvances(d) ==
  LET next == Advance(rtecom[d].now)
      copy == [rtecom[d] EXCEPT !.now = next, !.last = next]
  IN
  /\ pc[d] = "flush"
  /\ Passes(d)
  /\ rtecom' = [rtecom EXCEPT ![d] = copy]
  /\ entry' = copy
  /\ good' = Append(good, Image(d))
  /\ Goto(d, IF HasSys THEN "sysb" ELSE "post")
  /\ left' = [left EXCEPT ![d] = "whole"]
  /\ UNCHANGED <<syskey, area, irte, narea, prod, nprod, clash>>

(* fshrte_, condition met: the decoder's copy is written over the entry    *)
(* and the file closed.                                                    *)
FlushRoute(d) ==
  LET copy == [rtecom[d] EXCEPT !.last = rtecom[d].now] IN
  /\ pc[d] = "flush"
  /\ Passes(d)
  /\ rtecom' = [rtecom EXCEPT ![d] = copy]
  /\ entry' = copy
  /\ good' = Append(good, Image(d))
  /\ Goto(d, IF HasSys THEN "sysb" ELSE "post")
  /\ left' = [left EXCEPT ![d] = "whole"]
  /\ UNCHANGED <<syskey, area, irte, narea, prod, nprod, clash>>

(* Mutant of FlushRefused: the number is not given back. *)
FlushRefusedKeeps(d) ==
  LET copy == rtecom[d] IN
  /\ pc[d] = "flush"
  /\ ~Passes(d)
  /\ rtecom' = [rtecom EXCEPT ![d] = copy]
  /\ \/ copy.xcut = 0 /\ entry' = copy /\ Goto(d, "exit")
     \/ copy.xcut # 0 /\ UNCHANGED entry /\ Goto(d, "post")
  /\ left' = [left EXCEPT ![d] = "whole"]
  /\ UNCHANGED <<syskey, area, irte, narea, prod, nprod, good, clash>>

(* fshrte_, condition not met: the number is given back.  With rxcut set   *)
(* the file stays open, and what was written waits in its buffer.          *)
FlushRefused(d) ==
  LET copy == [rtecom[d] EXCEPT !.now = rtecom[d].last] IN
  /\ pc[d] = "flush"
  /\ ~Passes(d)
  /\ rtecom' = [rtecom EXCEPT ![d] = copy]
  /\ \/ copy.xcut = 0 /\ entry' = copy /\ Goto(d, "exit")
     \/ copy.xcut # 0 /\ UNCHANGED entry /\ Goto(d, "post")
  /\ left' = [left EXCEPT ![d] = "whole"]
  /\ UNCHANGED <<syskey, area, irte, narea, prod, nprod, good, clash>>

(* fshrte_ cannot open the table: nothing is recorded. *)
FlushFails(d) ==
  /\ pc[d] = "flush"
  /\ irte' = [irte EXCEPT ![d] = 0]
  /\ Goto(d, "exit")
  /\ left' = [left EXCEPT ![d] = "whole"]
  /\ UNCHANGED <<entry, syskey, area, rtecom, narea, prod, nprod, good, clash>>

(* sysin_ for each of the three words of the System Key Table, in order;   *)
(* if the table can be opened for one of them it can for all.              *)
SysIn(d) ==
  /\ \/ /\ pc[d] = "sysb" /\ Goto(d, "syse")
        /\ syskey' = [syskey EXCEPT !["beg"] = IF HasCylinder THEN Beg ELSE UNSET]
     \/ /\ pc[d] = "syse" /\ Goto(d, "sysc")
        /\ syskey' = [syskey EXCEPT !["end"] = IF HasCylinder THEN End ELSE UNSET]
     \/ /\ pc[d] = "sysc" /\ Goto(d, "post")
        /\ syskey' = [syskey EXCEPT !["cur"] = rtecom[d].now]
     \/ /\ pc[d] = "sysb" /\ Goto(d, "post")
        /\ UNCHANGED syskey
  /\ UNCHANGED <<entry, area, own, nprod, good, clash>>

(* The batch file is started for the number in rtecom, if there is one. *)
PostProcess(d) ==
  /\ pc[d] = "post"
  /\ Goto(d, "exit")
  /\ UNCHANGED <<entry, syskey, area, own, nprod, good, clash>>

(* exit(0); an entry still in a buffer reaches the table now. *)
Exit(d) ==
  /\ pc[d] = "exit"
  /\ entry' = IF Buffered(d) THEN rtecom[d] ELSE entry
  /\ Gone(d)
  /\ UNCHANGED <<syskey, area, nprod, good, clash>>

(* The decoder is killed. *)
Crash(d) ==
  /\ pc[d] # "down"
  /\ Gone(d)
  /\ UNCHANGED <<entry, syskey, area, nprod, good, clash>>

(* ROUTE SUS, ROUTE REL, or ROUTE ADD with another condition (CC=), in a   *)
(* McIDAS session.                                                         *)
Route ==
  /\ \/ entry' = [entry EXCEPT !.stat = IF @ = "REL" THEN "SUS" ELSE "REL"]
     \/ \E c \in Conds : entry' = [entry EXCEPT !.cond = c]
  /\ UNCHANGED <<syskey, area, pc, own, nprod, good, clash>>

-----------------------------------------------------------------------------
Next ==
  \/ \E d \in Decoders :
       \/ Start(d)
       \/ GetRoute(d)
       \/ GetDefault(d)
       \/ OpenArea(d)
       \/ WriteLines(d)
       \/ WriteImage(d)
       \/ GiveUp(d)
       \/ FlushRoute(d)
       \/ FlushRefused(d)
       \/ FlushFails(d)
       \/ SysIn(d)
       \/ PostProcess(d)
       \/ Exit(d)
       \/ Crash(d)
  \/ Route

Spec == Init /\ [][Next]_vars

-----------------------------------------------------------------------------
(* The number of files in the cylinder. *)
Size == Cardinality(Cylinder)

(* The images filed through the table, newest first. *)
Newest(i) == good[Len(good) - i + 1]

(* The file of an image that was filed is as its decoder left it: all of   *)
(* it is there unless a write of that decoder failed, and no other one has *)
(* gone over it.                                                           *)
IsAsFiled(image) == area[image.num] = [prod |-> image.prod, is |-> image.is]

(* A cylinder keeps its history: as long as no two decoders held the entry *)
(* at once, the files of the Size - 1 images filed last are as their       *)
(* decoders left them, whatever later ones gave up or were killed, and a   *)
(* suspension in between loses none (getrte_ and fshrte_, rtesubs.c:       *)
(* 236-248, 388-411).                                                      *)
CylinderKeepsImages ==
  clash = "no" => \A i \in 1..(Size - 1) : i <= Len(good) => IsAsFiled(Newest(i))

(* The number that a batch file is given is always one that an image was   *)
(* filed under: by this decoder, if its condition was met; if it was not,  *)
(* the batch file runs all the same, and the number given back is that of  *)
(* the image filed last, unless others have held the entry.  What it finds *)
(* there is that image, as it was filed, until Size - 1 more have been     *)
(* (fshrte_, rtesubs.c:400-468).                                           *)
PostFindsImage ==
  \A d \in Decoders : pc[d] = "post" /\ rtecom[d].now # UNSET =>
    \E i \in DOMAIN good :
      /\ good[i].num = rtecom[d].now
      /\ IF Passes(d) THEN good[i].prod = prod[d] ELSE clash = "no" => i = Len(good)
      /\ clash = "no" /\ Len(good) - i < Size - 1 => IsAsFiled(good[i])

(* The number in the table is always one that an image has been filed      *)
(* under, also when decoders overlap, give up or are killed: what a reader *)
(* takes as the last successful product has a file ("rlast - Last          *)
(* successful product number", rtesubs.c:149).                             *)
LastWasFiled ==
  /\ entry.last # UNSET => area[entry.last].is # "none"
  /\ entry.now # UNSET => \E i \in DOMAIN good : good[i].num = entry.now

(* One at a time, the table's number goes around the cylinder without a    *)
(* gap: it changes to its successor or not at all (rtesubs.c:236-248).     *)
NoGaps ==
  [][clash' = "no" /\ entry'.now # entry.now => entry'.now = Advance(entry.now)]_vars

(* Only ROUTE SUS suspends a product.  A decoder writes back the status it *)
(* read before the image was decoded, perhaps minutes ago, and with rxcut  *)
(* only at its exit: a suspension since then is undone, but a release      *)
(* never is, in whatever order decoders and operator come (rtesubs.c:      *)
(* 236-254, 388-411).                                                      *)
OnlyOperatorSuspends ==
  [][entry.stat = "REL" /\ entry'.stat = "SUS" => UNCHANGED <<pc, rtecom>>]_vars

(* A product whose entry is suspended is not filed: the decoder that found *)
(* the entry suspended does not write a file ("<0 - Do not file product",  *)
(* rtesubs.c:126; "SUSpended, exiting", pnga2area.c:467).                  *)
SuspendedNotFiled ==
  [][\A d \in Decoders :
       pc[d] = "open" /\ pc'[d] = "write" => rtecom[d].stat # "SUS"]_vars
=============================================================================
