-------------------------- MODULE RouteTableProofs --------------------------
(***************************************************************************)
(* Theorems about the routing table, for every cylinder, every number of   *)
(* decoders and every order of kills, refusals and suspensions.            *)
(*                                                                         *)
(* Four inductive invariants, each resting on the ones before it: TInv     *)
(* (types, what a decoder has at each place, and, as long as no two        *)
(* decoders held the entry at once, that the table is the one its holder   *)
(* has read), KInv (where the newest images are, and that nobody writes    *)
(* there), LInv (every number that may reach the table as the last one has *)
(* been filed under) and PInv (what a decoder has done before its batch    *)
(* file is started).                                                       *)
(***************************************************************************)
EXTENDS RouteTable, FiniteSetTheorems, TLAPS

LEMMA AdvanceType == \A n \in Cylinder \cup {UNSET} : Advance(n) \in Cylinder
  BY RouteTableAssumption DEF Advance, Cylinder, UNSET

(* A decoder at these places has a copy of the entry. *)
HasCopy ==
  \A d \in Decoders :
    /\ irte[d] = 1 => rtecom[d] \in Entry
    /\ pc[d] \in {"open", "write", "flush"} /\ irte[d] = 1 =>
         rtecom[d].now = narea[d] /\ narea[d] \in Cylinder
    /\ pc[d] \in {"flush", "sysb", "syse", "sysc", "post"} => irte[d] = 1
    /\ pc[d] \in {"route", "open", "write", "flush"} => prod[d] \in Prods
    /\ pc[d] = "down" => irte[d] = 0
    /\ pc[d] \in {"sysb", "syse", "sysc"} => Passes(d)
    /\ pc[d] \in {"open", "write"} /\ irte[d] = 0 => narea[d] = Inum

(* The number in the table is the last successful one. *)
Coupled ==
  /\ entry.now = entry.last
  /\ \A d \in Decoders : pc[d] \in {"post", "exit"} /\ Buffered(d) =>
       rtecom[d].now = rtecom[d].last

(* One decoder at a time holds the entry, and the table has not moved. *)
OneHolder ==
  clash = "no" =>
    /\ \A d, e \in Decoders : Holds(d) /\ Holds(e) => d = e
    /\ \A d \in Decoders : Holds(d) =>
         /\ rtecom[d].last = entry.last
         /\ pc[d] \in {"open", "write", "flush"} => rtecom[d].now = Advance(entry.now)

TInv == TypeOK /\ HasCopy /\ Coupled /\ OneHolder

LEMMA TInitInv == Init => TInv
  <1> SUFFICES ASSUME Init
               PROVE  TInv
    OBVIOUS
  <1>1. TypeOK
    BY RouteTableAssumption
    DEF Init, TypeOK, Entry, Area, PCs, Numbers, Prods, Status, Left, Filed
  <1> QED
    BY <1>1 DEF Init, TInv, HasCopy, Coupled, OneHolder, Holds, Buffered

LEMMA TStepInv == TInv /\ [Next]_vars => TInv'
  <1> SUFFICES ASSUME TInv, [Next]_vars
               PROVE  TInv'
    OBVIOUS
  <1> USE RouteTableAssumption
  <1>1. ASSUME NEW d \in Decoders, Start(d)
        PROVE  TInv'
    <2>1. TypeOK'
      <3>1. nprod + 1 \in Prods /\ nprod + 1 \in 0..MaxProd
        BY <1>1 DEF Start, TInv, TypeOK, Prods
      <3> QED
        BY <1>1, <3>1 DEF Start, TInv, TypeOK, PCs, Goto
    <2>2. HasCopy'
      BY <1>1
      DEF Passes, Start, TInv, TypeOK, HasCopy, Entry, PCs, Prods, Numbers, Goto, own
    <2>3. Coupled'
      BY <1>1 DEF Start, TInv, Coupled, Passes, Buffered, Goto
    <2>4. OneHolder'
      BY <1>1 DEF Start, TInv, TypeOK, OneHolder, Holds, Passes, Buffered, Goto
    <2> QED
      BY <2>1, <2>2, <2>3, <2>4 DEF TInv
  <1>2. ASSUME NEW d \in Decoders, GetRoute(d)
        PROVE  TInv'
    <2>1. TypeOK'
      BY <1>2, AdvanceType
      DEF GetRoute, TInv, TypeOK, HasCopy, PCs, Numbers, Cylinder, Entry, Goto
    <2>2. HasCopy'
      <3>1. /\ entry \in Entry
            /\ Advance(entry.now) \in Cylinder
        BY AdvanceType DEF TInv, TypeOK, Entry
      <3> DEFINE copy == [entry EXCEPT !.now = Advance(entry.now)]
      <3>2. copy \in Entry /\ copy.now = Advance(entry.now)
        BY <3>1 DEF Entry
      <3>3. /\ pc'[d] = "open" /\ irte'[d] = 1
            /\ rtecom'[d] = copy /\ narea'[d] = Advance(entry.now)
            /\ prod' = prod
            /\ \A e \in Decoders \ {d} : /\ pc'[e] = pc[e] /\ irte'[e] = irte[e]
                                         /\ rtecom'[e] = rtecom[e] /\ narea'[e] = narea[e]
        BY <1>2 DEF GetRoute, TInv, TypeOK, Goto
      <3> HIDE DEF copy
      <3>4. prod[d] \in Prods
        BY <1>2 DEF GetRoute, TInv, HasCopy
      <3> QED
        BY <3>1, <3>2, <3>3, <3>4 DEF TInv, HasCopy, Passes
    <2>3. Coupled'
      BY <1>2 DEF GetRoute, TInv, Coupled, Passes, Buffered, Goto
    <2>4. OneHolder'
      BY <1>2 DEF GetRoute, TInv, TypeOK, OneHolder, Holds, Passes, Buffered, Goto
    <2> QED
      BY <2>1, <2>2, <2>3, <2>4 DEF TInv
  <1>3. ASSUME NEW d \in Decoders, GetDefault(d)
        PROVE  TInv'
    <2>1. TypeOK'
      <3>1. Inum \in Numbers
        BY DEF Numbers
      <3>2. rtecom' \in [Decoders -> Entry \cup {Blank}]
        BY <1>3 DEF GetDefault, TInv, TypeOK
      <3> QED
        BY <1>3, <3>1, <3>2 DEF GetDefault, TInv, TypeOK, PCs, Goto
    <2>2. HasCopy'
      BY <1>3 DEF GetDefault, TInv, TypeOK, HasCopy, Passes, Goto
    <2>3. Coupled'
      BY <1>3 DEF GetDefault, TInv, TypeOK, Coupled, Passes, Buffered, Goto
    <2>4. OneHolder'
      BY <1>3 DEF GetDefault, TInv, TypeOK, OneHolder, Holds, Passes, Buffered, Goto
    <2> QED
      BY <2>1, <2>2, <2>3, <2>4 DEF TInv
  <1>4. ASSUME NEW d \in Decoders, OpenArea(d)
        PROVE  TInv'
    <2>1. TypeOK'
      BY <1>4
      DEF OpenArea, TInv, TypeOK, HasCopy, Entry, Area, PCs, Numbers, Cylinder, Prods,
          Goto, own
    <2>2. HasCopy'
      BY <1>4 DEF OpenArea, TInv, TypeOK, HasCopy, Passes, Goto, own
    <2>3. Coupled'
      BY <1>4 DEF OpenArea, TInv, Coupled, Passes, Buffered, Goto, own
    <2>4. OneHolder'
      BY <1>4 DEF OpenArea, TInv, TypeOK, OneHolder, Holds, Passes, Buffered, Goto, own
    <2> QED
      BY <2>1, <2>2, <2>3, <2>4 DEF TInv
  <1>5. ASSUME NEW d \in Decoders, WriteImage(d)
        PROVE  TInv'
    <2>1. TypeOK'
      <3>1. /\ prod[d] \in Prods /\ narea[d] \in Numbers /\ area[narea[d]] \in Area
        BY <1>5 DEF WriteImage, TInv, TypeOK, HasCopy
      <3>2. PICK is \in Left :
              /\ left' = [left EXCEPT ![d] = is]
              /\ \E what \in {[prod |-> prod[d], is |-> is], area[narea[d]],
                             [area[narea[d]] EXCEPT !.is = "mixed"]} :
                   area' = [area EXCEPT ![narea[d]] = what]
        BY <1>5 DEF WriteImage
      <3>3. /\ [prod |-> prod[d], is |-> is] \in Area
            /\ [area[narea[d]] EXCEPT !.is = "mixed"] \in Area
        BY <3>1 DEF Area
      <3>4. pc' \in {[pc EXCEPT ![d] = "flush"], [pc EXCEPT ![d] = "exit"]}
        BY <1>5 DEF WriteImage, Goto
      <3>5. area' \in [Numbers -> Area] /\ left' \in [Decoders -> Left]
        BY <3>1, <3>2, <3>3 DEF TInv, TypeOK
      <3>6. UNCHANGED <<entry, syskey, rtecom, irte, narea, prod, nprod, good, clash>>
        BY <1>5 DEF WriteImage
      <3> QED
        BY <3>4, <3>5, <3>6 DEF TInv, TypeOK, PCs
    <2>2. HasCopy'
      BY <1>5 DEF WriteImage, TInv, TypeOK, HasCopy, Passes, Goto, own
    <2>3. Coupled'
      BY <1>5 DEF WriteImage, TInv, Coupled, Passes, Buffered, Goto, own
    <2>4. OneHolder'
      BY <1>5 DEF WriteImage, TInv, TypeOK, OneHolder, Holds, Passes, Buffered, Goto, own
    <2> QED
      BY <2>1, <2>2, <2>3, <2>4 DEF TInv
  <1>6. ASSUME NEW d \in Decoders, GiveUp(d)
        PROVE  TInv'
    <2>1. TypeOK'
      BY <1>6 DEF GiveUp, TInv, TypeOK, HasCopy, PCs, Numbers, Left, Goto, Gone
    <2>2. HasCopy'
      BY <1>6 DEF GiveUp, TInv, TypeOK, HasCopy, Passes, Goto, Gone
    <2>3. Coupled'
      BY <1>6 DEF GiveUp, TInv, Coupled, Passes, Buffered, Goto, Gone
    <2>4. OneHolder'
      BY <1>6 DEF GiveUp, TInv, TypeOK, OneHolder, Holds, Passes, Buffered, Goto, Gone
    <2> QED
      BY <2>1, <2>2, <2>3, <2>4 DEF TInv
  <1>7. ASSUME NEW d \in Decoders, FlushRoute(d)
        PROVE  TInv'
    <2>1. TypeOK'
      <3> DEFINE copy == [rtecom[d] EXCEPT !.last = rtecom[d].now]
      <3>1. irte[d] = 1 /\ rtecom[d] \in Entry /\ prod[d] \in Prods
        BY <1>7 DEF FlushRoute, TInv, HasCopy
      <3>2. copy \in Entry
        BY <3>1 DEF Entry
      <3>3. Image(d) \in Filed
        BY <3>1 DEF TInv, TypeOK, Image, Filed
      <3>4. /\ rtecom' = [rtecom EXCEPT ![d] = copy]
            /\ entry' = copy
            /\ good' = Append(good, Image(d))
            /\ pc' \in {[pc EXCEPT ![d] = "sysb"], [pc EXCEPT ![d] = "post"]}
            /\ left' = [left EXCEPT ![d] = "whole"]
            /\ UNCHANGED <<syskey, area, irte, narea, prod, nprod, clash>>
        BY <1>7 DEF FlushRoute, Goto
      <3> HIDE DEF copy
      <3>5. good' \in Seq(Filed) /\ left' \in [Decoders -> Left]
        BY <3>3, <3>4 DEF TInv, TypeOK, Left
      <3> QED
        BY <3>2, <3>4, <3>5 DEF TInv, TypeOK, PCs
    <2>2. HasCopy'
      <3> DEFINE copy == [rtecom[d] EXCEPT !.last = rtecom[d].now]
      <3>1. /\ irte[d] = 1 /\ rtecom[d] \in Entry /\ prod[d] \in Prods
            /\ rtecom[d].cond \in {0, 1, 3, 5, 7}
        BY <1>7 DEF FlushRoute, TInv, HasCopy, Passes
      <3>2. copy \in Entry /\ copy.cond \in {0, 1, 3, 5, 7}
        BY <3>1 DEF Entry
      <3>3. /\ rtecom'[d] = copy /\ pc'[d] \in {"sysb", "post"}
            /\ \A e \in Decoders \ {d} : pc'[e] = pc[e] /\ rtecom'[e] = rtecom[e]
            /\ UNCHANGED <<irte, narea, prod>>
        BY <1>7 DEF FlushRoute, Goto, TInv, TypeOK
      <3> HIDE DEF copy
      <3> QED
        BY <3>1, <3>2, <3>3 DEF TInv, HasCopy, Passes
    <2>3. Coupled'
      BY <1>7 DEF FlushRoute, TInv, Coupled, Passes, Buffered, Goto
    <2>4. OneHolder'
      BY <1>7
      DEF FlushRoute, TInv, TypeOK, HasCopy, Coupled, OneHolder, Holds, Passes, Buffered,
          Goto
    <2> QED
      BY <2>1, <2>2, <2>3, <2>4 DEF TInv
  <1>8. ASSUME NEW d \in Decoders, FlushRefused(d)
        PROVE  TInv'
    <2> DEFINE copy == [rtecom[d] EXCEPT !.now = rtecom[d].last]
    <2>a. /\ irte[d] = 1 /\ rtecom[d] \in Entry
          /\ copy \in Entry /\ copy.cond = rtecom[d].cond /\ copy.xcut = rtecom[d].xcut
      BY <1>8 DEF FlushRefused, TInv, HasCopy, Entry
    <2>b. /\ rtecom' = [rtecom EXCEPT ![d] = copy]
          /\ entry' \in {entry, copy}
          /\ pc' \in {[pc EXCEPT ![d] = "exit"], [pc EXCEPT ![d] = "post"]}
          /\ left' = [left EXCEPT ![d] = "whole"]
          /\ UNCHANGED <<syskey, area, irte, narea, prod, nprod, good, clash>>
      BY <1>8 DEF FlushRefused, Goto
    <2>1. TypeOK'
      <3> HIDE DEF copy
      <3> QED
        BY <2>a, <2>b DEF TInv, TypeOK, PCs, Left
    <2>2. HasCopy'
      <3>1. /\ rtecom'[d] = copy /\ pc'[d] \in {"exit", "post"}
            /\ \A e \in Decoders \ {d} : pc'[e] = pc[e] /\ rtecom'[e] = rtecom[e]
        BY <2>b DEF TInv, TypeOK
      <3> HIDE DEF copy
      <3> QED
        BY <2>a, <2>b, <3>1 DEF TInv, HasCopy, Passes
    <2>3. Coupled'
      BY <1>8
      DEF FlushRefused, TInv, TypeOK, HasCopy, Coupled, Passes, Buffered, Entry, Goto
    <2>4. OneHolder'
      BY <1>8
      DEF FlushRefused, TInv, TypeOK, HasCopy, Coupled, OneHolder, Holds, Passes,
          Buffered, Goto
    <2> QED
      BY <2>1, <2>2, <2>3, <2>4 DEF TInv
  <1>9. ASSUME NEW d \in Decoders, FlushFails(d)
        PROVE  TInv'
    <2>1. TypeOK'
      BY <1>9 DEF FlushFails, TInv, TypeOK, PCs, Left, Goto
    <2>2. HasCopy'
      BY <1>9 DEF FlushFails, TInv, TypeOK, HasCopy, Passes, Goto
    <2>3. Coupled'
      BY <1>9 DEF FlushFails, TInv, TypeOK, Coupled, Passes, Buffered, Goto
    <2>4. OneHolder'
      BY <1>9 DEF FlushFails, TInv, TypeOK, OneHolder, Holds, Passes, Buffered, Goto
    <2> QED
      BY <2>1, <2>2, <2>3, <2>4 DEF TInv
  <1>10. ASSUME NEW d \in Decoders, SysIn(d)
        PROVE  TInv'
    <2>a. /\ rtecom[d] \in Entry
          /\ rtecom[d].now \in Numbers \cup {UNSET}
      BY <1>10 DEF SysIn, TInv, HasCopy, Entry, Numbers
    <2>b. /\ HasCylinder => Beg \in Numbers /\ End \in Numbers
          /\ UNSET \in Numbers \cup {UNSET}
      BY DEF Numbers, Cylinder
    <2>c. /\ \/ \E w \in {"beg", "end", "cur"}, v \in Numbers \cup {UNSET} :
                  syskey' = [syskey EXCEPT ![w] = v]
             \/ UNCHANGED syskey
          /\ \E where \in {"syse", "sysc", "post"} : pc' = [pc EXCEPT ![d] = where]
          /\ UNCHANGED <<entry, area, own, nprod, good, clash>>
      <3>1. CASE pc[d] = "sysb"
        BY <1>10, <2>b, <3>1 DEF SysIn, Goto
      <3>2. CASE pc[d] = "syse"
        BY <1>10, <2>b, <3>2 DEF SysIn, Goto
      <3>3. CASE pc[d] = "sysc"
        BY <1>10, <2>a, <3>3 DEF SysIn, Goto
      <3> QED
        BY <1>10, <3>1, <3>2, <3>3 DEF SysIn
    <2>d. /\ rtecom' = rtecom /\ irte' = irte /\ entry' = entry /\ clash' = clash
          /\ \A e \in Decoders : pc'[e] = pc[e] \/ (e = d /\ pc'[d] \in {"syse", "sysc", "post"})
      BY <2>c DEF own, TInv, TypeOK
    <2>1. TypeOK'
      BY <2>c DEF TInv, TypeOK, PCs, own
    <2>2. HasCopy'
      BY <1>10 DEF SysIn, TInv, TypeOK, HasCopy, Passes, Goto, own
    <2>e. \A e \in Decoders : Buffered(e)' <=> Buffered(e)
      BY <2>d DEF Buffered, Passes
    <2>f. ~Buffered(d)
      BY <1>10 DEF SysIn, TInv, HasCopy, Buffered
    <2>3. Coupled'
      BY <2>d, <2>e, <2>f DEF TInv, Coupled
    <2>4. OneHolder'
      <3>1. \A e \in Decoders : Holds(e)' => Holds(e)
        BY <1>10, <2>d, <2>e, <2>f DEF Holds
      <3> QED
        BY <2>d, <3>1 DEF TInv, OneHolder, Advance
    <2> QED
      BY <2>1, <2>2, <2>3, <2>4 DEF TInv
  <1>11. ASSUME NEW d \in Decoders, PostProcess(d)
        PROVE  TInv'
    <2>1. TypeOK'
      BY <1>11 DEF PostProcess, TInv, TypeOK, PCs, Goto, own
    <2>2. HasCopy'
      BY <1>11 DEF PostProcess, TInv, TypeOK, HasCopy, Passes, Goto, own
    <2>3. Coupled'
      BY <1>11 DEF PostProcess, TInv, Coupled, Passes, Buffered, Goto, own
    <2>4. OneHolder'
      BY <1>11
      DEF PostProcess, TInv, TypeOK, OneHolder, Holds, Passes, Buffered, Goto, own
    <2> QED
      BY <2>1, <2>2, <2>3, <2>4 DEF TInv
  <1>12. ASSUME NEW d \in Decoders, Exit(d)
        PROVE  TInv'
    <2>1. TypeOK'
      <3>1. Inum \in Numbers
        BY DEF Numbers
      <3>2. entry' \in Entry
        BY <1>12 DEF Exit, Buffered, TInv, TypeOK, HasCopy
      <3> QED
        BY <1>12, <3>1, <3>2 DEF Exit, Gone, TInv, TypeOK, PCs, Left, Goto
    <2>2. HasCopy'
      BY <1>12 DEF Exit, TInv, TypeOK, HasCopy, Passes, Goto, Gone
    <2>3. Coupled'
      BY <1>12 DEF Exit, TInv, TypeOK, Coupled, Passes, Buffered, Goto, Gone
    <2>4. OneHolder'
      BY <1>12 DEF Exit, TInv, TypeOK, OneHolder, Holds, Passes, Buffered, Goto, Gone
    <2> QED
      BY <2>1, <2>2, <2>3, <2>4 DEF TInv
  <1>13. ASSUME NEW d \in Decoders, Crash(d)
        PROVE  TInv'
    <2>1. TypeOK'
      BY <1>13 DEF Crash, TInv, TypeOK, HasCopy, PCs, Numbers, Left, Goto, Gone
    <2>2. HasCopy'
      BY <1>13 DEF Crash, TInv, TypeOK, HasCopy, Passes, Goto, Gone
    <2>3. Coupled'
      BY <1>13 DEF Crash, TInv, TypeOK, Coupled, Passes, Buffered, Goto, Gone
    <2>4. OneHolder'
      BY <1>13 DEF Crash, TInv, TypeOK, OneHolder, Holds, Passes, Buffered, Goto, Gone
    <2> QED
      BY <2>1, <2>2, <2>3, <2>4 DEF TInv
  <1>14. CASE Route
    <2>1. TypeOK'
      BY <1>14 DEF Route, TInv, TypeOK, Entry, Status, own
    <2>2. HasCopy'
      BY <1>14 DEF Passes, Route, TInv, HasCopy, own
    <2>3. Coupled' /\ OneHolder'
      BY <1>14
      DEF Route, TInv, TypeOK, Coupled, OneHolder, Entry, Holds, Passes, Buffered, own
    <2> QED
      BY <2>1, <2>2, <2>3 DEF TInv
  <1>15. CASE UNCHANGED vars
    <2>1. TypeOK'
      BY <1>15 DEF vars, TInv, TypeOK, PCs, own
    <2>2. HasCopy'
      BY <1>15 DEF Passes, vars, TInv, HasCopy, own
    <2>3. Coupled' /\ OneHolder'
      BY <1>15
      DEF vars, TInv, TypeOK, Coupled, OneHolder, Entry, Holds, Passes, Buffered, own
    <2> QED
      BY <2>1, <2>2, <2>3 DEF TInv
  <1>16. ASSUME NEW d \in Decoders, WriteLines(d)
        PROVE  TInv'
    <2>1. narea[d] \in Numbers /\ area \in [Numbers -> Area]
      BY DEF TInv, TypeOK
    <2>2. [area[narea[d]] EXCEPT !.is = "mixed"] \in Area
      BY <2>1 DEF Area
    <2>3. /\ area' = [area EXCEPT ![narea[d]] = [area[narea[d]] EXCEPT !.is = "mixed"]]
          /\ UNCHANGED <<entry, syskey, pc, own, nprod, good, clash>>
      BY <1>16, <2>1 DEF WriteLines
    <2>4. TypeOK'
      BY <2>1, <2>2, <2>3 DEF TInv, TypeOK, own
    <2>5. HasCopy'
      BY <2>3 DEF TInv, HasCopy, Passes, own
    <2>6. Coupled' /\ OneHolder'
      BY <2>3 DEF TInv, TypeOK, Coupled, OneHolder, Holds, Passes, Buffered, own
    <2> QED
      BY <2>4, <2>5, <2>6 DEF TInv
  <1> QED
    BY <1>1, <1>2, <1>3, <1>4, <1>5, <1>6, <1>7, <1>8, <1>9, <1>10, <1>11, <1>12, <1>13,
       <1>14, <1>15, <1>16 DEF Next

(* The decoders' state, the table and the files keep their types. *)
THEOREM RouteTypeCorrect == Spec => []TypeOK
  <1>1. TInv => TypeOK
    BY DEF TInv
  <1> QED
    BY <1>1, TInitInv, TStepInv, PTL DEF Spec

(* While nobody has clashed, the number in the table changes only when a   *)
(* decoder files: a refusal gives back the number that is there.           *)
LEMMA OnlyFilingMoves ==
  TInv /\ [Next]_vars /\ clash' = "no" =>
    /\ clash = "no"
    /\ entry'.now = entry.now \/ \E d \in Decoders : FlushRoute(d)
  <1> SUFFICES ASSUME TInv, [Next]_vars, clash' = "no"
               PROVE  /\ clash = "no"
                      /\ entry'.now = entry.now \/ \E d \in Decoders : FlushRoute(d)
    OBVIOUS
  <1>1. clash = "no" /\ entry \in Entry
    BY DEF TInv, TypeOK, vars, Next, Start, GetRoute, GetDefault, OpenArea, WriteLines,
        WriteImage, GiveUp,
           FlushRoute, FlushRefused, FlushFails, SysIn, PostProcess, Exit, Crash, Route
  <1>2. ASSUME NEW d \in Decoders, FlushRefused(d)
        PROVE  entry'.now = entry.now
    <2>1. Holds(d) /\ rtecom[d] \in Entry
      BY <1>2 DEF FlushRefused, Holds, TInv, HasCopy
    <2>2. rtecom[d].last = entry.last /\ entry.last = entry.now
      BY <1>1, <2>1 DEF TInv, OneHolder, Coupled
    <2>3. entry' \in {entry, [rtecom[d] EXCEPT !.now = rtecom[d].last]}
      BY <1>2 DEF FlushRefused
    <2> QED
      BY <2>1, <2>2, <2>3 DEF Entry
  <1>3. ASSUME NEW d \in Decoders, Exit(d)
        PROVE  entry'.now = entry.now
    <2>1. CASE Buffered(d)
      <3>1. pc[d] = "exit" /\ entry' = rtecom[d] /\ Holds(d)
        BY <1>3, <2>1 DEF Exit, Holds
      <3>2. rtecom[d].now = rtecom[d].last /\ rtecom[d].last = entry.last
        BY <1>1, <2>1, <3>1 DEF TInv, Coupled, OneHolder
      <3> QED
        BY <3>1, <3>2 DEF TInv, Coupled
    <2> QED
      BY <1>3, <2>1 DEF Exit
  <1>4. ASSUME Route
        PROVE  entry'.now = entry.now
    BY <1>1, <1>4 DEF Route, Entry
  <1> QED
    BY <1>1, <1>2, <1>3, <1>4
    DEF vars, Next, Start, GetRoute, GetDefault, OpenArea, WriteLines, WriteImage, GiveUp,
        FlushFails,
        SysIn, PostProcess, Crash

(* What a decoder that files writes to the table and to the history. *)
LEMMA FilingStep ==
  ASSUME TInv, clash = "no", NEW d \in Decoders, FlushRoute(d)
  PROVE  /\ narea[d] = Advance(entry.now) /\ entry'.now = narea[d]
         /\ good' = Append(good, Image(d))
  <1>1. Holds(d) /\ rtecom[d] \in Entry /\ rtecom[d].now = narea[d]
    BY DEF FlushRoute, Holds, TInv, HasCopy
  <1>2. rtecom[d].now = Advance(entry.now)
    BY <1>1 DEF FlushRoute, TInv, OneHolder
  <1>3. entry' = [rtecom[d] EXCEPT !.last = rtecom[d].now]
    BY DEF FlushRoute
  <1> QED
    BY <1>1, <1>2, <1>3 DEF FlushRoute, Entry

(* The number in the table goes around the cylinder without a gap, as long *)
(* as no two decoders held the entry at once: whatever decoder writes the  *)
(* entry back has read it since it changed last (rtesubs.c:236-248).       *)
THEOREM NumbersHaveNoGaps == Spec => NoGaps
  <1> DEFINE Step == clash' = "no" /\ entry'.now # entry.now =>
                       entry'.now = Advance(entry.now)
  <1>1. TInv /\ [Next]_vars => [Step]_vars
    BY OnlyFilingMoves, FilingStep
  <1> QED
    BY <1>1, TInitInv, TStepInv, PTL DEF Spec, NoGaps

-----------------------------------------------------------------------------
(* The number i - 1 places behind the one in the table. *)
Back(i) == IF entry.now - (i - 1) >= Beg THEN entry.now - (i - 1)
           ELSE entry.now - (i - 1) + (End - Beg + 1)

(* The history lies behind the table's number. *)
KNumbers ==
  \A i \in 1..Len(good) :
    /\ entry.now \in Beg..End
    /\ i <= End - Beg + 1 => Newest(i).num = Back(i)

(* The newest images but for the oldest file of the cylinder are as filed. *)
KFiled ==
  \A i \in 1..Len(good) : i <= End - Beg => IsAsFiled(Newest(i))

(* The file of the decoder that holds the entry is its own. *)
KMine ==
  \A d \in Decoders : irte[d] = 1 =>
    /\ pc[d] = "write" => area[narea[d]] = [prod |-> prod[d], is |-> "partial"]
    /\ pc[d] = "flush" => IsAsFiled(Image(d))

KInv == clash = "no" /\ HasCylinder => KNumbers /\ KFiled /\ KMine

LEMMA KInitInv == Init => KInv
  BY DEF Init, KInv, KNumbers, KFiled, KMine

(* The next number is not the number of a file that is to be kept. *)
LEMMA NextIsOldest ==
  ASSUME HasCylinder, TInv, KNumbers, NEW i \in 1..Len(good), i <= End - Beg
  PROVE  Newest(i).num # Advance(entry.now)
  BY RouteTableAssumption DEF KNumbers, Back, Advance, Cylinder, UNSET

LEMMA SeqElement ==
  ASSUME NEW S, NEW s \in Seq(S), NEW k \in 1..Len(s)
  PROVE  s[k] \in S
  OBVIOUS

(* Stepping the table's number forward and back again. *)
LEMMA ForwardAndBack ==
  ASSUME NEW n \in Beg..End, NEW i \in Int, i >= 2, i <= End - Beg + 1, NEW m,
         m = IF n + 1 > End THEN Beg ELSE n + 1
  PROVE  (IF m - (i - 1) >= Beg THEN m - (i - 1) ELSE m - (i - 1) + (End - Beg + 1))
         = (IF n - (i - 2) >= Beg THEN n - (i - 2) ELSE n - (i - 2) + (End - Beg + 1))
  BY RouteTableAssumption

(* A step that writes no file and files nothing. *)
LEMMA QuietStep ==
  ASSUME TInv, KInv, clash' = "no", clash = "no",
         good' = good, area' = area, entry'.now = entry.now,
         \A d \in Decoders :
           pc'[d] \in {"write", "flush"} =>
             /\ irte'[d] = irte[d] /\ narea'[d] = narea[d] /\ prod'[d] = prod[d]
             /\ left'[d] = left[d] /\ pc'[d] = pc[d]
  PROVE  KInv'
  BY DEF KInv, KNumbers, KFiled, KMine, IsAsFiled, Image, Newest, Back

(* A decoder that writes its file: the default file, or the next one of    *)
(* the cylinder, which nobody else writes.                                 *)
LEMMA WritingStep ==
  ASSUME TInv, KInv, clash' = "no", clash = "no", good' = good, entry' = entry,
         NEW d \in Decoders, pc[d] \in {"open", "write"}, NEW f, NEW is \in Left,
         area' = [area EXCEPT ![narea[d]] = f],
         UNCHANGED <<rtecom, irte, narea, prod>>, left' = [left EXCEPT ![d] = is],
         pc' = [pc EXCEPT ![d] = IF pc[d] = "open" THEN "write"
                                 ELSE IF irte[d] # 0 THEN "flush" ELSE "exit"],
         f = [prod |-> prod[d], is |-> IF pc[d] = "open" THEN "partial" ELSE is] \/ irte[d] = 0
  PROVE  KInv'
  <1> USE RouteTableAssumption
  <1> SUFFICES ASSUME HasCylinder
               PROVE  KNumbers' /\ KFiled' /\ KMine'
    BY DEF KInv
  <1>1. KNumbers /\ KFiled /\ KMine
    BY DEF KInv
  <1>2. KNumbers'
    BY <1>1 DEF KNumbers, Newest, Back
  <1>3. irte[d] = 1 => Holds(d) /\ narea[d] = Advance(entry.now) /\ narea[d] \in Beg..End
    BY DEF TInv, HasCopy, OneHolder, Holds, Cylinder
  <1>4. irte[d] = 0 => narea[d] = Inum
    BY DEF TInv, HasCopy
  <1>5. \A n \in Numbers : n # narea[d] => area'[n] = area[n]
    BY DEF TInv, TypeOK
  <1>6. KFiled'
    <2> SUFFICES ASSUME NEW i \in 1..Len(good), i <= End - Beg
                 PROVE  IsAsFiled(Newest(i))'
      BY DEF KFiled
    <2>1. Newest(i).num \in Numbers /\ Newest(i)' = Newest(i)
      <3>1. good \in Seq(Filed) /\ Len(good) - i + 1 \in 1..Len(good)
        BY DEF TInv, TypeOK
      <3>2. good[Len(good) - i + 1] \in Filed
        BY <3>1, SeqElement
      <3> QED
        BY <3>2 DEF Newest, Filed
    <2>2. Newest(i).num # narea[d]
      <3>1. CASE irte[d] = 1
        BY <1>1, <1>3, <3>1, NextIsOldest
      <3>2. CASE irte[d] = 0
        BY <1>1, <1>4, <3>2 DEF KNumbers, Back
      <3> QED
        BY <3>1, <3>2 DEF TInv, TypeOK
    <2> QED
      BY <1>1, <1>5, <2>1, <2>2 DEF KFiled, IsAsFiled
  <1>7. KMine'
    <2> SUFFICES ASSUME NEW e \in Decoders, irte'[e] = 1, pc'[e] \in {"write", "flush"}
                 PROVE  /\ pc'[e] = "write" => area'[narea[e]] = [prod |-> prod[e], is |-> "partial"]
                        /\ pc'[e] = "flush" => area'[narea[e]] = [prod |-> prod[e], is |-> left'[e]]
      BY DEF KMine, IsAsFiled, Image
    <2>1. CASE e = d
      BY <2>1 DEF TInv, TypeOK
    <2>2. CASE e # d
      <3>1. pc'[e] = pc[e] /\ irte[e] = 1 /\ Holds(e) /\ narea[e] \in Beg..End
        BY <2>2 DEF TInv, TypeOK, Holds, HasCopy, Cylinder
      <3>2. irte[d] = 0
        BY <1>3, <2>2, <3>1 DEF TInv, TypeOK, OneHolder
      <3>3. narea[e] # narea[d] /\ narea[e] \in Numbers
        BY <1>4, <3>1, <3>2 DEF TInv, TypeOK
      <3> QED
        BY <1>1, <1>5, <3>1, <3>3 DEF KMine, IsAsFiled, Image, TInv, TypeOK
    <2> QED
      BY <2>1, <2>2
  <1> QED
    BY <1>2, <1>6, <1>7

(* A decoder that files an image. *)
LEMMA FilingKeeps ==
  ASSUME TInv, KInv, clash' = "no", clash = "no", NEW d \in Decoders, FlushRoute(d)
  PROVE  KInv'
  <1> USE RouteTableAssumption
  <1> SUFFICES ASSUME HasCylinder
               PROVE  KNumbers' /\ KFiled' /\ KMine'
    BY DEF KInv
  <1>1. KNumbers /\ KFiled /\ KMine
    BY DEF KInv
  <1> DEFINE new == Image(d)
  <1>2. /\ narea[d] = Advance(entry.now) /\ entry'.now = narea[d]
        /\ good' = Append(good, new)
    BY FilingStep
  <1>3. good \in Seq(Filed) /\ new \in Filed /\ new.num = narea[d]
    BY DEF TInv, TypeOK, HasCopy, FlushRoute, Image, Filed
  <1>4. /\ area' = area /\ Len(good') = Len(good) + 1
        /\ Newest(1)' = new
        /\ \A i \in 1..Len(good) : Newest(i + 1)' = Newest(i)
    <2> HIDE DEF new
    <2> QED
      BY <1>2, <1>3 DEF Newest, FlushRoute
  <1>5. narea[d] \in Beg..End /\ entry.now \in Beg..End \cup {UNSET}
    <2>1. entry.now \in Cylinder \cup {UNSET}
      BY DEF TInv, TypeOK, Entry
    <2>2. narea[d] \in Cylinder
      BY <1>2, <2>1, AdvanceType
    <2> QED
      BY <2>1, <2>2 DEF Cylinder
  <1>6. KNumbers'
    <2> SUFFICES ASSUME NEW i \in 1..(Len(good) + 1), i <= End - Beg + 1
                 PROVE  Newest(i)'.num = Back(i)'
      BY <1>2, <1>4, <1>5 DEF KNumbers
    <2>1. CASE i = 1
      BY <1>2, <1>3, <1>4, <1>5, <2>1 DEF Back
    <2>2. CASE i # 1
      <3>1. i - 1 \in 1..Len(good) /\ i = (i - 1) + 1
        BY <1>3, <2>2
      <3>2. Newest(i)'.num = Back(i - 1) /\ entry.now \in Beg..End
        BY <1>1, <1>4, <3>1 DEF KNumbers
      <3>3. entry'.now = IF entry.now + 1 > End THEN Beg ELSE entry.now + 1
        BY <1>2, <3>2 DEF Advance, UNSET
      <3>4. Back(i)' = IF entry'.now - (i - 1) >= Beg THEN entry'.now - (i - 1)
                       ELSE entry'.now - (i - 1) + (End - Beg + 1)
        BY DEF Back
      <3>5. Back(i - 1) = IF entry.now - (i - 2) >= Beg THEN entry.now - (i - 2)
                          ELSE entry.now - (i - 2) + (End - Beg + 1)
        BY <1>3, <3>1, <3>2 DEF Back
      <3>6. Back(i)' = Back(i - 1)
        <4>1. i \in Int /\ i >= 2
          BY <1>3, <2>2
        <4> QED
          BY <3>2, <3>3, <3>4, <3>5, <4>1, ForwardAndBack
      <3> QED
        BY <3>2, <3>6
    <2> QED
      BY <2>1, <2>2
  <1>7. KFiled'
    <2> SUFFICES ASSUME NEW i \in 1..(Len(good) + 1), i <= End - Beg
                 PROVE  IsAsFiled(Newest(i)')
      BY <1>4 DEF KFiled, IsAsFiled
    <2>1. CASE i = 1
      <3>1. pc[d] = "flush" /\ irte[d] = 1
        BY DEF FlushRoute, TInv, HasCopy
      <3>2. IsAsFiled(new)
        BY <1>1, <3>1 DEF KMine
      <3> QED
        BY <1>4, <2>1, <3>2
    <2>2. CASE i # 1
      <3>1. i - 1 \in 1..Len(good) /\ i = (i - 1) + 1
        BY <1>3, <2>2
      <3>2. Newest(i)' = Newest(i - 1)
        BY <1>4, <3>1
      <3>3. IsAsFiled(Newest(i - 1))
        BY <1>1, <3>1 DEF KFiled
      <3> QED
        BY <3>2, <3>3
    <2> QED
      BY <2>1, <2>2
  <1>8. KMine'
    BY <1>1, <1>4 DEF KMine, IsAsFiled, Image, FlushRoute, Goto, TInv, TypeOK
  <1> QED
    BY <1>6, <1>7, <1>8

(* Lines get into the file of another only by a decoder without the entry. *)
LEMMA LinesStep ==
  ASSUME TInv, KInv, clash' = "no", clash = "no", NEW d \in Decoders, WriteLines(d)
  PROVE  KInv'
  <1> USE RouteTableAssumption
  <1> SUFFICES ASSUME HasCylinder
               PROVE  KNumbers' /\ KFiled' /\ KMine'
    BY DEF KInv
  <1>1. /\ KNumbers /\ KFiled /\ KMine
        /\ UNCHANGED <<entry, pc, rtecom, irte, narea, prod, left, good>>
    BY DEF KInv, WriteLines, own
  <1>2. irte[d] = 0 /\ narea[d] = Inum
    BY <1>1 DEF WriteLines, KMine, TInv, TypeOK, HasCopy
  <1>3. \A n \in Numbers : n # Inum => area'[n] = area[n]
    BY <1>2 DEF WriteLines, TInv, TypeOK
  <1>4. KNumbers'
    BY <1>1 DEF KNumbers, Newest, Back
  <1>5. KFiled'
    <2> SUFFICES ASSUME NEW i \in 1..Len(good), i <= End - Beg
                 PROVE  IsAsFiled(Newest(i))'
      BY <1>1 DEF KFiled
    <2>1. Newest(i).num \in Numbers /\ Newest(i)' = Newest(i)
      <3>1. good \in Seq(Filed) /\ Len(good) - i + 1 \in 1..Len(good)
        BY DEF TInv, TypeOK
      <3>2. good[Len(good) - i + 1] \in Filed
        BY <3>1, SeqElement
      <3> QED
        BY <1>1, <3>2 DEF Newest, Filed
    <2>2. Newest(i).num # Inum
      <3>1. entry.now \in Beg..End
        BY <1>1 DEF KNumbers
      <3>2. Newest(i).num = Back(i)
        BY <1>1 DEF KNumbers
      <3> QED
        BY <3>1, <3>2 DEF Back
    <2> QED
      BY <1>1, <1>3, <2>1, <2>2 DEF KFiled, IsAsFiled
  <1>6. KMine'
    <2> SUFFICES ASSUME NEW e \in Decoders, irte[e] = 1, pc[e] \in {"write", "flush"}
                 PROVE  area'[narea[e]] = area[narea[e]]
      BY <1>1 DEF KMine, IsAsFiled, Image
    <2>1. narea[e] \in Beg..End
      BY DEF TInv, HasCopy, OneHolder, Holds, Cylinder
    <2> QED
      BY <1>3, <2>1 DEF Numbers, Cylinder
  <1> QED
    BY <1>4, <1>5, <1>6

LEMMA KStepInv == TInv /\ KInv /\ [Next]_vars => KInv'
  <1> SUFFICES ASSUME TInv, KInv, [Next]_vars, clash' = "no"
               PROVE  KInv'
    BY DEF KInv
  <1>1. /\ clash = "no"
        /\ entry'.now = entry.now \/ \E d \in Decoders : FlushRoute(d)
    BY OnlyFilingMoves
  <1>2. ASSUME NEW d \in Decoders, FlushRoute(d)
        PROVE  KInv'
    BY <1>1, <1>2, FilingKeeps
  <1>3. ASSUME NEW d \in Decoders, OpenArea(d), HasCylinder
        PROVE  KInv'
    <2> DEFINE f == [prod |-> prod[d], is |-> "partial"]
    <2>1. /\ area' = [area EXCEPT ![narea[d]] = f]
          /\ left' = [left EXCEPT ![d] = left[d]] /\ left[d] \in Left
          /\ UNCHANGED <<rtecom, irte, narea, prod>>
      BY <1>3 DEF OpenArea, own, TInv, TypeOK
    <2> QED
      BY <1>1, <1>3, <2>1, WritingStep DEF OpenArea, Goto
  <1>4. ASSUME NEW d \in Decoders, WriteImage(d), HasCylinder
        PROVE  KInv'
    <2>1. PICK is \in Left :
            /\ left' = [left EXCEPT ![d] = is]
            /\ \/ area' = [area EXCEPT ![narea[d]] = [prod |-> prod[d], is |-> is]]
               \/ irte[d] = 0 /\ \E f : area' = [area EXCEPT ![narea[d]] = f]
      BY <1>1, <1>4 DEF WriteImage, KInv, KMine, TInv, TypeOK
    <2> QED
      BY <1>1, <1>4, <2>1, WritingStep DEF WriteImage, Goto
  <1>5. ASSUME NEW d \in Decoders,
               \/ Start(d) \/ GetRoute(d) \/ GetDefault(d) \/ GiveUp(d)
               \/ FlushRefused(d) \/ FlushFails(d) \/ PostProcess(d) \/ Exit(d) \/ Crash(d)
               \/ SysIn(d),
               entry'.now = entry.now
        PROVE  KInv'
    <2>1. good' = good /\ area' = area
      BY <1>5 DEF Start, GetRoute, GetDefault, GiveUp, FlushRefused, FlushFails, SysIn,
                  PostProcess, Exit, Crash
    <2>2. \A e \in Decoders : pc'[e] \in {"write", "flush"} =>
             /\ irte'[e] = irte[e] /\ narea'[e] = narea[e] /\ prod'[e] = prod[e]
             /\ left'[e] = left[e] /\ pc'[e] = pc[e]
      BY <1>5 DEF Start, GetRoute, GetDefault, GiveUp, FlushRefused, FlushFails, SysIn,
                  PostProcess, Exit, Crash, Goto, Gone, own, TInv, TypeOK
    <2> QED
      BY <1>1, <1>5, <2>1, <2>2, QuietStep
  <1>6. CASE Route \/ UNCHANGED vars
    <2>1. entry'.now = entry.now /\ good' = good /\ area' = area
      BY <1>6 DEF Route, vars, TInv, TypeOK, Entry
    <2>2. \A e \in Decoders :
             /\ irte'[e] = irte[e] /\ narea'[e] = narea[e] /\ prod'[e] = prod[e]
             /\ left'[e] = left[e] /\ pc'[e] = pc[e]
      BY <1>6 DEF Route, vars, own
    <2> QED
      BY <1>1, <2>1, <2>2, QuietStep
  <1>7. ASSUME ~HasCylinder
        PROVE  KInv'
    BY <1>7 DEF KInv
  <1>8. ASSUME NEW d \in Decoders, WriteLines(d)
        PROVE  KInv'
    BY <1>1, <1>8, LinesStep
  <1> QED
    BY <1>1, <1>2, <1>3, <1>4, <1>5, <1>6, <1>7, <1>8 DEF Next

LEMMA SizeOfCylinder == Size = IF HasCylinder THEN End - Beg + 1 ELSE 1
  <1> USE RouteTableAssumption
  <1>1. CASE HasCylinder
    <2>1. Beg \in Int /\ End \in Int /\ ~(Beg > End)
      OBVIOUS
    <2>2. Cardinality(Beg..End) = IF Beg > End THEN 0 ELSE End - Beg + 1
      BY <2>1, FS_Interval
    <2> QED
      BY <1>1, <2>1, <2>2 DEF Size, Cylinder
  <1>2. CASE ~HasCylinder
    BY <1>2, FS_Singleton DEF Size, Cylinder
  <1> QED
    BY <1>1, <1>2

(* A cylinder of n files keeps the n - 1 images filed last as they were    *)
(* filed - whole unless a write of their own failed -, whoever gave up,    *)
(* was refused or was killed since, as long as no two decoders held the    *)
(* entry at once (rtesubs.c:236-248, 388-411).                             *)
THEOREM CylinderKeeps == Spec => []CylinderKeepsImages
  <1>1. TInv /\ KInv => CylinderKeepsImages
    <2> SUFFICES ASSUME TInv, KInv, clash = "no", NEW i \in 1..(Size - 1), i <= Len(good)
                 PROVE  IsAsFiled(Newest(i))
      BY DEF CylinderKeepsImages
    <2>1. HasCylinder /\ i <= End - Beg /\ i \in 1..Len(good)
      BY SizeOfCylinder, RouteTableAssumption DEF TInv, TypeOK
    <2> QED
      BY <2>1 DEF KInv, KFiled
  <1> QED
    BY <1>1, TInitInv, TStepInv, KInitInv, KStepInv, PTL DEF Spec

-----------------------------------------------------------------------------
(* An image has been filed under n, and its file has not been unmade. *)
FiledUnder(n) ==
  n # UNSET => area[n].is # "none" /\ \E i \in DOMAIN good : good[i].num = n

(* The numbers that are, or may be, written to the table as the last one. *)
LInv ==
  /\ FiledUnder(entry.last)
  /\ \A d \in Decoders : irte[d] = 1 =>
       /\ FiledUnder(rtecom[d].last)
       /\ pc[d] \in {"write", "flush"} => area[narea[d]].is # "none"

(* What is in the history stays there. *)
LEMMA HistoryStays ==
  ASSUME TInv, [Next]_vars
  PROVE  \A i \in DOMAIN good : i \in DOMAIN good' /\ good'[i] = good[i]
  <1>1. ASSUME NEW d \in Decoders, FlushRoute(d)
        PROVE  \A i \in DOMAIN good : i \in DOMAIN good' /\ good'[i] = good[i]
    BY <1>1 DEF FlushRoute, TInv, TypeOK
  <1> QED
    BY <1>1 DEF vars, Next, Start, GetRoute, GetDefault, OpenArea, WriteLines, WriteImage, GiveUp,
       FlushRefused, FlushFails, SysIn, PostProcess, Exit, Crash, Route

(* What has been filed stays so. *)
LEMMA FiledStays ==
  ASSUME TInv, [Next]_vars
  PROVE  /\ \A n \in Numbers : area[n].is # "none" => area'[n].is # "none"
         /\ \A n \in Numbers \cup {UNSET} : FiledUnder(n) => FiledUnder(n)'
  <1>1. \A n \in Numbers : area[n].is # "none" => area'[n].is # "none"
    <2>1. ASSUME NEW d \in Decoders, OpenArea(d)
          PROVE  \A n \in Numbers : area[n].is # "none" => area'[n].is # "none"
      BY <2>1 DEF OpenArea, TInv, TypeOK
    <2>2. ASSUME NEW d \in Decoders, WriteImage(d)
          PROVE  \A n \in Numbers : area[n].is # "none" => area'[n].is # "none"
      <3>1. /\ narea[d] \in Numbers /\ area \in [Numbers -> Area]
            /\ area[narea[d]] \in Area
        BY DEF TInv, TypeOK
      <3>2. \E f : (area[narea[d]].is # "none" => f.is # "none")
                   /\ area' = [area EXCEPT ![narea[d]] = f]
        <4>1. PICK is \in Left :
                \E what \in {[prod |-> prod[d], is |-> is], area[narea[d]],
                            [area[narea[d]] EXCEPT !.is = "mixed"]} :
                  area' = [area EXCEPT ![narea[d]] = what]
          BY <2>2 DEF WriteImage
        <4>2. [area[narea[d]] EXCEPT !.is = "mixed"].is = "mixed"
          BY <3>1 DEF Area
        <4>3. is # "none"
          BY DEF Left
        <4> QED
          BY <4>1, <4>2, <4>3
      <3> QED
        BY <3>1, <3>2
    <2>3. ASSUME NEW d \in Decoders, WriteLines(d)
          PROVE  \A n \in Numbers : area[n].is # "none" => area'[n].is # "none"
      <3>1. narea[d] \in Numbers /\ area[narea[d]] \in Area
        BY DEF TInv, TypeOK
      <3>2. [area[narea[d]] EXCEPT !.is = "mixed"].is = "mixed"
        BY <3>1 DEF Area
      <3> QED
        BY <2>3, <3>1, <3>2 DEF WriteLines, TInv, TypeOK
    <2> QED
      BY <2>1, <2>2, <2>3 DEF vars, Next, Start, GetRoute, GetDefault, GiveUp, FlushRoute,
         FlushRefused, FlushFails, SysIn, PostProcess, Exit, Crash, Route
  <1>2. \A i \in DOMAIN good : i \in DOMAIN good' /\ good'[i] = good[i]
    BY HistoryStays
  <1>3. ASSUME NEW n \in Numbers, FiledUnder(n)
        PROVE  FiledUnder(n)'
    BY <1>1, <1>2, <1>3 DEF FiledUnder
  <1>4. FiledUnder(UNSET)'
    BY DEF FiledUnder
  <1> QED
    BY <1>1, <1>3, <1>4

LEMMA LInitInv == Init => LInv
  BY DEF Init, LInv, FiledUnder

LEMMA LStepInv == TInv /\ LInv /\ [Next]_vars => LInv'
  <1> SUFFICES ASSUME TInv, LInv, [Next]_vars
               PROVE  LInv'
    OBVIOUS
  <1>1. /\ \A n \in Numbers : area[n].is # "none" => area'[n].is # "none"
        /\ \A n \in Numbers \cup {UNSET} : FiledUnder(n) => FiledUnder(n)'
    BY FiledStays
  <1>2. /\ entry \in Entry /\ entry.last \in Numbers \cup {UNSET}
        /\ \A d \in Decoders : irte[d] = 1 =>
             rtecom[d] \in Entry /\ rtecom[d].last \in Numbers \cup {UNSET}
        /\ \A d \in Decoders : narea[d] \in Numbers
    BY DEF TInv, TypeOK, HasCopy, Entry, Numbers
  <1>3. ASSUME NEW d \in Decoders, FlushRoute(d)
        PROVE  LInv'
    <2> DEFINE copy == [rtecom[d] EXCEPT !.last = rtecom[d].now]
               new == Image(d)
    <2>1. irte[d] = 1 /\ rtecom[d].now = narea[d] /\ area[narea[d]].is # "none"
      BY <1>3 DEF FlushRoute, TInv, HasCopy, LInv
    <2>2. copy.last = narea[d]
      BY <1>2, <2>1 DEF Entry
    <2>3. /\ entry' = copy /\ rtecom' = [rtecom EXCEPT ![d] = copy]
          /\ good' = Append(good, new) /\ new.num = narea[d]
          /\ UNCHANGED <<area, irte, narea>>
          /\ pc'[d] \notin {"write", "flush"}
          /\ \A e \in Decoders \ {d} : pc'[e] = pc[e]
      BY <1>3 DEF FlushRoute, Image, Goto, TInv, TypeOK
    <2> HIDE DEF copy, new
    <2>4. good'[Len(good) + 1] = new /\ Len(good) + 1 \in DOMAIN good'
      BY <2>3 DEF TInv, TypeOK
    <2>5. FiledUnder(narea[d])'
      BY <2>1, <2>3, <2>4 DEF FiledUnder
    <2>6. /\ rtecom'[d] = copy
          /\ \A e \in Decoders \ {d} : rtecom'[e] = rtecom[e]
      BY <2>3 DEF TInv, TypeOK
    <2>7. \A n : (n = narea[d] => FiledUnder(n)')
      BY <2>5, <2>3 DEF FiledUnder
    <2>8. FiledUnder(entry.last)'
      BY <2>2, <2>3, <2>5 DEF FiledUnder
    <2>9. ASSUME NEW e \in Decoders, irte'[e] = 1
          PROVE  /\ FiledUnder(rtecom[e].last)'
                 /\ pc'[e] \in {"write", "flush"} => area'[narea'[e]].is # "none"
      <3>1. CASE e = d
        BY <2>2, <2>3, <2>5, <2>6, <3>1 DEF FiledUnder
      <3>2. CASE e # d
        BY <1>1, <1>2, <2>3, <2>6, <2>9, <3>2 DEF LInv, FiledUnder
      <3> QED
        BY <3>1, <3>2
    <2> QED
      BY <2>8, <2>9 DEF LInv
  <1>4. ASSUME ~\E d \in Decoders : FlushRoute(d)
        PROVE  LInv'
    <2>1. /\ entry'.last = entry.last
             \/ \E d \in Decoders : irte[d] = 1 /\ entry'.last = rtecom[d].last
          /\ \A d \in Decoders : irte'[d] = 1 =>
               \/ irte[d] = 1 /\ rtecom'[d].last = rtecom[d].last
               \/ rtecom'[d].last = entry.last
      <3>1. ASSUME NEW d \in Decoders, FlushRefused(d)
            PROVE  <2>1!1 /\ <2>1!2
        BY <1>2, <3>1 DEF FlushRefused, TInv, TypeOK, HasCopy, Entry
      <3>2. ASSUME NEW d \in Decoders, GetRoute(d)
            PROVE  <2>1!1 /\ <2>1!2
        BY <1>2, <3>2 DEF GetRoute, TInv, TypeOK, Entry
      <3>3. ASSUME NEW d \in Decoders, Exit(d)
            PROVE  <2>1!1 /\ <2>1!2
        BY <1>2, <3>3 DEF Exit, Gone, Buffered, TInv, TypeOK
      <3>4. CASE Route
        BY <1>2, <3>4 DEF Route, own, Entry
      <3>5. ASSUME NEW d \in Decoders,
                   Start(d) \/ GetDefault(d) \/ GiveUp(d) \/ Crash(d) \/ FlushFails(d)
            PROVE  <2>1!1 /\ <2>1!2
        BY <3>5 DEF Start, GetDefault, GiveUp, Crash, FlushFails, Gone, TInv, TypeOK
      <3>6. ASSUME \/ UNCHANGED vars
                   \/ \E d \in Decoders : \/ OpenArea(d) \/ WriteLines(d) \/ WriteImage(d)
                                          \/ SysIn(d) \/ PostProcess(d)
            PROVE  <2>1!1 /\ <2>1!2
        BY <3>6 DEF vars, own, OpenArea, WriteLines, WriteImage, SysIn, PostProcess
      <3> QED
        BY <1>4, <3>1, <3>2, <3>3, <3>4, <3>5, <3>6 DEF Next
    <2>2. ASSUME NEW d \in Decoders, irte'[d] = 1, pc'[d] \in {"write", "flush"}
          PROVE  area'[narea'[d]].is # "none"
      <3>1. CASE OpenArea(d)
        BY <1>2, <3>1 DEF OpenArea, own, TInv, TypeOK
      <3>2. CASE pc[d] \in {"write", "flush"} /\ irte[d] = 1 /\ narea'[d] = narea[d]
        BY <1>1, <1>2, <3>2 DEF LInv
      <3>3. OpenArea(d) \/ (pc[d] \in {"write", "flush"} /\ irte[d] = 1 /\ narea'[d] = narea[d])
        <4> DEFINE Same == pc[d] \in {"write", "flush"} /\ irte[d] = 1 /\ narea'[d] = narea[d]
        <4>1. ASSUME NEW e \in Decoders, OpenArea(e) \/ WriteLines(e) \/ WriteImage(e)
              PROVE  OpenArea(d) \/ Same
          BY <2>2, <4>1 DEF OpenArea, WriteLines, WriteImage, own, Goto, TInv, TypeOK
        <4>2. ASSUME NEW e \in Decoders, GiveUp(e) \/ Exit(e) \/ Crash(e)
              PROVE  Same
          BY <2>2, <4>2 DEF GiveUp, Exit, Crash, Gone, Goto, TInv, TypeOK
        <4>3. ASSUME NEW e \in Decoders,
                     Start(e) \/ GetRoute(e) \/ GetDefault(e) \/ FlushRefused(e) \/ FlushFails(e)
              PROVE  Same
          BY <2>2, <4>3 DEF Start, GetRoute, GetDefault, FlushRefused, FlushFails, Goto, TInv,
              TypeOK
        <4>4. ASSUME NEW e \in Decoders, SysIn(e) \/ PostProcess(e)
              PROVE  Same
          BY <2>2, <4>4 DEF SysIn, PostProcess, own, Goto, TInv, TypeOK
        <4>5. CASE Route \/ UNCHANGED vars
          BY <2>2, <4>5 DEF Route, vars, own
        <4> QED
          BY <1>4, <4>1, <4>2, <4>3, <4>4, <4>5 DEF Next
      <3> QED
        BY <3>1, <3>2, <3>3
    <2>3. FiledUnder(entry.last)'
      BY <1>1, <1>2, <2>1 DEF LInv, FiledUnder
    <2>4. ASSUME NEW d \in Decoders, irte'[d] = 1
          PROVE  FiledUnder(rtecom[d].last)'
      BY <1>1, <1>2, <2>1, <2>4 DEF LInv, FiledUnder
    <2> QED
      BY <2>2, <2>3, <2>4 DEF LInv
  <1> QED
    BY <1>3, <1>4

(* Whatever decoders overlap, give up, are refused or are killed, the last *)
(* number in the table is one that an image was filed under                *)
(* (rtesubs.c:388-411).                                                    *)
THEOREM LastNumberWasFiled == Spec => []LastWasFiled
  <1>1. TInv /\ LInv => LastWasFiled
    BY DEF TInv, LInv, Coupled, FiledUnder, LastWasFiled
  <1> QED
    BY <1>1, TInitInv, TStepInv, LInitInv, LStepInv, PTL DEF Spec

-----------------------------------------------------------------------------
(* What a decoder has done before its batch file is started: filed its     *)
(* image under the number in its copy, or found an entry that wants the    *)
(* batch file all the same.                                                *)
FiledHere(d) ==
  pc[d] \in {"sysb", "syse", "sysc", "post"} =>
    IF Passes(d)
    THEN \E i \in DOMAIN good : good[i].num = rtecom[d].now /\ good[i].prod = prod[d]
    ELSE rtecom[d].xcut # 0

PInv == \A d \in Decoders : FiledHere(d)

LEMMA PInitInv == Init => PInv
  BY DEF Init, PInv, FiledHere

(* The others change nothing of it. *)
LEMMA OthersKeepFiled ==
  ASSUME TInv, [Next]_vars, NEW d \in Decoders, ~FlushRoute(d), ~FlushRefused(d),
         pc'[d] \in {"sysb", "syse", "sysc", "post"}
  PROVE  /\ pc[d] \in {"sysb", "syse", "sysc", "post"}
         /\ rtecom'[d] = rtecom[d] /\ prod'[d] = prod[d]
  <1> DEFINE Same == /\ pc[d] \in {"sysb", "syse", "sysc", "post"}
                     /\ rtecom'[d] = rtecom[d] /\ prod'[d] = prod[d]
  <1>1. ASSUME NEW e \in Decoders, GiveUp(e) \/ Exit(e) \/ Crash(e)
        PROVE  Same
    BY <1>1 DEF GiveUp, Exit, Crash, Gone, Goto, TInv, TypeOK
  <1>2. ASSUME NEW e \in Decoders, Start(e) \/ GetRoute(e) \/ GetDefault(e)
        PROVE  Same
    BY <1>2 DEF Start, GetRoute, GetDefault, Goto, TInv, TypeOK
  <1>3. ASSUME NEW e \in Decoders, OpenArea(e) \/ WriteLines(e) \/ WriteImage(e) \/ FlushFails(e)
        PROVE  Same
    BY <1>3 DEF OpenArea, WriteLines, WriteImage, FlushFails, Goto, own, TInv, TypeOK
  <1>4. ASSUME NEW e \in Decoders, SysIn(e) \/ PostProcess(e)
        PROVE  Same
    BY <1>4 DEF SysIn, PostProcess, Goto, own, TInv, TypeOK
  <1>5. ASSUME NEW e \in Decoders, FlushRoute(e)
        PROVE  Same
    BY <1>5 DEF FlushRoute, Goto, TInv, TypeOK
  <1>6. ASSUME NEW e \in Decoders, FlushRefused(e)
        PROVE  Same
    BY <1>6 DEF FlushRefused, Goto, TInv, TypeOK
  <1>7. CASE Route \/ UNCHANGED vars
    BY <1>7 DEF Route, vars, own
  <1> QED
    BY <1>1, <1>2, <1>3, <1>4, <1>5, <1>6, <1>7 DEF Next

LEMMA PStepInv == TInv /\ PInv /\ [Next]_vars => PInv'
  <1> SUFFICES ASSUME TInv, PInv, [Next]_vars, NEW d \in Decoders,
                      pc'[d] \in {"sysb", "syse", "sysc", "post"}
               PROVE  FiledHere(d)'
    BY DEF PInv, FiledHere
  <1>1. CASE FlushRoute(d)
    <2> DEFINE copy == [rtecom[d] EXCEPT !.last = rtecom[d].now]
    <2>1. /\ irte[d] = 1 /\ rtecom[d] \in Entry /\ rtecom[d].now = narea[d]
          /\ rtecom[d].cond \in {0, 1, 3, 5, 7}
      BY <1>1, RouteTableAssumption DEF FlushRoute, TInv, HasCopy, Passes
    <2>2. copy.now = narea[d] /\ copy.cond \in {0, 1, 3, 5, 7}
      BY <2>1 DEF Entry
    <2>3. rtecom'[d] = copy /\ good' = Append(good, Image(d)) /\ prod' = prod
      BY <1>1 DEF FlushRoute, TInv, TypeOK
    <2>4. good'[Len(good) + 1] = Image(d) /\ Len(good) + 1 \in DOMAIN good'
      BY <2>3 DEF TInv, TypeOK
    <2> HIDE DEF copy
    <2> QED
      BY <2>2, <2>3, <2>4 DEF FiledHere, Passes, Image
  <1>2. CASE FlushRefused(d)
    <2> DEFINE copy == [rtecom[d] EXCEPT !.now = rtecom[d].last]
    <2>1. rtecom[d] \in Entry
      BY <1>2, RouteTableAssumption DEF FlushRefused, TInv, HasCopy
    <2>2. copy.cond = rtecom[d].cond
      BY <2>1 DEF Entry
    <2>3. rtecom'[d] = copy /\ (copy.xcut = 0 => pc'[d] = "exit") /\ ~Passes(d)
      BY <1>2 DEF FlushRefused, Goto, TInv, TypeOK
    <2> HIDE DEF copy
    <2> QED
      BY <2>2, <2>3 DEF FiledHere, Passes
  <1>3. CASE ~FlushRoute(d) /\ ~FlushRefused(d)
    <2>1. /\ pc[d] \in {"sysb", "syse", "sysc", "post"}
          /\ rtecom'[d] = rtecom[d] /\ prod'[d] = prod[d]
      BY <1>3, OthersKeepFiled
    <2>2. \A i \in DOMAIN good : i \in DOMAIN good' /\ good'[i] = good[i]
      BY HistoryStays
    <2>3. Passes(d)' <=> Passes(d)
      BY <2>1 DEF Passes
    <2>4. FiledHere(d)
      BY DEF PInv
    <2> QED
      BY <2>1, <2>2, <2>3, <2>4 DEF FiledHere
  <1> QED
    BY <1>1, <1>2, <1>3

(* A number given back is that of the image filed last, as long as no two  *)
(* decoders held the entry at once.                                        *)
LEMMA GivenBackIsLast ==
  ASSUME TInv, KInv, LInv, PInv, clash = "no",
         NEW d \in Decoders, pc[d] = "post", ~Passes(d), rtecom[d].now # UNSET
  PROVE  Len(good) \in DOMAIN good /\ good[Len(good)].num = rtecom[d].now
  <1> USE RouteTableAssumption
  <1>1. irte[d] = 1 /\ rtecom[d].xcut # 0
    BY DEF TInv, HasCopy, PInv, FiledHere
  <1>2. Holds(d) /\ Buffered(d)
    BY <1>1 DEF Holds, Buffered
  <1>3. rtecom[d].now = entry.now /\ rtecom[d].now = rtecom[d].last
    BY <1>2 DEF TInv, Coupled, OneHolder
  <1>4. \E i \in DOMAIN good : good[i].num = rtecom[d].now
    BY <1>1, <1>3 DEF LInv, FiledUnder
  <1>5. good \in Seq(Filed) /\ 1 \in 1..Len(good) /\ Len(good) \in 1..Len(good)
    BY <1>4 DEF TInv, TypeOK
  <1>6. good[Len(good)] \in Filed /\ Newest(1) = good[Len(good)]
    BY <1>5, SeqElement DEF Newest
  <1>7. CASE HasCylinder
    <2>1. entry.now \in Beg..End /\ Newest(1).num = Back(1)
      BY <1>5, <1>7 DEF KInv, KNumbers
    <2> QED
      BY <1>3, <1>5, <1>6, <2>1 DEF Back
  <1>8. CASE ~HasCylinder
    <2>1. good[Len(good)].num = Inum
      BY <1>6, <1>8 DEF Filed, Numbers, Cylinder
    <2>2. rtecom[d].now = Inum
      BY <1>3, <1>8 DEF TInv, TypeOK, Entry, Cylinder
    <2> QED
      BY <1>5, <2>1, <2>2
  <1> QED
    BY <1>7, <1>8

(* The batch file of every decoder is given a number an image was filed    *)
(* under, its own if its condition was met, and finds that image as it was *)
(* filed until the cylinder has gone around, for any cylinder and any      *)
(* number of decoders (rtesubs.c:400-468).                                 *)
THEOREM BatchFileFindsImage == Spec => []PostFindsImage
  <1>1. TInv /\ KInv /\ LInv /\ PInv => PostFindsImage
    <2> SUFFICES ASSUME TInv, KInv, LInv, PInv,
                        NEW d \in Decoders, pc[d] = "post", rtecom[d].now # UNSET
                 PROVE  \E i \in DOMAIN good :
                          /\ good[i].num = rtecom[d].now
                          /\ IF Passes(d) THEN good[i].prod = prod[d]
                             ELSE clash = "no" => i = Len(good)
                          /\ clash = "no" /\ Len(good) - i < Size - 1 => IsAsFiled(good[i])
      BY DEF PostFindsImage
    <2>1. ASSUME NEW i \in DOMAIN good, clash = "no", Len(good) - i < Size - 1
          PROVE  IsAsFiled(good[i])
      <3>1. good \in Seq(Filed) /\ i \in 1..Len(good) /\ Len(good) \in Nat
        BY DEF TInv, TypeOK
      <3>2. HasCylinder /\ Size = End - Beg + 1
        BY <2>1, <3>1, SizeOfCylinder
      <3> DEFINE k == Len(good) - i + 1
      <3>3. k \in 1..Len(good) /\ k <= End - Beg /\ Len(good) - k + 1 = i
        BY <2>1, <3>1, <3>2, RouteTableAssumption
      <3>4. Newest(k) = good[i]
        BY <3>3 DEF Newest
      <3> HIDE DEF k
      <3> QED
        BY <2>1, <3>2, <3>3, <3>4 DEF KInv, KFiled
    <2>2. CASE Passes(d)
      <3>1. PICK i \in DOMAIN good : good[i].num = rtecom[d].now /\ good[i].prod = prod[d]
        BY <2>2 DEF PInv, FiledHere
      <3> QED
        BY <2>1, <2>2, <3>1
    <2>3. CASE ~Passes(d) /\ clash = "no"
      BY <2>1, <2>3, GivenBackIsLast
    <2>4. CASE ~Passes(d) /\ clash # "no"
      <3>1. irte[d] = 1 /\ rtecom[d].xcut # 0
        BY <2>4 DEF TInv, HasCopy, PInv, FiledHere
      <3>2. Buffered(d)
        BY <2>4, <3>1, RouteTableAssumption DEF Buffered
      <3>3. \E i \in DOMAIN good : good[i].num = rtecom[d].now
        BY <3>1, <3>2 DEF TInv, Coupled, LInv, FiledUnder
      <3> QED
        BY <2>4, <3>3
    <2> QED
      BY <2>2, <2>3, <2>4
  <1> QED
    BY <1>1, TInitInv, TStepInv, KInitInv, KStepInv, LInitInv, LStepInv, PInitInv, PStepInv,
        PTL DEF Spec

-----------------------------------------------------------------------------
(* A copy that may be written back was read from a released entry. *)
CopiesReleased ==
  \A d \in Decoders : irte[d] # 0 => rtecom[d].stat = "REL"

(* It stays so, since only the numbers of a copy change.                   *)
LEMMA CopiesStayReleased == TInv /\ CopiesReleased /\ [Next]_vars => CopiesReleased'
  <1> SUFFICES ASSUME TInv, CopiesReleased, [Next]_vars, NEW d \in Decoders, irte'[d] # 0
               PROVE  rtecom'[d].stat = "REL"
    BY DEF CopiesReleased
  <1>1. rtecom \in [Decoders -> Entry \cup {Blank}] /\ irte \in [Decoders -> {0, 1}]
    BY DEF TInv, TypeOK
  <1>2. irte[d] # 0 => rtecom[d].stat = "REL"
    BY DEF CopiesReleased
  <1>3. CASE irte[d] # 0 /\ rtecom'[d] = rtecom[d]
    BY <1>2, <1>3
  <1>4. ASSUME NEW e \in Decoders, GetRoute(e)
        PROVE  rtecom'[d].stat = "REL"
    BY <1>1, <1>2, <1>4 DEF GetRoute, TInv, TypeOK, Entry
  <1>5. ASSUME NEW e \in Decoders, FlushRoute(e) \/ FlushRefused(e)
        PROVE  rtecom'[d].stat = "REL"
    <2>1. irte' = irte /\ rtecom[e] \in Entry
      BY <1>5, RouteTableAssumption DEF FlushRoute, FlushRefused, TInv, HasCopy
    <2> QED
      BY <1>1, <1>2, <1>5, <2>1 DEF FlushRoute, FlushRefused, Entry
  <1>6. ASSUME NEW e \in Decoders,
               GetDefault(e) \/ FlushFails(e) \/ GiveUp(e) \/ Exit(e) \/ Crash(e)
        PROVE  irte[d] # 0 /\ rtecom'[d] = rtecom[d]
    BY <1>1, <1>6 DEF GetDefault, FlushFails, GiveUp, Exit, Crash, Gone
  <1>7. CASE UNCHANGED <<irte, rtecom>>
    BY <1>3, <1>7
  <1>8. ASSUME NEW e \in Decoders,
               \/ Start(e) \/ OpenArea(e) \/ WriteLines(e) \/ WriteImage(e)
               \/ SysIn(e) \/ PostProcess(e)
        PROVE  UNCHANGED <<irte, rtecom>>
    BY <1>8 DEF Start, OpenArea, WriteLines, WriteImage, SysIn, PostProcess, own
  <1>9. CASE Route \/ UNCHANGED vars
    BY <1>7, <1>9 DEF Route, vars, own
  <1> QED
    BY <1>3, <1>4, <1>5, <1>6, <1>7, <1>8, <1>9 DEF Next

(* What a decoder writes to the table is such a copy. *)
LEMMA WritesReleased ==
  ASSUME TInv, CopiesReleased, [Next]_vars, entry.stat = "REL", entry'.stat = "SUS"
  PROVE  UNCHANGED <<pc, rtecom>>
  <1>1. ASSUME NEW d \in Decoders, FlushRoute(d) \/ FlushRefused(d)
        PROVE  FALSE
    <2>1. irte[d] # 0 /\ rtecom[d] \in Entry
      BY <1>1, RouteTableAssumption DEF FlushRoute, FlushRefused, TInv, HasCopy
    <2>2. rtecom[d].stat = "REL"
      BY <2>1 DEF CopiesReleased
    <2> QED
      BY <1>1, <2>1, <2>2 DEF FlushRoute, FlushRefused, Entry
  <1>2. ASSUME NEW d \in Decoders, Exit(d)
        PROVE  FALSE
    BY <1>2 DEF Exit, Buffered, CopiesReleased
  <1>3. ASSUME NEW d \in Decoders,
               \/ Start(d) \/ GetRoute(d) \/ GetDefault(d) \/ OpenArea(d) \/ WriteLines(d)
               \/ WriteImage(d) \/ GiveUp(d)
               \/ FlushFails(d) \/ SysIn(d) \/ PostProcess(d) \/ Crash(d)
        PROVE  FALSE
    BY <1>3 DEF Start, GetRoute, GetDefault, OpenArea, WriteLines, WriteImage, GiveUp,
        FlushFails, SysIn,
                PostProcess, Crash
  <1>4. CASE Route
    BY <1>4 DEF Route, own
  <1>5. CASE UNCHANGED vars
    BY <1>5 DEF vars
  <1> QED
    BY <1>1, <1>2, <1>3, <1>4, <1>5 DEF Next

(* Whatever decoders write back, and however late, only the operator takes *)
(* an entry from released to suspended (rtesubs.c:236-254, 388-411).       *)
THEOREM DecodersNeverSuspend == Spec => OnlyOperatorSuspends
  <1>1. Init => CopiesReleased
    BY DEF Init, CopiesReleased
  <1>2. TInv /\ CopiesReleased /\ [Next]_vars
        => [entry.stat = "REL" /\ entry'.stat = "SUS" => UNCHANGED <<pc, rtecom>>]_vars
    BY WritesReleased
  <1> QED
    BY <1>1, <1>2, TInitInv, TStepInv, CopiesStayReleased, PTL DEF Spec, OnlyOperatorSuspends

-----------------------------------------------------------------------------
(* One decoder after the other, as for a product that comes less often     *)
(* than its decoder takes.                                                 *)
OneAtATime == \A d \in Decoders : \A e \in Decoders : d = e

LEMMA OneNeverClashes ==
  ASSUME OneAtATime, [Next]_vars, clash = "no"
  PROVE  clash' = "no"
  <1>1. ASSUME NEW d \in Decoders, GetRoute(d)
        PROVE  clash' = "no"
    BY <1>1 DEF GetRoute, OneAtATime
  <1>2. ASSUME NEW d \in Decoders,
               \/ Start(d) \/ GetDefault(d) \/ OpenArea(d) \/ WriteLines(d) \/ WriteImage(d)
               \/ GiveUp(d) \/ FlushRoute(d) \/ FlushRefused(d) \/ FlushFails(d)
               \/ SysIn(d) \/ PostProcess(d) \/ Exit(d) \/ Crash(d)
        PROVE  clash' = "no"
    BY <1>2 DEF Start, GetDefault, OpenArea, WriteLines, WriteImage, GiveUp, FlushRoute,
        FlushRefused,
                FlushFails, SysIn, PostProcess, Exit, Crash
  <1>3. CASE Route \/ UNCHANGED vars
    BY <1>3 DEF Route, vars
  <1> QED
    BY <1>1, <1>2, <1>3 DEF Next

KeepsImages ==
  \A i \in 1..(Size - 1) : i <= Len(good) => IsAsFiled(Newest(i))

(* Where decoders follow one another nothing has to be said of clashes:    *)
(* the cylinder always keeps the Size - 1 newest images as they were filed *)
(* and the number in the table goes to its successor or stays, over any    *)
(* number of processes, failed writes, kills, refusals and suspensions     *)
(* (rtesubs.c:236-248, 388-411).                                           *)
THEOREM DecodersInTurn ==
  ASSUME OneAtATime
  PROVE  Spec => /\ []KeepsImages
                 /\ [][entry'.now # entry.now => entry'.now = Advance(entry.now)]_vars
  <1>1. Init => clash = "no"
    BY DEF Init
  <1>2. clash = "no" /\ [Next]_vars => (clash = "no")'
    BY OneNeverClashes
  <1>3. clash = "no" /\ CylinderKeepsImages => KeepsImages
    BY DEF CylinderKeepsImages, KeepsImages
  <1>4. (clash = "no")' /\ [clash' = "no" /\ entry'.now # entry.now => entry'.now = Advance(entry.now)]_vars
        => [entry'.now # entry.now => entry'.now = Advance(entry.now)]_vars
    OBVIOUS
  <1> QED
    BY <1>1, <1>2, <1>3, <1>4, CylinderKeeps, NumbersHaveNoGaps, PTL DEF Spec, NoGaps
=============================================================================
