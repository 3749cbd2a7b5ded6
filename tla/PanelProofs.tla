---------------------------- MODULE PanelProofs ----------------------------
(***************************************************************************)
(* Proofs about the panel, for any roles and any number of writes and      *)
(* moves: its state keeps its types, and no write waits for a fetch that   *)
(* is not there. Of the tables of Pages nothing is used but their form     *)
(* (TablesAssumption).                                                     *)
(***************************************************************************)
EXTENDS Panel, FiniteSetTheorems, TLAPS

USE DEF Ended

\* A write belongs to a mutation of its page, and is at one of its steps.
Placed(w) ==
    w.phase # "unsent" =>
        /\ w.name \in DOMAIN Routes[w.page].mutations
        /\ w.step \in 1 .. Len(Routes[w.page].mutations[w.name].then) + 1

GoodWrites(ws) == ws \in [Slots -> Writing] /\ \A i \in Slots : Placed(ws[i])

NoneWaits(ws) == \A i \in Slots : ws[i].phase # "waiting"

\* Everything but the count of moves, which no step but Go changes.
PanelInv ==
    /\ role \in Users /\ page \in PagePaths /\ watch \in Watched
    /\ dialog \in {"none"} \cup {c.opens : c \in Here.controls}
    /\ entry \in Entry /\ GoodWrites(writes)
    /\ moves \in 0 .. MaxActs
    /\ WaitsForAFetch

LEMMA InvType == PanelInv => TypeOK
BY DEF PanelInv, TypeOK, GoodWrites, Placed, MutationOf

-----------------------------------------------------------------------------
(* What is done to a write or an entry.                                    *)
-----------------------------------------------------------------------------
\* A write may change its phase, but not back to unsent, and lose its page.
LEMMA SetWrite ==
  ASSUME NEW ws, GoodWrites(ws), NEW i \in Slots, NEW w \in Writing, Placed(w)
  PROVE  /\ GoodWrites([ws EXCEPT ![i] = w])
         /\ w.phase # "waiting" =>
                \A j \in Slots : [ws EXCEPT ![i] = w][j].phase = "waiting" => ws[j].phase = "waiting"
BY DEF GoodWrites

Phases == {"refused", "lost", "done", "sent", "served", "settling", "waiting"}

LEMMA SetPhase ==
  ASSUME NEW w \in Writing, Placed(w), w.phase # "unsent", NEW h \in Phases
  PROVE  /\ [w EXCEPT !.phase = h] \in Writing /\ Placed([w EXCEPT !.phase = h])
         /\ [w EXCEPT !.phase = h].phase = h
         /\ [w EXCEPT !.phase = h, !.stored = TRUE] \in Writing
         /\ Placed([w EXCEPT !.phase = h, !.stored = TRUE])
         /\ [w EXCEPT !.phase = h, !.stored = TRUE].phase = h
         /\ [w EXCEPT !.phase = h, !.from = "left"] \in Writing
         /\ Placed([w EXCEPT !.phase = h, !.from = "left"])
         /\ [w EXCEPT !.phase = h, !.from = "left"].phase = h
BY DEF Writing, Placed, Phases

LEMMA SetFrom ==
  ASSUME NEW w \in Writing, Placed(w), NEW f \in {"control", "page", "left"}
  PROVE  /\ [w EXCEPT !.from = f] \in Writing /\ Placed([w EXCEPT !.from = f])
         /\ [w EXCEPT !.from = f].phase = w.phase
BY DEF Writing, Placed

LEMMA ReleasedGood ==
  ASSUME NEW ws, GoodWrites(ws)
  PROVE  GoodWrites(Released(ws)) /\ NoneWaits(Released(ws))
<1>1. ASSUME NEW i \in Slots
      PROVE  /\ Released(ws)[i] \in Writing /\ Placed(Released(ws)[i])
             /\ Released(ws)[i].phase # "waiting"
  <2>1. ws[i] \in Writing /\ Placed(ws[i])
    BY DEF GoodWrites
  <2>2. CASE ws[i].phase = "waiting"
    <3>1. Released(ws)[i] = [ws[i] EXCEPT !.phase = "settling"]
      BY <2>2 DEF Released
    <3>2. ws[i].phase # "unsent" /\ "settling" \in Phases
      BY <2>2 DEF Phases
    <3>3. /\ [ws[i] EXCEPT !.phase = "settling"] \in Writing
          /\ Placed([ws[i] EXCEPT !.phase = "settling"])
          /\ [ws[i] EXCEPT !.phase = "settling"].phase = "settling"
      BY <2>1, <3>2, SetPhase
    <3> QED BY <3>1, <3>3
  <2>3. CASE ws[i].phase # "waiting"
    BY <2>1, <2>3 DEF Released
  <2> QED BY <2>2, <2>3
<1> QED BY <1>1 DEF GoodWrites, NoneWaits, Released

LEMMA SetEntry ==
  ASSUME NEW e \in Entry
  PROVE  /\ Fetching(e) \in Entry /\ Fetching(e).fetch = "sent"
         /\ Closed(e) \in Entry /\ Opened(e) \in Entry
BY DEF Entry, Fetching, Closed, Opened

-----------------------------------------------------------------------------
(* Moving.                                                                 *)
-----------------------------------------------------------------------------
\* Wherever one moves, an entry that disappears lets its waiters go.
LEMMA MoveToKeeps ==
  ASSUME PanelInv, UNCHANGED <<role, watch>>, moves' \in 0 .. MaxActs,
         NEW p \in PagePaths, NEW d \in {"none"} \cup {c.opens : c \in Routes[p].controls},
         NEW ws, GoodWrites(ws), MoveTo(p, d, ws),
         \A i \in Slots : ws[i].phase = "waiting" => writes[i].phase = "waiting"
  PROVE  PanelInv'
<1> DEFINE closes == Shown /\ (p # page \/ ~ ShownOn(p, d))
           opens  == ShownOn(p, d) /\ (p # page \/ ~ Shown)
           closed == IF closes THEN Closed(entry) ELSE entry
           left == [i \in Slots |->
                      IF p # page THEN [ws[i] EXCEPT !.from = "left"]
                      ELSE IF d # dialog /\ ws[i].busy = "dialog" /\ ws[i].from = "control"
                           THEN [ws[i] EXCEPT !.from = "page"] ELSE ws[i]]
<1>1. /\ page' = p /\ dialog' = d
      /\ entry' = (IF opens THEN Opened(closed) ELSE closed)
      /\ writes' = (IF closes THEN Released(left) ELSE left)
  BY DEF MoveTo
<1>2. ASSUME NEW i \in Slots
      PROVE  left[i] \in Writing /\ Placed(left[i]) /\ left[i].phase = ws[i].phase
  BY SetFrom DEF GoodWrites
<1>3. GoodWrites(left) /\ \A i \in Slots : left[i].phase = ws[i].phase
  BY <1>2 DEF GoodWrites
<1>4. entry' \in Entry /\ GoodWrites(writes')
  BY <1>1, <1>3, SetEntry, ReleasedGood DEF PanelInv
<1>5. WaitsForAFetch'
  <2>1. Shown' <=> ShownOn(p, d)
    BY <1>1 DEF Shown, ShownOn
  <2>2. CASE closes
    BY <1>1, <1>3, <2>2, ReleasedGood DEF WaitsForAFetch, NoneWaits
  <2>3. CASE ~ closes
    <3> SUFFICES ASSUME NEW i \in Slots, writes'[i].phase = "waiting"
                 PROVE  Shown' /\ entry'.fetch # "none"
      BY DEF WaitsForAFetch
    <3>1. writes[i].phase = "waiting"
      BY <1>1, <1>3, <2>3
    <3>2. Shown /\ entry.fetch # "none"
      BY <3>1 DEF PanelInv, WaitsForAFetch
    <3>3. ~ opens /\ ShownOn(p, d)
      BY <2>3, <3>2
    <3> QED BY <1>1, <2>1, <2>3, <3>2, <3>3
  <2> QED BY <2>2, <2>3
<1> QED BY <1>1, <1>4, <1>5 DEF PanelInv, GoodWrites, Placed, Here

LEMMA GoInv == ASSUME PanelInv, NEW p \in PagePaths, Go(p) PROVE PanelInv'
<1>1. IsFiniteSet(Slots)
  BY FS_Interval, PanelAssumption DEF Slots
<1>2. IsFiniteSet({i \in Slots : writes[i].phase # "unsent"})
  BY <1>1, FS_Subset
<1>3. moves + 1 \in 0 .. MaxActs
  BY <1>2, FS_CardinalityType, PanelAssumption DEF Go, Acts, PanelInv
<1>4. GoodWrites(writes)
  BY DEF PanelInv
<1>5. moves' \in 0 .. MaxActs /\ MoveTo(p, "none", writes) /\ UNCHANGED <<role, watch>>
  BY <1>3 DEF Go
<1> QED BY <1>4, <1>5, MoveToKeeps

LEMMA OpenDialogInv ==
  ASSUME PanelInv, NEW c \in Here.controls, OpenDialog(c) PROVE PanelInv'
<1>1. GoodWrites(writes) /\ page \in PagePaths
  BY DEF PanelInv
<1>2. c.opens \in {x.opens : x \in Routes[page].controls}
  BY DEF Here
<1>3. moves' \in 0 .. MaxActs /\ MoveTo(page, c.opens, writes) /\ UNCHANGED <<role, watch>>
  BY DEF OpenDialog, PanelInv
<1> QED BY <1>1, <1>2, <1>3, MoveToKeeps

LEMMA CloseDialogInv == ASSUME PanelInv, CloseDialog PROVE PanelInv'
<1>1. GoodWrites(writes) /\ page \in PagePaths
  BY DEF PanelInv
<1>2. moves' \in 0 .. MaxActs /\ MoveTo(page, "none", writes) /\ UNCHANGED <<role, watch>>
  BY DEF CloseDialog, PanelInv
<1> QED BY <1>1, <1>2, MoveToKeeps

\* A write that takes its next step stays a write, and waits for nothing yet.
LEMMA AdvancedGood ==
  ASSUME PanelInv, NEW i \in Slots, writes[i].phase = "settling", StepsLeft(i)
  PROVE  /\ GoodWrites(Advanced(i)) /\ Advanced(i)[i].phase = "settling"
         /\ \A j \in Slots : Advanced(i)[j].phase = "waiting" => writes[j].phase = "waiting"
<1> DEFINE w == writes[i]
           v == [w EXCEPT !.phase = "settling", !.step = @ + 1]
<1>1. w \in Writing /\ Placed(w) /\ w.page \in PagePaths
  BY DEF PanelInv, GoodWrites, Writing
<1>2. w.name \in DOMAIN Routes[w.page].mutations
  BY <1>1 DEF Placed
<1>3. Len(Routes[w.page].mutations[w.name].then) \in Nat
  BY <1>1, <1>2, TablesAssumption
<1>4. w.step \in Nat /\ w.step <= Len(Routes[w.page].mutations[w.name].then)
  BY <1>1 DEF StepsLeft, MutationOf, Writing
<1>5. w.step + 1 \in Nat /\ w.step + 1 \in 1 .. Len(Routes[w.page].mutations[w.name].then) + 1
  <2>1. \A n, s \in Nat : s <= n => s + 1 \in Nat /\ s + 1 \in 1 .. n + 1
    OBVIOUS
  <2> HIDE DEF w
  <2> QED BY <1>3, <1>4, <2>1
<1>6. v \in Writing /\ v.phase = "settling"
  <2> HIDE DEF w
  <2> QED BY <1>1, <1>5 DEF Writing
<1>7. v.name = w.name /\ v.page = w.page /\ v.step = w.step + 1
  BY <1>1 DEF Writing
<1>8. Placed(v)
  BY <1>2, <1>5, <1>7 DEF Placed
<1>9. Advanced(i) = [writes EXCEPT ![i] = v]
  BY DEF Advanced, PanelInv, GoodWrites
<1>10. GoodWrites(writes)
  BY DEF PanelInv
<1>11. [writes EXCEPT ![i] = v][i] = v
  BY <1>10 DEF GoodWrites
<1> HIDE DEF w, v
<1>12. GoodWrites(Advanced(i))
  BY <1>6, <1>8, <1>9, <1>10 DEF GoodWrites
<1>13. ASSUME NEW j \in Slots, Advanced(i)[j].phase = "waiting"
       PROVE  writes[j].phase = "waiting"
  BY <1>6, <1>9, <1>10, <1>13 DEF GoodWrites
<1> QED BY <1>6, <1>9, <1>11, <1>12, <1>13

LEMMA SettleCloseInv == ASSUME PanelInv, NEW i \in Slots, SettleClose(i) PROVE PanelInv'
<1> DEFINE d == IF writes[i].from # "left" /\ dialog \in Sibling(writes[i].on)
                THEN "none" ELSE dialog
<1>1. page \in PagePaths /\ d \in {"none"} \cup {c.opens : c \in Routes[page].controls}
  BY DEF PanelInv, Here
<1>2. /\ moves' \in 0 .. MaxActs /\ MoveTo(page, d, Advanced(i)) /\ UNCHANGED <<role, watch>>
      /\ writes[i].phase = "settling" /\ StepsLeft(i)
  BY DEF SettleClose, PanelInv
<1> QED BY <1>1, <1>2, AdvancedGood, MoveToKeeps

LEMMA SettleGoInv == ASSUME PanelInv, NEW i \in Slots, SettleGo(i) PROVE PanelInv'
<1> DEFINE w == writes[i]
<1>1. /\ moves' \in 0 .. MaxActs /\ MoveTo(StepOf(i).to, "none", Advanced(i))
      /\ UNCHANGED <<role, watch>>
      /\ w.phase = "settling" /\ StepsLeft(i) /\ StepOf(i).do = "go"
  BY DEF SettleGo, PanelInv
<1>2. /\ w.page \in PagePaths /\ w.name \in DOMAIN Routes[w.page].mutations
      /\ w.step \in 1 .. Len(Routes[w.page].mutations[w.name].then) + 1
  BY <1>1 DEF PanelInv, GoodWrites, Placed, Writing
<1>3. w.step \in 1 .. Len(Routes[w.page].mutations[w.name].then)
  <2>1. \A n \in Nat : \A s \in 1 .. n + 1 : s <= n => s \in 1 .. n
    OBVIOUS
  <2>2. Len(Routes[w.page].mutations[w.name].then) \in Nat
    BY <1>2, TablesAssumption
  <2>3. w.step <= Len(Routes[w.page].mutations[w.name].then)
    BY <1>1 DEF StepsLeft, MutationOf
  <2> HIDE DEF w
  <2> QED BY <1>2, <2>1, <2>2, <2>3
<1>4. StepOf(i).to \in PagePaths
  BY <1>1, <1>2, <1>3, TablesAssumption DEF StepOf, MutationOf
<1> QED BY <1>1, <1>4, AdvancedGood, MoveToKeeps

-----------------------------------------------------------------------------
(* Staying.                                                                *)
-----------------------------------------------------------------------------
Stays == UNCHANGED <<role, page, dialog, watch, moves>>

\* On one screen it is enough to look at the fetch and at who waits.
LEMMA StayingKeeps ==
  ASSUME PanelInv, Stays, entry' \in Entry, GoodWrites(writes'),
         \/ NoneWaits(writes')
         \/ /\ entry.fetch # "none" => entry'.fetch # "none"
            /\ \A i \in Slots : writes'[i].phase = "waiting" => writes[i].phase = "waiting"
         \/ Shown /\ entry'.fetch # "none"
  PROVE  PanelInv'
<1>1. Shown' <=> Shown
  BY DEF Stays, Shown, ShownOn
<1>2. WaitsForAFetch'
  BY <1>1 DEF PanelInv, WaitsForAFetch, NoneWaits
<1> QED BY <1>2 DEF PanelInv, Stays, GoodWrites, Placed, Here

\* A write that is under way takes a step on the spot.
LEMMA PhaseStep ==
  ASSUME PanelInv, Stays, UNCHANGED entry,
         NEW i \in Slots, writes[i].phase # "unsent", NEW h \in Phases, h # "waiting",
         \/ writes' = [writes EXCEPT ![i].phase = h]
         \/ writes' = [writes EXCEPT ![i].phase = h, ![i].stored = TRUE]
         \/ writes' = [writes EXCEPT ![i].phase = h, ![i].from = "left"]
  PROVE  PanelInv'
<1>1. GoodWrites(writes) /\ entry \in Entry
  BY DEF PanelInv
<1>2. writes[i] \in Writing /\ Placed(writes[i])
  BY <1>1 DEF GoodWrites
<1>3. PICK w \in Writing : Placed(w) /\ w.phase = h /\ writes' = [writes EXCEPT ![i] = w]
  <2>1. CASE writes' = [writes EXCEPT ![i].phase = h]
    BY <1>1, <1>2, <2>1, SetPhase DEF GoodWrites
  <2>2. CASE writes' = [writes EXCEPT ![i].phase = h, ![i].stored = TRUE]
    <3>1. writes' = [writes EXCEPT ![i] = [writes[i] EXCEPT !.phase = h, !.stored = TRUE]]
      BY <1>1, <2>2 DEF GoodWrites
    <3> QED BY <1>2, <3>1, SetPhase
  <2>3. CASE writes' = [writes EXCEPT ![i].phase = h, ![i].from = "left"]
    <3>1. writes' = [writes EXCEPT ![i] = [writes[i] EXCEPT !.phase = h, !.from = "left"]]
      BY <1>1, <2>3 DEF GoodWrites
    <3> QED BY <1>2, <3>1, SetPhase
  <2> QED BY <2>1, <2>2, <2>3
<1>4. /\ GoodWrites(writes')
      /\ \A j \in Slots : writes'[j].phase = "waiting" => writes[j].phase = "waiting"
  <2>1. GoodWrites(writes')
    BY <1>1, <1>3, SetWrite
  <2>2. \A j \in Slots : writes'[j].phase = "waiting" => writes[j].phase = "waiting"
    BY <1>1, <1>3 DEF GoodWrites
  <2> QED BY <2>1, <2>2
<1> QED BY <1>1, <1>4, StayingKeeps

LEMMA WriteInv ==
  ASSUME PanelInv, NEW i \in Slots,
         Serve(i) \/ Lose(i) \/ AnswerArrives(i) \/ SettleDone(i)
  PROVE  PanelInv'
<1>1. CASE Serve(i)
  BY <1>1, PhaseStep DEF Serve, Stays, Phases
<1>2. CASE Lose(i)
  BY <1>2, PhaseStep DEF Lose, Stays, Phases
<1>3. CASE AnswerArrives(i)
  BY <1>3, PhaseStep DEF AnswerArrives, Stays, Phases
<1>4. CASE SettleDone(i)
  BY <1>4, PhaseStep DEF SettleDone, Stays, Phases
<1> QED BY <1>1, <1>2, <1>3, <1>4

LEMMA SubmitInv ==
  ASSUME PanelInv, NEW c \in Here.controls, NEW i \in Slots, Submit(c, i) PROVE PanelInv'
<1> DEFINE w == [page |-> page, name |-> c.submits, on |-> c.on, from |-> "control",
                 busy |-> c.busy, phase |-> "sent", step |-> 1, stored |-> FALSE]
<1>1. GoodWrites(writes) /\ entry \in Entry /\ page \in PagePaths
  BY DEF PanelInv
<1>2. /\ c.on \in {"page"} \cup Dialogs
      /\ c.submits \in {"none"} \cup DOMAIN Routes[page].mutations
      /\ c.busy \in {"never", "page", "dialog"}
  BY <1>1, TablesAssumption DEF Here
<1>3. c.submits \in DOMAIN Routes[page].mutations /\ c.submits \in Mutations
  BY <1>1, <1>2 DEF Submit, Mutations
<1>4. w \in Writing
  BY <1>1, <1>2, <1>3 DEF Writing
<1>5. 1 \in 1 .. Len(Routes[page].mutations[c.submits].then) + 1
  <2>1. Len(Routes[page].mutations[c.submits].then) \in Nat
    BY <1>1, <1>3, TablesAssumption
  <2>2. \A n \in Nat : 1 \in 1 .. n + 1
    OBVIOUS
  <2> QED BY <2>1, <2>2
<1>6. Placed(w)
  BY <1>3, <1>5 DEF Placed
<1>7. writes' = [writes EXCEPT ![i] = w] /\ UNCHANGED entry /\ Stays
  BY DEF Submit, Stays
<1>8. w.phase # "waiting"
  OBVIOUS
<1> HIDE DEF w
<1>9. /\ GoodWrites(writes')
      /\ \A j \in Slots : writes'[j].phase = "waiting" => writes[j].phase = "waiting"
  BY <1>1, <1>4, <1>6, <1>7, <1>8, SetWrite
<1> QED BY <1>1, <1>7, <1>9, StayingKeeps

\* A refresh waits only for the fetch it starts, or the one it finds under way.
LEMMA SettleRefreshInv == ASSUME PanelInv, NEW i \in Slots, SettleRefresh(i) PROVE PanelInv'
<1> DEFINE matches == IsPrefix(StepOf(i).key, watch)
           marked  == [entry EXCEPT !.stale = TRUE]
           wait(ws) == IF StepOf(i).wait THEN [ws EXCEPT ![i].phase = "waiting"] ELSE ws
<1>1. entry \in Entry /\ marked \in Entry /\ marked.fetch = entry.fetch
  BY DEF PanelInv, Entry
<1>2. Stays /\ writes[i].phase = "settling" /\ StepsLeft(i)
  BY DEF SettleRefresh, Stays
<1>3. /\ GoodWrites(Advanced(i)) /\ Advanced(i)[i].phase = "settling"
      /\ \A j \in Slots : Advanced(i)[j].phase = "waiting" => writes[j].phase = "waiting"
  BY <1>2, AdvancedGood
<1>4. ASSUME NEW ws, GoodWrites(ws), ws[i].phase = "settling"
      PROVE  GoodWrites(wait(ws))
  <2>1. ws[i] \in Writing /\ Placed(ws[i]) /\ "waiting" \in Phases
    BY <1>4 DEF GoodWrites, Phases
  <2>2. /\ [ws[i] EXCEPT !.phase = "waiting"] \in Writing
        /\ Placed([ws[i] EXCEPT !.phase = "waiting"])
    BY <1>4, <2>1, SetPhase
  <2>3. [ws EXCEPT ![i].phase = "waiting"] = [ws EXCEPT ![i] = [ws[i] EXCEPT !.phase = "waiting"]]
    BY <1>4 DEF GoodWrites
  <2> QED BY <1>4, <2>2, <2>3, SetWrite
<1>5. CASE ~ matches /\ writes' = Advanced(i) /\ UNCHANGED entry
  BY <1>1, <1>2, <1>3, <1>5, StayingKeeps
<1>6. CASE /\ matches /\ ~ Shown
           /\ entry' = MarkUnseen(entry)
           /\ writes' = Advanced(i)
  <2>1. entry' \in Entry /\ entry'.fetch = entry.fetch
    BY <1>1, <1>6 DEF MarkUnseen
  <2> QED BY <1>2, <1>3, <1>6, <2>1, StayingKeeps
<1>7. CASE /\ matches /\ Shown /\ (entry.has \/ entry.fetch = "none")
           /\ entry' = Fetching(marked)
           /\ writes' = wait(Released(Advanced(i)))
  <2>1. entry' \in Entry /\ entry'.fetch = "sent"
    BY <1>1, <1>7, SetEntry
  <2>2. GoodWrites(Released(Advanced(i))) /\ Released(Advanced(i))[i].phase = "settling"
    BY <1>3, ReleasedGood DEF Released
  <2>3. GoodWrites(writes')
    BY <1>4, <1>7, <2>2
  <2> QED BY <1>2, <1>7, <2>1, <2>3, StayingKeeps
<1>8. CASE /\ matches /\ Shown /\ ~ entry.has /\ entry.fetch # "none"
           /\ entry' = [entry EXCEPT !.raced = @ \cup {i}]
           /\ writes' = wait(Advanced(i))
  <2>1. entry' \in Entry /\ entry'.fetch # "none"
    BY <1>1, <1>8 DEF Entry
  <2>2. GoodWrites(writes')
    BY <1>3, <1>4, <1>8
  <2> QED BY <1>2, <1>8, <2>1, <2>2, StayingKeeps
<1> QED BY <1>5, <1>6, <1>7, <1>8 DEF SettleRefresh

-----------------------------------------------------------------------------
(* Fetches and time.                                                       *)
-----------------------------------------------------------------------------
LEMMA FetchInv ==
  ASSUME PanelInv, Retry \/ ReadEntry \/ EntryArrives \/ EntryFails \/ Age \/ Poll
  PROVE  PanelInv'
<1>1. entry \in Entry /\ GoodWrites(writes)
  BY DEF PanelInv
<1>2. CASE Retry
  BY <1>1, <1>2, SetEntry, ReleasedGood, StayingKeeps DEF Retry, Stays
<1>3. CASE ReadEntry
  <2>1. entry' \in Entry /\ entry'.fetch # "none"
    BY <1>1, <1>3 DEF ReadEntry, Stored, Entry
  <2> QED BY <1>1, <1>3, <2>1, StayingKeeps DEF ReadEntry, Stays
<1>4. CASE EntryArrives
  <2>1. entry' \in Entry
    BY <1>1, <1>4 DEF EntryArrives, Entry
  <2> QED BY <1>1, <1>4, <2>1, ReleasedGood, StayingKeeps DEF EntryArrives, Stays
<1>5. CASE EntryFails
  <2>1. entry' \in Entry
    BY <1>1, <1>5 DEF EntryFails, Entry
  <2> QED BY <1>1, <1>5, <2>1, ReleasedGood, StayingKeeps DEF EntryFails, Stays
<1>6. CASE Age
  <2>1. entry' \in Entry /\ entry'.fetch = entry.fetch
    BY <1>1, <1>6 DEF Age, Entry
  <2> QED BY <1>1, <1>6, <2>1, StayingKeeps DEF Age, Stays
<1>7. CASE Poll
  <2>1. entry' \in Entry /\ entry'.fetch # "none"
    BY <1>1, <1>7, SetEntry DEF Poll
  <2> QED BY <1>1, <1>7, <2>1, StayingKeeps DEF Poll, Stays
<1> QED BY <1>2, <1>3, <1>4, <1>5, <1>6, <1>7

-----------------------------------------------------------------------------
LEMMA InitInv == Init => PanelInv
<1> SUFFICES ASSUME Init PROVE PanelInv
  OBVIOUS
<1>1. NoEntry \in Entry /\ entry \in Entry
  <2>1. NoEntry \in Entry
    BY DEF NoEntry, Entry
  <2> QED BY <2>1, SetEntry DEF Init
<1>2. Unsent \in Writing /\ Placed(Unsent) /\ Unsent.phase # "waiting"
  BY TablesAssumption DEF Unsent, Writing, Placed
<1>3. GoodWrites(writes) /\ NoneWaits(writes)
  BY <1>2 DEF Init, GoodWrites, NoneWaits
<1>4. WaitsForAFetch
  BY <1>3 DEF WaitsForAFetch, NoneWaits
<1>5. moves \in 0 .. MaxActs
  BY PanelAssumption DEF Init
<1> QED BY <1>1, <1>3, <1>4, <1>5 DEF Init, PanelInv, Here

LEMMA NextInv == PanelInv /\ [Next]_vars => PanelInv'
<1> SUFFICES ASSUME PanelInv, [Next]_vars PROVE PanelInv'
  OBVIOUS
<1>1. CASE UNCHANGED vars
  BY <1>1, StayingKeeps DEF vars, Stays, PanelInv
<1>2. CASE Administrator
  BY <1>2, GoInv, OpenDialogInv, SubmitInv, CloseDialogInv, FetchInv DEF Administrator
<1>3. ASSUME NEW i \in Slots, WriteStep(i) \/ Lose(i) PROVE PanelInv'
  BY <1>3, WriteInv, SettleCloseInv, SettleGoInv, SettleRefreshInv DEF WriteStep
<1>4. CASE FetchStep \/ Age \/ Poll
  BY <1>4, FetchInv DEF FetchStep
<1> QED BY <1>1, <1>2, <1>3, <1>4 DEF Next

-----------------------------------------------------------------------------
(* What a write has changed is shown. A write that has taken the step that  *)
(* refreshes the entry is seen by it, or the entry is missing or stale and   *)
(* a fetch that will see the write is under way, is about to be made when   *)
(* the entry is shown again, or has failed.                                 *)
-----------------------------------------------------------------------------
Fresh(e, shown, i) ==
    \/ i \in e.sees \/ i \in e.raced
    \/ /\ ~ e.has \/ e.stale
       /\ \/ ~ shown
          \/ e.fetch = "sent"
          \/ e.fetch = "read" /\ i \in e.next
          \/ e.fetch = "none" /\ (e.failed \/ ~ e.has)

StepsOf(w) == Routes[w.page].mutations[w.name].then

\* Write w has taken a step that refreshes the entry k.
Passed(w, k) ==
    \E s \in 1 .. w.step - 1 : StepsOf(w)[s].do = "refresh" /\ IsPrefix(StepsOf(w)[s].key, k)

\* A write takes its steps when it is stored, and all of them before it is done.
Regular(w) ==
    /\ w.phase \in {"unsent", "refused", "lost", "sent", "served"} => w.step = 1
    /\ w.phase \in {"served", "settling", "waiting", "done"} => w.stored
    /\ w.phase = "unsent" => ~ w.stored
    /\ w.phase = "done" => w.step > Len(StepsOf(w))

\* Only what is on the screen is fetched, and a later read sees no fewer writes.
EntryRegular(e, shown, stored) ==
    /\ e.fetch # "none" => shown
    /\ e.sees \subseteq stored
    /\ e.fetch = "read" => e.sees \subseteq e.next /\ e.next \subseteq stored

FreshInv ==
    /\ \A i \in Slots : Regular(writes[i]) /\ (Passed(writes[i], watch) => Fresh(entry, Shown, i))
    /\ EntryRegular(entry, Shown, Stored)

\* v is w, but for waiting or not, and for its page.
SameSteps(v, w) ==
    /\ v.page = w.page /\ v.name = w.name /\ v.step = w.step /\ v.stored = w.stored
    /\ v.phase = w.phase \/ {v.phase, w.phase} \subseteq {"waiting", "settling"}

LEMMA SameStepsKeep ==
  ASSUME NEW v, NEW w, NEW k, SameSteps(v, w), Regular(w)
  PROVE  Regular(v) /\ (Passed(v, k) => Passed(w, k))
BY DEF SameSteps, Regular, Passed, StepsOf

LEMMA ReleasedSame ==
  ASSUME NEW ws, GoodWrites(ws)
  PROVE  \A i \in Slots : SameSteps(Released(ws)[i], ws[i])
<1> SUFFICES ASSUME NEW i \in Slots PROVE SameSteps(Released(ws)[i], ws[i])
  OBVIOUS
<1>1. ws[i] \in Writing
  BY DEF GoodWrites
<1> QED BY <1>1 DEF Released, SameSteps, Writing

LEMMA FromSame ==
  ASSUME NEW w \in Writing, NEW f
  PROVE  SameSteps([w EXCEPT !.from = f], w)
BY DEF SameSteps, Writing

LEMMA SameTrans ==
  ASSUME NEW u, NEW v, NEW w, SameSteps(u, v), SameSteps(v, w)
  PROVE  SameSteps(u, w)
BY DEF SameSteps

\* The entry after a step, for a write that had it fresh before.
EntryKeeps(e, shown) ==
    /\ \A i \in Slots : Fresh(entry, Shown, i) => Fresh(e, shown, i)
    /\ EntryRegular(entry, Shown, Stored) => EntryRegular(e, shown, Stored)

\* Moving fetches what it shows if it is missing or stale, and drops the fetch of
\* what it hides.
LEMMA MoveToFresh ==
  ASSUME PanelInv, FreshInv, UNCHANGED watch, UNCHANGED role, NEW p, NEW d, NEW ws, GoodWrites(ws),
         MoveTo(p, d, ws)
  PROVE  /\ EntryKeeps(entry', Shown')
         /\ \A i \in Slots : SameSteps(writes'[i], ws[i])
<1> DEFINE closes == Shown /\ (p # page \/ ~ ShownOn(p, d))
           opens  == ShownOn(p, d) /\ (p # page \/ ~ Shown)
           closed == IF closes THEN Closed(entry) ELSE entry
           left == [i \in Slots |->
                      IF p # page THEN [ws[i] EXCEPT !.from = "left"]
                      ELSE IF d # dialog /\ ws[i].busy = "dialog" /\ ws[i].from = "control"
                           THEN [ws[i] EXCEPT !.from = "page"] ELSE ws[i]]
<1>1. /\ page' = p /\ dialog' = d
      /\ entry' = (IF opens THEN Opened(closed) ELSE closed)
      /\ writes' = (IF closes THEN Released(left) ELSE left)
  BY DEF MoveTo
<1>2. entry \in Entry
  BY DEF PanelInv
<1>3. Shown' <=> ShownOn(p, d)
  BY <1>1 DEF Shown, ShownOn
<1>4. closed \in Entry /\ (closes => closed.fetch = "none") /\ (~ closes => closed = entry)
      /\ closed.has = entry.has /\ closed.stale = entry.stale /\ closed.sees = entry.sees
      /\ closed.raced = entry.raced /\ closed.failed = entry.failed
  BY <1>2 DEF Closed, Entry
<1>5. ASSUME opens PROVE EntryKeeps(entry', Shown')
  <2>1. CASE ~ entry.has \/ entry.stale
    <3>1. entry' = Fetching(closed)
      BY <1>1, <1>4, <1>5, <2>1 DEF Opened
    <3>2. /\ entry'.fetch = "sent" /\ entry'.has = entry.has /\ entry'.stale = entry.stale
          /\ entry'.sees = entry.sees /\ entry'.raced = entry.raced
      BY <1>4, <3>1 DEF Fetching, Entry
    <3>3. Shown'
      BY <1>3, <1>5
    <3>4. \A i \in Slots : Fresh(entry', Shown', i)
      <4> HIDE DEF closes, opens, closed
      <4> QED BY <2>1, <3>2 DEF Fresh
    <3>5. EntryRegular(entry, Shown, Stored) => EntryRegular(entry', Shown', Stored)
      <4> HIDE DEF closes, opens, closed
      <4> QED BY <3>2, <3>3 DEF EntryRegular
    <3> QED BY <3>4, <3>5 DEF EntryKeeps
  <2>2. CASE ~ (~ entry.has \/ entry.stale)
    <3>1. entry' = closed
      BY <1>1, <1>4, <1>5, <2>2 DEF Opened
    <3>2. \A i \in Slots : Fresh(entry, Shown, i) => i \in entry.sees \/ i \in entry.raced
      BY <2>2 DEF Fresh
    <3>3. Shown'
      BY <1>3, <1>5
    <3> HIDE DEF closes, opens, closed
    <3>4. \A i \in Slots : Fresh(entry, Shown, i) => Fresh(entry', Shown', i)
      BY <1>4, <3>1, <3>2 DEF Fresh
    <3>5. EntryRegular(entry, Shown, Stored) => EntryRegular(entry', Shown', Stored)
      BY <1>4, <3>1, <3>3 DEF EntryRegular
    <3> QED BY <3>4, <3>5 DEF EntryKeeps
  <2> QED BY <2>1, <2>2
<1>6. ASSUME ~ opens PROVE EntryKeeps(entry', Shown')
  <2>1. entry' = closed
    BY <1>1, <1>6
  <2>2. closes => ~ ShownOn(p, d)
    BY <1>6
  <2>3. ~ closes => (Shown <=> ShownOn(p, d))
    BY <1>6
  <2> HIDE DEF closes, opens, closed
  <2>4. \A i \in Slots : Fresh(entry, Shown, i) => Fresh(entry', Shown', i)
    BY <1>3, <1>4, <2>1, <2>2, <2>3 DEF Fresh
  <2>5. EntryRegular(entry, Shown, Stored) => EntryRegular(entry', Shown', Stored)
    BY <1>3, <1>4, <2>1, <2>2, <2>3 DEF EntryRegular
  <2> QED BY <2>4, <2>5 DEF EntryKeeps
<1>7. ASSUME NEW i \in Slots PROVE SameSteps(left[i], ws[i])
  BY FromSame DEF GoodWrites, SameSteps
<1>8. GoodWrites(left)
  BY SetFrom DEF GoodWrites
<1>9. \A i \in Slots : SameSteps(writes'[i], ws[i])
  <2> HIDE DEF left, closes
  <2> QED BY <1>1, <1>7, <1>8, ReleasedSame, SameTrans
<1> QED BY <1>5, <1>6, <1>9

\* A step that keeps the entry, or makes it no less fresh, and takes no write past
\* a refresh of it.
LEMMA StepFresh ==
  ASSUME PanelInv, FreshInv, UNCHANGED watch, EntryKeeps(entry', Shown'),
         Stored \subseteq Stored',
         \A i \in Slots : Regular(writes'[i])
                          /\ (Passed(writes'[i], watch) => Passed(writes[i], watch))
  PROVE  FreshInv'
<1>1. \A i \in Slots : Passed(writes'[i], watch) => Fresh(entry', Shown', i)
  BY DEF FreshInv, EntryKeeps
<1>2. EntryRegular(entry', Shown', Stored')
  BY DEF FreshInv, EntryKeeps, EntryRegular
<1>3. EntryRegular(entry, Shown, Stored)'
  BY <1>2
<1>4. \A i \in Slots : (Passed(writes[i], watch) => Fresh(entry, Shown, i))'
  BY <1>1
<1> QED BY <1>3, <1>4 DEF FreshInv

\* ... where the writes only stop waiting or lose their pages.
LEMMA SameFresh ==
  ASSUME PanelInv, FreshInv, UNCHANGED watch, EntryKeeps(entry', Shown'),
         \A i \in Slots : SameSteps(writes'[i], writes[i])
  PROVE  FreshInv'
<1>1. Stored \subseteq Stored'
  BY DEF Stored, SameSteps
<1>2. \A i \in Slots : /\ Regular(writes'[i])
                       /\ Passed(writes'[i], watch) => Passed(writes[i], watch)
  BY SameStepsKeep DEF FreshInv
<1> QED BY <1>1, <1>2, StepFresh

\* A write that takes a step passes a refresh only if the step is one.
LEMMA AdvancedFresh ==
  ASSUME PanelInv, FreshInv, NEW i \in Slots, writes[i].phase = "settling", StepsLeft(i)
  PROVE  \A j \in Slots :
           /\ Regular(Advanced(i)[j]) /\ Advanced(i)[j].stored = writes[j].stored
           /\ j # i => Advanced(i)[j] = writes[j]
           /\ Passed(Advanced(i)[j], watch) =>
                \/ Passed(writes[j], watch)
                \/ j = i /\ StepOf(i).do = "refresh" /\ IsPrefix(StepOf(i).key, watch)
<1> DEFINE w == writes[i]
           v == Advanced(i)[i]
<1>1. writes \in [Slots -> Writing] /\ w \in Writing
  BY DEF PanelInv, GoodWrites
<1>2. /\ v.phase = "settling" /\ v.step = w.step + 1 /\ v.page = w.page /\ v.name = w.name
      /\ v.stored = w.stored
  BY <1>1 DEF Advanced, Writing
<1>3. ASSUME NEW j \in Slots, j # i PROVE Advanced(i)[j] = writes[j]
  BY <1>1, <1>3 DEF Advanced
<1>4. Regular(w) /\ w.step \in Nat
  BY <1>1 DEF FreshInv, Writing
<1>5. StepOf(i) = StepsOf(w)[w.step] /\ StepsOf(v) = StepsOf(w)
  BY <1>2 DEF StepOf, MutationOf, StepsOf
<1> HIDE DEF w, v
<1>6. w.phase = "settling"
  BY DEF w
<1>7. Regular(v)
  BY <1>2, <1>4, <1>6 DEF Regular
<1>8. Passed(v, watch) =>
        \/ Passed(w, watch)
        \/ StepOf(i).do = "refresh" /\ IsPrefix(StepOf(i).key, watch)
  <2> SUFFICES ASSUME NEW s \in 1 .. v.step - 1,
                      StepsOf(w)[s].do = "refresh", IsPrefix(StepsOf(w)[s].key, watch)
               PROVE  \/ Passed(w, watch)
                      \/ StepOf(i).do = "refresh" /\ IsPrefix(StepOf(i).key, watch)
    BY <1>5 DEF Passed
  <2>1. s = w.step \/ s \in 1 .. w.step - 1
    BY <1>2, <1>4
  <2> QED BY <1>5, <2>1 DEF Passed
<1>9. ASSUME NEW j \in Slots, j # i
      PROVE  Regular(Advanced(i)[j]) /\ Advanced(i)[j] = writes[j]
  BY <1>3, <1>9 DEF FreshInv
<1> QED BY <1>2, <1>7, <1>8, <1>9 DEF v, w

\* The steps that move on: to another page, out of a dialog, or nowhere.
LEMMA MoveFresh ==
  ASSUME PanelInv, FreshInv, UNCHANGED <<role, watch>>, NEW p, NEW d, MoveTo(p, d, writes)
  PROVE  FreshInv'
<1>1. GoodWrites(writes)
  BY DEF PanelInv
<1> QED BY <1>1, MoveToFresh, SameFresh

LEMMA SettleMoveFresh ==
  ASSUME PanelInv, FreshInv, UNCHANGED <<role, watch>>, NEW i \in Slots,
         writes[i].phase = "settling", StepsLeft(i), StepOf(i).do # "refresh",
         NEW p, NEW d, MoveTo(p, d, Advanced(i))
  PROVE  FreshInv'
<1>1. GoodWrites(Advanced(i))
  BY AdvancedGood
<1>2. EntryKeeps(entry', Shown') /\ \A j \in Slots : SameSteps(writes'[j], Advanced(i)[j])
  BY <1>1, MoveToFresh
<1>3. \A j \in Slots : /\ Regular(Advanced(i)[j]) /\ Advanced(i)[j].stored = writes[j].stored
                       /\ Passed(Advanced(i)[j], watch) => Passed(writes[j], watch)
  BY AdvancedFresh
<1>4. \A j \in Slots : /\ Regular(writes'[j])
                       /\ Passed(writes'[j], watch) => Passed(writes[j], watch)
  BY <1>2, <1>3, SameStepsKeep
<1>5. Stored \subseteq Stored'
  BY <1>2, <1>3 DEF Stored, SameSteps
<1> QED BY <1>2, <1>4, <1>5, StepFresh

\* Whatever a refresh finds, the writes differ from the ones that took the step
\* only in who waits.
LEMMA RefreshSame ==
  ASSUME PanelInv, NEW i \in Slots, SettleRefresh(i)
  PROVE  \A j \in Slots : SameSteps(writes'[j], Advanced(i)[j])
<1> DEFINE wait(ws) == IF StepOf(i).wait THEN [ws EXCEPT ![i].phase = "waiting"] ELSE ws
<1>1. writes[i].phase = "settling" /\ StepsLeft(i)
  BY DEF SettleRefresh
<1>2. GoodWrites(Advanced(i)) /\ Advanced(i)[i].phase = "settling"
  BY <1>1, AdvancedGood
<1>3. ASSUME NEW ws, GoodWrites(ws), ws[i].phase = "settling"
      PROVE  \A j \in Slots : SameSteps(wait(ws)[j], ws[j])
  <2> SUFFICES ASSUME NEW j \in Slots PROVE SameSteps(wait(ws)[j], ws[j])
    OBVIOUS
  <2>1. ws \in [Slots -> Writing]
    BY <1>3 DEF GoodWrites
  <2> QED BY <1>3, <2>1 DEF SameSteps, Writing
<1>4. /\ GoodWrites(Released(Advanced(i))) /\ Released(Advanced(i))[i].phase = "settling"
      /\ \A j \in Slots : SameSteps(Released(Advanced(i))[j], Advanced(i)[j])
  BY <1>2, ReleasedGood, ReleasedSame DEF Released
<1>5. CASE writes' = Advanced(i)
  BY <1>5 DEF SameSteps
<1>6. CASE writes' = wait(Released(Advanced(i)))
  <2>1. \A j \in Slots : SameSteps(wait(Released(Advanced(i)))[j], Released(Advanced(i))[j])
    BY <1>3, <1>4
  <2> HIDE DEF wait
  <2> QED BY <1>4, <1>6, <2>1, SameTrans
<1>7. CASE writes' = wait(Advanced(i))
  BY <1>2, <1>3, <1>7
<1> QED BY <1>5, <1>6, <1>7 DEF SettleRefresh

\* A refresh that does not reach the entry takes a step; one that does leaves the
\* entry missing or stale, and fetched anew if it is shown.
LEMMA RefreshFresh == ASSUME PanelInv, FreshInv, NEW i \in Slots, SettleRefresh(i) PROVE FreshInv'
<1> DEFINE matches == IsPrefix(StepOf(i).key, watch)
           marked  == [entry EXCEPT !.stale = TRUE]
<1>1. /\ UNCHANGED <<page, dialog, watch, role>> /\ writes[i].phase = "settling" /\ StepsLeft(i)
      /\ entry \in Entry
  BY DEF SettleRefresh, PanelInv
<1>2. Shown' <=> Shown
  BY <1>1 DEF Shown, ShownOn
<1>4. \A j \in Slots :
        /\ Regular(Advanced(i)[j]) /\ Advanced(i)[j].stored = writes[j].stored
        /\ Passed(Advanced(i)[j], watch) => Passed(writes[j], watch) \/ j = i
        /\ Passed(Advanced(i)[j], watch) => Passed(writes[j], watch) \/ matches
  BY <1>1, AdvancedFresh
<1>7. \A j \in Slots : SameSteps(writes'[j], Advanced(i)[j])
  BY RefreshSame
<1>8. \A j \in Slots : /\ Regular(writes'[j])
                       /\ Passed(writes'[j], watch) => Passed(Advanced(i)[j], watch)
  BY <1>4, <1>7, SameStepsKeep
<1>9. Stored' = Stored
  BY <1>4, <1>7 DEF Stored, SameSteps
<1>10. CASE ~ matches /\ UNCHANGED entry
  <2>1. EntryKeeps(entry', Shown')
    BY <1>2, <1>10 DEF EntryKeeps
  <2>2. \A j \in Slots : Passed(writes'[j], watch) => Passed(writes[j], watch)
    BY <1>4, <1>8, <1>10
  <2> QED BY <1>1, <1>8, <1>9, <2>1, <2>2, StepFresh
<1>11. ASSUME EntryRegular(entry', Shown', Stored), Fresh(entry', Shown', i),
              \A j \in Slots : Fresh(entry, Shown, j) => Fresh(entry', Shown', j)
       PROVE  FreshInv'
  <2>1. \A j \in Slots : Passed(writes'[j], watch) => Fresh(entry', Shown', j)
    BY <1>4, <1>8, <1>11 DEF FreshInv
  <2>2. EntryRegular(entry, Shown, Stored)'
    BY <1>9, <1>11
  <2>3. \A j \in Slots : (Regular(writes[j]) /\ (Passed(writes[j], watch) => Fresh(entry, Shown, j)))'
    BY <1>1, <1>8, <2>1
  <2> QED BY <2>2, <2>3 DEF FreshInv
<1>12. EntryRegular(entry, Shown, Stored)
  BY DEF FreshInv
<1>13. CASE ~ Shown /\ entry' = MarkUnseen(entry)
  <2>1. /\ ~ entry'.has \/ entry'.stale
        /\ entry'.fetch = entry.fetch /\ entry'.sees = entry.sees /\ entry'.next = entry.next
    BY <1>1, <1>13 DEF MarkUnseen, Entry
  <2>2. \A j \in Slots : Fresh(entry', Shown', j)
    BY <1>2, <1>13, <2>1 DEF Fresh
  <2>3. EntryRegular(entry', Shown', Stored)
    BY <1>2, <1>12, <2>1 DEF EntryRegular
  <2> QED BY <1>11, <2>2, <2>3
<1>14. CASE Shown /\ entry' = Fetching(marked)
  <2>1. entry'.stale /\ entry'.fetch = "sent" /\ entry'.sees = entry.sees
    BY <1>1, <1>14 DEF Fetching, Entry
  <2>2. \A j \in Slots : Fresh(entry', Shown', j)
    BY <2>1 DEF Fresh
  <2>3. EntryRegular(entry', Shown', Stored)
    BY <1>2, <1>12, <1>14, <2>1 DEF EntryRegular
  <2> QED BY <1>11, <2>2, <2>3
<1>15. CASE entry' = [entry EXCEPT !.raced = @ \cup {i}]
  <2>1. /\ entry'.has = entry.has /\ entry'.stale = entry.stale /\ entry'.fetch = entry.fetch
        /\ entry'.sees = entry.sees /\ entry'.next = entry.next /\ entry'.failed = entry.failed
        /\ entry'.raced = entry.raced \cup {i}
    BY <1>1, <1>15 DEF Entry
  <2>2. Fresh(entry', Shown', i) /\ \A j \in Slots : Fresh(entry, Shown, j) => Fresh(entry', Shown', j)
    BY <1>2, <2>1 DEF Fresh
  <2>3. EntryRegular(entry', Shown', Stored)
    BY <1>2, <1>12, <2>1 DEF EntryRegular
  <2> QED BY <1>11, <2>2, <2>3
<1> QED BY <1>10, <1>13, <1>14, <1>15 DEF SettleRefresh

\* A write is sent, stored, refused, lost, answered or done, none of which is a
\* refresh.
LEMMA WriteFresh ==
  ASSUME PanelInv, FreshInv, NEW i \in Slots,
         \/ Serve(i) \/ Lose(i) \/ AnswerArrives(i) \/ SettleDone(i)
         \/ \E c \in Here.controls : Submit(c, i)
  PROVE  FreshInv'
<1>1. UNCHANGED <<page, dialog, watch, role, entry>>
  BY DEF Serve, Lose, AnswerArrives, SettleDone, Submit
<1>2. Shown' <=> Shown
  BY <1>1 DEF Shown, ShownOn
<1>3. EntryKeeps(entry', Shown')
  BY <1>1, <1>2 DEF EntryKeeps
<1>4. writes \in [Slots -> Writing] /\ writes[i] \in Writing
  BY DEF PanelInv, GoodWrites
<1>5. Regular(writes[i])
  BY DEF FreshInv
<1>6. \A j \in Slots \ {i} : writes'[j] = writes[j]
  BY <1>4 DEF Serve, Lose, AnswerArrives, SettleDone, Submit
<1> DEFINE w == writes[i]
           v == writes'[i]
<1>7. ASSUME Regular(v), Passed(v, watch) => Passed(w, watch), w.stored => v.stored
      PROVE  FreshInv'
  <2>1. \A j \in Slots : /\ Regular(writes'[j])
                         /\ Passed(writes'[j], watch) => Passed(writes[j], watch)
    BY <1>6, <1>7 DEF FreshInv
  <2>2. Stored \subseteq Stored'
    BY <1>6, <1>7 DEF Stored
  <2> QED BY <1>1, <1>3, <2>1, <2>2, StepFresh
<1>8. ASSUME v.page = w.page, v.name = w.name, v.step = w.step
      PROVE  StepsOf(v) = StepsOf(w) /\ (Passed(v, watch) => Passed(w, watch))
  BY <1>8 DEF Passed, StepsOf
<1>9. CASE Serve(i)
  <2>1. /\ v.page = w.page /\ v.name = w.name /\ v.step = w.step /\ w.phase = "sent"
        /\ \/ v.phase = "served" /\ v.stored
           \/ v.phase = "refused" /\ v.stored = w.stored
    BY <1>4, <1>9 DEF Serve, Writing
  <2>2. Regular(v)
    BY <1>5, <2>1 DEF Regular
  <2>3. w.stored => v.stored
    BY <2>1
  <2> QED BY <1>7, <1>8, <2>1, <2>2, <2>3
<1>10. CASE Lose(i)
  <2>1. /\ v.page = w.page /\ v.name = w.name /\ v.step = w.step /\ v.stored = w.stored
        /\ w.phase \in {"sent", "served"} /\ v.phase = "lost"
    BY <1>4, <1>10 DEF Lose, Writing
  <2>2. Regular(v)
    BY <1>5, <2>1 DEF Regular
  <2> QED BY <1>7, <1>8, <2>1, <2>2
<1>11. CASE AnswerArrives(i)
  <2>1. /\ v.page = w.page /\ v.name = w.name /\ v.step = w.step /\ v.stored = w.stored
        /\ w.phase = "served" /\ v.phase = "settling"
    BY <1>4, <1>11 DEF AnswerArrives, Writing
  <2>2. Regular(v)
    BY <1>5, <2>1 DEF Regular
  <2> QED BY <1>7, <1>8, <2>1, <2>2
<1>12. CASE SettleDone(i)
  <2>1. /\ v.page = w.page /\ v.name = w.name /\ v.step = w.step /\ v.stored = w.stored
        /\ w.phase = "settling" /\ v.phase = "done"
        /\ ~ (w.step <= Len(StepsOf(w)))
    BY <1>4, <1>12 DEF SettleDone, Writing, StepsLeft, MutationOf, StepsOf
  <2>2. w.step > Len(StepsOf(w))
    <3>1. w.step \in Nat /\ Len(StepsOf(w)) \in Nat
      BY <1>4, <2>1, TablesAssumption DEF PanelInv, GoodWrites, Placed, Writing, StepsOf
    <3> HIDE DEF w
    <3> QED BY <2>1, <3>1
  <2>3. Regular(v)
    BY <1>5, <1>8, <2>1, <2>2 DEF Regular
  <2> QED BY <1>7, <1>8, <2>1, <2>3
<1>13. ASSUME NEW c \in Here.controls, Submit(c, i) PROVE FreshInv'
  <2>1. v.step = 1 /\ v.phase = "sent" /\ ~ v.stored /\ w.phase = "unsent"
    BY <1>4, <1>13 DEF Submit
  <2>2. Regular(v) /\ ~ w.stored
    BY <1>5, <2>1 DEF Regular
  <2>3. ~ Passed(v, watch)
    BY <2>1 DEF Passed
  <2> QED BY <1>7, <2>2, <2>3
<1> QED BY <1>9, <1>10, <1>11, <1>12, <1>13

\* A fetch reads what is stored then, and what it brings is what was read.
LEMMA FetchFresh ==
  ASSUME PanelInv, FreshInv, Retry \/ ReadEntry \/ EntryArrives \/ EntryFails \/ Age \/ Poll
  PROVE  FreshInv'
<1>1. UNCHANGED <<page, dialog, watch, role>> /\ entry \in Entry /\ GoodWrites(writes)
  BY DEF Retry, ReadEntry, EntryArrives, EntryFails, Age, Poll, PanelInv
<1>2. Shown' <=> Shown
  BY <1>1 DEF Shown, ShownOn
<1>3. \A i \in Slots : SameSteps(writes'[i], writes[i])
  <2>1. CASE writes' = writes
    BY <2>1 DEF SameSteps
  <2>2. CASE writes' = Released(writes)
    BY <1>1, <2>2, ReleasedSame
  <2> QED BY <2>1, <2>2 DEF Retry, ReadEntry, EntryArrives, EntryFails, Age, Poll
<1>4. EntryRegular(entry, Shown, Stored)
  BY DEF FreshInv
<1>5. CASE Retry \/ Poll
  <2>1. /\ entry' = Fetching(entry) /\ Shown
        /\ entry.fetch = "none" \/ entry.failed
    BY <1>5 DEF Retry, Poll
  <2>2. /\ entry'.fetch = "sent" /\ entry'.has = entry.has /\ entry'.stale = entry.stale
        /\ entry'.sees = entry.sees /\ entry'.raced = entry.raced
    BY <1>1, <2>1 DEF Fetching, Entry
  <2>3. EntryKeeps(entry', Shown')
    BY <1>2, <2>1, <2>2 DEF EntryKeeps, Fresh, EntryRegular
  <2> QED BY <1>1, <1>3, <2>3, SameFresh
<1>6. CASE ReadEntry
  <2>1. /\ entry'.fetch = "read" /\ entry'.next = Stored /\ entry.fetch = "sent"
        /\ entry'.has = entry.has /\ entry'.stale = entry.stale
        /\ entry'.sees = entry.sees /\ entry'.raced = entry.raced
    BY <1>1, <1>6 DEF ReadEntry, Entry
  <2>2. writes' = writes /\ Stored' = Stored
    BY <1>6 DEF ReadEntry, Stored
  <2>3. EntryRegular(entry, Shown, Stored)'
    BY <1>2, <1>4, <2>1, <2>2 DEF EntryRegular
  <2>4. ASSUME NEW i \in Slots, Passed(writes[i], watch) PROVE Fresh(entry', Shown', i)
    <3>1. Fresh(entry, Shown, i) /\ Regular(writes[i])
      BY <2>4 DEF FreshInv
    <3>2. writes[i].step # 1
      BY <2>4 DEF Passed
    <3>3. writes[i].stored
      BY <1>1, <3>1, <3>2 DEF Regular, GoodWrites, Writing
    <3> QED BY <1>2, <2>1, <3>1, <3>3 DEF Fresh, Stored
  <2>5. \A i \in Slots : (Regular(writes[i]) /\ (Passed(writes[i], watch) => Fresh(entry, Shown, i)))'
    BY <1>1, <2>2, <2>4 DEF FreshInv
  <2> QED BY <2>3, <2>5 DEF FreshInv
<1>7. CASE EntryArrives
  <2>1. /\ entry.fetch = "read" /\ entry'.fetch = "none" /\ entry'.sees = entry.next
        /\ entry'.raced = entry.raced /\ entry'.has
    BY <1>1, <1>7 DEF EntryArrives, Entry
  <2>2. EntryKeeps(entry', Shown')
    BY <1>2, <1>4, <2>1 DEF EntryKeeps, Fresh, EntryRegular
  <2> QED BY <1>1, <1>3, <2>2, SameFresh
<1>8. CASE EntryFails
  <2>1. /\ entry.fetch # "none" /\ entry'.fetch = "none" /\ entry'.failed
        /\ entry'.has = entry.has /\ entry'.stale = entry.stale
        /\ entry'.sees = entry.sees /\ entry'.raced = entry.raced
    BY <1>1, <1>8 DEF EntryFails, Entry
  <2>2. EntryKeeps(entry', Shown')
    BY <1>2, <2>1 DEF EntryKeeps, Fresh, EntryRegular
  <2> QED BY <1>1, <1>3, <2>2, SameFresh
<1>9. CASE Age
  <2>1. /\ entry'.stale /\ entry.has /\ entry'.has /\ entry'.fetch = entry.fetch
        /\ entry'.sees = entry.sees /\ entry'.raced = entry.raced
        /\ entry'.next = entry.next /\ entry'.failed = entry.failed
    BY <1>1, <1>9 DEF Age, Entry
  <2>2. EntryKeeps(entry', Shown')
    BY <1>2, <2>1 DEF EntryKeeps, Fresh, EntryRegular
  <2> QED BY <1>1, <1>3, <2>2, SameFresh
<1> QED BY <1>5, <1>6, <1>7, <1>8, <1>9

\* Nothing has been written or fetched at the start.
LEMMA InitFresh == Init => FreshInv
<1> SUFFICES ASSUME Init PROVE FreshInv
  OBVIOUS
<1>1. \A i \in Slots : writes[i] = Unsent
  BY DEF Init
<1>2. Regular(Unsent) /\ ~ Passed(Unsent, watch) /\ ~ Unsent.stored
  BY DEF Regular, Passed, Unsent
<1>3. entry.sees = {} /\ (entry.fetch = "none" \/ (Shown /\ entry.fetch = "sent"))
  BY DEF Init, NoEntry, Fetching
<1> QED BY <1>1, <1>2, <1>3 DEF FreshInv, EntryRegular

LEMMA NextFresh == PanelInv /\ FreshInv /\ [Next]_vars => FreshInv'
<1> SUFFICES ASSUME PanelInv, FreshInv, [Next]_vars PROVE FreshInv'
  OBVIOUS
<1>1. CASE UNCHANGED vars
  <2>1. Shown' = Shown
    BY <1>1 DEF vars, Shown, ShownOn
  <2>2. EntryKeeps(entry', Shown') /\ \A i \in Slots : SameSteps(writes'[i], writes[i])
    BY <1>1, <2>1 DEF vars, EntryKeeps, SameSteps
  <2> QED BY <1>1, <2>2, SameFresh DEF vars
<1>2. ASSUME NEW p \in PagePaths, Go(p) PROVE FreshInv'
  BY <1>2, MoveFresh DEF Go
<1>3. ASSUME NEW c \in Here.controls, OpenDialog(c) PROVE FreshInv'
  BY <1>3, MoveFresh DEF OpenDialog
<1>4. CASE CloseDialog
  BY <1>4, MoveFresh DEF CloseDialog
<1>5. ASSUME NEW i \in Slots, SettleClose(i) PROVE FreshInv'
  <2>1. StepOf(i).do # "refresh" /\ writes[i].phase = "settling" /\ StepsLeft(i)
    BY <1>5 DEF SettleClose
  <2>2. \E d : MoveTo(page, d, Advanced(i)) /\ UNCHANGED <<role, watch>>
    BY <1>5 DEF SettleClose
  <2> QED BY <2>1, <2>2, SettleMoveFresh
<1>6. ASSUME NEW i \in Slots, SettleGo(i) PROVE FreshInv'
  <2>1. StepOf(i).do # "refresh" /\ writes[i].phase = "settling" /\ StepsLeft(i)
    BY <1>6 DEF SettleGo
  <2>2. MoveTo(StepOf(i).to, "none", Advanced(i)) /\ UNCHANGED <<role, watch>>
    BY <1>6 DEF SettleGo
  <2> QED BY <2>1, <2>2, SettleMoveFresh
<1>7. ASSUME NEW i \in Slots, WriteStep(i) \/ Lose(i) PROVE FreshInv'
  BY <1>5, <1>6, <1>7, WriteFresh, RefreshFresh DEF WriteStep
<1>8. CASE Administrator
  BY <1>2, <1>3, <1>4, <1>8, WriteFresh, FetchFresh DEF Administrator
<1>9. CASE FetchStep \/ Age \/ Poll
  BY <1>9, FetchFresh DEF FetchStep
<1> QED BY <1>1, <1>7, <1>8, <1>9 DEF Next

\* A write that is done has taken the refresh it promised.
LEMMA FreshShown == PanelInv /\ FreshInv => OwnWritesShown
<1> SUFFICES ASSUME PanelInv, FreshInv, NEW i \in Slots, Stale(i), IsPromised(i)
             PROVE  \/ i \in entry.raced
                    \/ entry.stale /\ ~ Shown
                    \/ entry.stale /\ entry.failed
                    \/ entry.fetch = "sent"
                    \/ entry.fetch = "read" /\ i \in entry.next
  BY DEF OwnWritesShown
<1> DEFINE w == writes[i]
<1>1. /\ w.phase = "done" /\ entry.has /\ i \notin entry.sees /\ watch \in Watched
      /\ w \in Writing /\ Placed(w) /\ Regular(w)
  BY DEF Stale, PanelInv, GoodWrites, FreshInv
<1>2. w.page \in PagePaths /\ w.name \in DOMAIN Routes[w.page].mutations
  BY <1>1 DEF Placed, Writing
<1>3. PICK s \in 1 .. Len(StepsOf(w)) :
        StepsOf(w)[s].do = "refresh" /\ IsPrefix(StepsOf(w)[s].key, watch)
  BY <1>1, <1>2, PromisesAssumption DEF IsPromised, StepsOf
<1>4. w.step > Len(StepsOf(w)) /\ w.step \in Nat /\ Len(StepsOf(w)) \in Nat
  BY <1>1, <1>2, TablesAssumption DEF Regular, Writing, StepsOf
<1>5. s \in 1 .. w.step - 1
  <2> HIDE DEF w
  <2> QED BY <1>4
<1>6. Passed(w, watch)
  BY <1>3, <1>5 DEF Passed
<1>7. Fresh(entry, Shown, i)
  BY <1>6 DEF FreshInv
<1> QED BY <1>1, <1>7 DEF Fresh

-----------------------------------------------------------------------------
(* Nothing is refused. A dialog is open for a role some control opened it   *)
(* for, and a write is on its way only for a role the API allows it, the     *)
(* settings aside.                                                           *)
-----------------------------------------------------------------------------
Entitled(w) ==
    w.page # "/settings" =>
        /\ w.phase = "sent" => role \in Routes[w.page].mutations[w.name].call.who
        /\ w.phase # "refused"

OfferInv ==
    /\ dialog # "none" => \E c \in Here.controls : c.opens = dialog /\ role \in c.who
    /\ \A i \in Slots : Entitled(writes[i])

\* v is the same write as w, and not newly sent or refused.
NoSending(v, w) ==
    /\ v.page = w.page /\ v.name = w.name
    /\ v.phase \in {"sent", "refused"} => v.phase = w.phase

\* Steps that send nothing and refuse nothing have only the dialog to look at.
LEMMA QuietOffer ==
  ASSUME OfferInv, UNCHANGED role,
         \A i \in Slots : NoSending(writes'[i], writes[i]),
         \/ dialog' = "none"
         \/ page' = page /\ dialog' = dialog
         \/ page' = page /\ \E c \in Here.controls : c.opens = dialog' /\ role \in c.who
  PROVE  OfferInv'
<1>1. dialog' # "none" => \E c \in Here'.controls : c.opens = dialog' /\ role' \in c.who
  BY DEF OfferInv, Here
<1>2. \A i \in Slots : Entitled(writes'[i])
  BY DEF OfferInv, Entitled, NoSending
<1>3. \A i \in Slots : Entitled(writes[i])'
  BY <1>2 DEF Entitled
<1> QED BY <1>1, <1>3 DEF OfferInv

LEMMA SameNoSending ==
  ASSUME NEW u, NEW v, NEW w, SameSteps(u, v), NoSending(v, w)
  PROVE  NoSending(u, w)
BY DEF SameSteps, NoSending

LEMMA NextOffer == PanelInv /\ FreshInv /\ OfferInv /\ [Next]_vars => OfferInv'
<1> SUFFICES ASSUME PanelInv, FreshInv, OfferInv, [Next]_vars PROVE OfferInv'
  OBVIOUS
<1>1. GoodWrites(writes) /\ writes \in [Slots -> Writing]
      /\ \A i \in Slots : NoSending(writes[i], writes[i])
  BY DEF PanelInv, GoodWrites, NoSending
<1>2. ASSUME NEW i \in Slots, writes[i].phase = "settling", StepsLeft(i)
      PROVE  /\ GoodWrites(Advanced(i))
             /\ \A j \in Slots : NoSending(Advanced(i)[j], writes[j])
  <2>1. GoodWrites(Advanced(i))
    BY <1>2, AdvancedGood
  <2>2. \A j \in Slots : NoSending(Advanced(i)[j], writes[j])
    BY <1>1 DEF Advanced, NoSending, Writing
  <2> QED BY <2>1, <2>2
<1>3. ASSUME NEW p, NEW d, NEW ws, GoodWrites(ws), MoveTo(p, d, ws), UNCHANGED <<role, watch>>,
             \A i \in Slots : NoSending(ws[i], writes[i])
      PROVE  /\ \A i \in Slots : NoSending(writes'[i], writes[i])
             /\ page' = p /\ dialog' = d
  <2>1. UNCHANGED role /\ UNCHANGED watch
    BY <1>3
  <2>2. \A i \in Slots : SameSteps(writes'[i], ws[i])
    BY <1>3, <2>1, MoveToFresh
  <2>3. \A i \in Slots : NoSending(writes'[i], writes[i])
    BY <1>3, <2>2, SameNoSending
  <2>4. page' = p /\ dialog' = d
    BY <1>3 DEF MoveTo
  <2> QED BY <2>3, <2>4
<1>4. CASE UNCHANGED vars
  BY <1>1, <1>4, QuietOffer DEF vars
<1>5. CASE CloseDialog \/ \E p \in PagePaths : Go(p)
  <2>1. PICK p : MoveTo(p, "none", writes) /\ UNCHANGED <<role, watch>>
    BY <1>5 DEF CloseDialog, Go
  <2> QED BY <1>1, <1>3, <2>1, QuietOffer
<1>6. ASSUME NEW c \in Here.controls, OpenDialog(c) PROVE OfferInv'
  <2>1. MoveTo(page, c.opens, writes) /\ UNCHANGED <<role, watch>> /\ role \in c.who
    BY <1>6 DEF OpenDialog, Offered
  <2>2. \A i \in Slots : NoSending(writes'[i], writes[i])
    BY <1>1, <1>3, <2>1
  <2>3. page' = page /\ dialog' = c.opens
    BY <1>1, <1>3, <2>1
  <2> QED BY <2>1, <2>2, <2>3, QuietOffer
<1>7. ASSUME NEW i \in Slots, SettleClose(i) PROVE OfferInv'
  <2> DEFINE d == IF writes[i].from # "left" /\ dialog \in Sibling(writes[i].on)
                  THEN "none" ELSE dialog
  <2>1. /\ MoveTo(page, d, Advanced(i)) /\ UNCHANGED <<role, watch>>
        /\ writes[i].phase = "settling" /\ StepsLeft(i)
    BY <1>7 DEF SettleClose
  <2>2. d = "none" \/ d = dialog
    OBVIOUS
  <2> HIDE DEF d
  <2>3. page' = page /\ dialog' = d /\ \A j \in Slots : NoSending(writes'[j], writes[j])
    BY <1>2, <1>3, <2>1
  <2> QED BY <2>1, <2>2, <2>3, QuietOffer
<1>8. ASSUME NEW i \in Slots, SettleGo(i) PROVE OfferInv'
  <2>1. /\ MoveTo(StepOf(i).to, "none", Advanced(i)) /\ UNCHANGED <<role, watch>>
        /\ writes[i].phase = "settling" /\ StepsLeft(i)
    BY <1>8 DEF SettleGo
  <2>2. dialog' = "none" /\ \A j \in Slots : NoSending(writes'[j], writes[j])
    BY <1>2, <1>3, <2>1
  <2> QED BY <2>1, <2>2, QuietOffer
<1>9. ASSUME NEW i \in Slots, SettleRefresh(i) PROVE OfferInv'
  <2>1. UNCHANGED <<role, page, dialog>> /\ writes[i].phase = "settling" /\ StepsLeft(i)
    BY <1>9 DEF SettleRefresh
  <2>2. \A j \in Slots : NoSending(Advanced(i)[j], writes[j])
    BY <1>2, <2>1
  <2>3. \A j \in Slots : SameSteps(writes'[j], Advanced(i)[j])
    BY <1>9, RefreshSame
  <2>4. \A j \in Slots : NoSending(writes'[j], writes[j])
    BY <2>2, <2>3, SameNoSending
  <2> QED BY <2>1, <2>4, QuietOffer
<1>10. CASE Retry \/ ReadEntry \/ EntryArrives \/ EntryFails \/ Age \/ Poll
  <2>1. UNCHANGED <<role, page, dialog>>
    BY <1>10 DEF Retry, ReadEntry, EntryArrives, EntryFails, Age, Poll
  <2>2. \A i \in Slots : NoSending(writes'[i], writes[i])
    <3>1. CASE writes' = writes
      BY <1>1, <3>1
    <3>2. CASE writes' = Released(writes)
      BY <1>1, <3>2, ReleasedSame, SameNoSending
    <3> QED BY <1>10, <3>1, <3>2 DEF Retry, ReadEntry, EntryArrives, EntryFails, Age, Poll
  <2> QED BY <2>1, <2>2, QuietOffer
<1>11. ASSUME NEW i \in Slots, Lose(i) \/ AnswerArrives(i) \/ SettleDone(i) PROVE OfferInv'
  <2>1. UNCHANGED <<role, page, dialog>>
    BY <1>11 DEF Lose, AnswerArrives, SettleDone
  <2>2. \A j \in Slots : NoSending(writes'[j], writes[j])
    BY <1>1, <1>11 DEF Lose, AnswerArrives, SettleDone, NoSending, Writing
  <2> QED BY <2>1, <2>2, QuietOffer
<1>12. ASSUME NEW i \in Slots, Serve(i) PROVE OfferInv'
  <2>1. UNCHANGED <<role, page, dialog>> /\ writes[i].phase = "sent"
    BY <1>12 DEF Serve
  <2>2. \A j \in Slots \ {i} : writes'[j] = writes[j]
    BY <1>1, <1>12 DEF Serve
  <2>3. Entitled(writes[i]) /\ \A j \in Slots : Entitled(writes[j])
    BY DEF OfferInv
  <2>4. writes[i].page # "/settings" => writes'[i].phase = "served"
    BY <1>1, <1>12, <2>1, <2>3 DEF Entitled, Serve, MutationOf, Writing
  <2>5. writes'[i].page = writes[i].page /\ writes'[i].phase # "sent"
    BY <1>1, <1>12 DEF Serve, Writing
  <2>6. \A j \in Slots : Entitled(writes'[j])
    BY <2>2, <2>3, <2>4, <2>5 DEF Entitled
  <2>7. \A j \in Slots : Entitled(writes[j])'
    BY <2>1, <2>6 DEF Entitled
  <2> QED BY <2>1, <2>7 DEF OfferInv, Here
<1>13. ASSUME NEW c \in Here.controls, NEW i \in Slots, Submit(c, i) PROVE OfferInv'
  <2>1. /\ UNCHANGED <<role, page, dialog>> /\ Offered(c) /\ c.submits # "none"
        /\ \A j \in Slots \ {i} : writes'[j] = writes[j]
    BY <1>1, <1>13 DEF Submit
  <2>2. /\ writes'[i].page = page /\ writes'[i].name = c.submits /\ writes'[i].phase = "sent"
    BY <1>1, <1>13 DEF Submit
  <2>3. page # "/settings" => role \in Routes[page].mutations[c.submits].call.who
    <3> SUFFICES ASSUME page # "/settings"
                 PROVE  role \in Routes[page].mutations[c.submits].call.who
      OBVIOUS
    <3>1. page \in PagePaths \ {"/settings"} /\ c \in Routes[page].controls
      BY DEF PanelInv, Here
    <3>2. CASE c.on = "page"
      BY <2>1, <3>1, <3>2, OffersAssumption DEF Offered
    <3>3. CASE c.on # "page"
      <4>1. dialog = c.on /\ role \in c.who
        BY <2>1, <3>3 DEF Offered
      <4>2. CASE dialog = "none"
        BY <3>1, <3>3, <4>1, <4>2, TablesAssumption
      <4>3. CASE dialog # "none"
        <5>1. PICK o \in Routes[page].controls : o.opens = c.on /\ role \in o.who
          BY <4>1, <4>3 DEF OfferInv, Here
        <5> QED BY <2>1, <3>1, <3>3, <4>1, <5>1, OffersAssumption
      <4> QED BY <4>2, <4>3
    <3> QED BY <3>2, <3>3
  <2>4. \A j \in Slots : Entitled(writes'[j])
    BY <2>1, <2>2, <2>3 DEF OfferInv, Entitled
  <2>5. \A j \in Slots : Entitled(writes[j])'
    BY <2>1, <2>4 DEF Entitled
  <2> QED BY <2>1, <2>5 DEF OfferInv, Here
<1> QED
  BY <1>4, <1>5, <1>6, <1>7, <1>8, <1>9, <1>10, <1>11, <1>12, <1>13
  DEF Next, Administrator, WriteStep, FetchStep

LEMMA OfferRefusesNothing == PanelInv /\ OfferInv => NothingIsRefused
<1> SUFFICES ASSUME PanelInv, OfferInv PROVE NothingIsRefused
  OBVIOUS
<1>1. ASSUME Shown PROVE role \in CallOf[watch].who
  <2>1. PICK q \in Routes[page].queries : q.key = watch /\ role \in q.who
    BY <1>1 DEF Shown, ShownOn
  <2>2. q \in AllQueries /\ watch \in Watched
    BY DEF AllQueries, PanelInv
  <2> QED BY <2>1, <2>2, OffersAssumption
<1>2. \A i \in Slots : writes[i].phase = "refused" => writes[i].page = "/settings"
  BY DEF OfferInv, Entitled
<1> QED BY <1>1, <1>2 DEF NothingIsRefused

-----------------------------------------------------------------------------
(* The theorems.                                                           *)
-----------------------------------------------------------------------------
\* The inductive invariant of the panel: the state is well formed, and who
\* waits for a fetch looks at an entry that has one under way.
THEOREM PanelInvariant == Spec => []PanelInv
BY InitInv, NextInv, PTL DEF Spec

\* The panel keeps its types, the place of a write in its onSuccess included.
THEOREM PanelTypeCorrect == Spec => []TypeOK
BY InvType, PanelInvariant, PTL

\* No write waits in vain, for any roles, writes and moves.
THEOREM NobodyWaitsInVain == Spec => []WaitsForAFetch
<1>1. PanelInv => WaitsForAFetch
  BY DEF PanelInv
<1> QED BY <1>1, PanelInvariant, PTL

\* From the invalidateQueries of a write on, the entry shows the write, or a fetch that
\* will see it is under way or due: throughout, for any roles, writes and moves.
THEOREM FreshHolds == Spec => []FreshInv
BY InitFresh, NextFresh, PanelInvariant, PTL DEF Spec

\* What a write has changed is not left out of sight, for any roles, writes and
\* moves, whatever is fetched, aborted, aged or polled meanwhile.
THEOREM WritesAreShown == Spec => []OwnWritesShown
BY FreshShown, FreshHolds, PanelInvariant, PTL

\* The API refuses no one what the panel offered them, the settings apart, wherever they
\* went since.
THEOREM OffersAreHonoured == Spec => []NothingIsRefused
<1>1. Init => OfferInv
  BY DEF Init, OfferInv, Entitled, Unsent
<1>2. Spec => []OfferInv
  BY <1>1, NextOffer, FreshHolds, PanelInvariant, PTL DEF Spec
<1> QED BY <1>2, OfferRefusesNothing, PanelInvariant, PTL
=============================================================================
