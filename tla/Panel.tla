------------------------------- MODULE Panel -------------------------------
(***************************************************************************)
(* An administrator at work in the panel: pages and dialogs are opened and *)
(* left, writes are sent, and what a page shows comes from the query cache *)
(* (frontend/src/lib/query/client.ts), kept fresh by the refreshes that    *)
(* follow every write. Pages says what each page does; this module says    *)
(* when. One cache entry is watched, any of Watched: the entries do not    *)
(* influence each other.                                                   *)
(*                                                                         *)
(* The cache is TanStack Query, modelled as the code uses it: an entry is  *)
(* fetched when a page that shows it opens and it is missing or stale, its *)
(* fetch is aborted when that page closes (every query passes its signal   *)
(* on), a refresh marks it stale and, if it is on the screen, fetches anew *)
(* over the fetch under way; but a first fetch is never started over.      *)
(***************************************************************************)
EXTENDS Pages, Naturals, SequencesExt, FiniteSetsExt

CONSTANTS
    Users,          \* the roles an administrator may have
    MaxWrites,      \* writes sent, in all
    MaxActs         \* writes sent and pages gone to, in all

ASSUME PanelAssumption ==
    /\ Users \subseteq Roles
    /\ MaxWrites \in Nat /\ MaxActs \in Nat

VARIABLES
    role,           \* of the administrator
    page, dialog,   \* where they are; "none" if no dialog is open
    watch,          \* the key of the entry watched
    entry,          \* the entry
    writes,         \* the writes sent
    moves           \* pages gone to

vars == <<role, page, dialog, watch, entry, writes, moves>>

-----------------------------------------------------------------------------
PagePaths == DOMAIN Routes

Dialogs == {c.opens : c \in UNION {Routes[p].controls : p \in PagePaths}}
Mutations == UNION {DOMAIN Routes[p].mutations : p \in PagePaths}

\* What is taken for granted of the tables.
ASSUME TablesAssumption ==
    /\ "/" \in PagePaths
    /\ \A p \in PagePaths : \A c \in Routes[p].controls :
          /\ c.on \in {"page"} \cup Dialogs /\ c.on # "none"
          /\ c.submits \in {"none"} \cup DOMAIN Routes[p].mutations
          /\ c.busy \in {"never", "page", "dialog"}
    /\ \A p \in PagePaths : \A m \in DOMAIN Routes[p].mutations :
          LET then == Routes[p].mutations[m].then
          IN  /\ Len(then) \in Nat
              /\ \A k \in 1 .. Len(then) : then[k].do = "go" => then[k].to \in PagePaths

AllQueries == UNION {Routes[p].queries : p \in PagePaths}
CallOf == FoldSet(LAMBDA q, calls : q.key :> q.call @@ calls, <<>>, AllQueries)

\* The entries whose data some write may change.
Watched == {k \in DOMAIN CallOf : CallOf[k].shows # {}}

\* Whoever a control is offered to, the API allows what it submits, and a query
\* is mounted for none but those it answers. The settings alone ask who edits
\* nowhere.
ASSUME OffersAssumption ==
    /\ \A q \in AllQueries : q.key \in Watched => q.who \subseteq CallOf[q.key].who
    /\ \A p \in PagePaths \ {"/settings"} : \A c \in Routes[p].controls :
          c.submits # "none" =>
              LET allowed == Routes[p].mutations[c.submits].call.who
              IN  \/ c.on = "page" /\ c.who \subseteq allowed
                  \/ /\ c.on # "page"
                     /\ \A o \in Routes[p].controls :
                           o.opens = c.on => o.who \cap c.who \subseteq allowed

Slots == 1 .. MaxWrites

Here == Routes[page]

\* Is the watched entry on the screen?
ShownOn(p, d) ==
    \E q \in Routes[p].queries : q.key = watch /\ q.on \in {"page", d} /\ role \in q.who
Shown == ShownOn(page, dialog)

MutationOf(i) == Routes[writes[i].page].mutations[writes[i].name]
Ended == {"unsent", "refused", "lost", "done"}

\* Does mutation m of page p change something the watched entry shows? What
\* does not is left out, and so are the dialogs and pages without any that
\* does and without the entry; all of them are one place, the dashboard.
Concerns(p, m) == Routes[p].mutations[m].call.touches \cap CallOf[watch].shows # {}

Matters(p, d) ==
    \/ \E q \in Routes[p].queries : q.key = watch /\ q.on \in {"page", d}
    \/ \E c \in Routes[p].controls : c.on = d /\ c.submits # "none" /\ Concerns(p, c.submits)

PageMatters(p) == p = "/" \/ Matters(p, "page") \/ \E c \in Routes[p].controls : Matters(p, c.opens)

Acts == moves + Cardinality({i \in Slots : writes[i].phase # "unsent"})

\* The writes that are in the database.
Stored == {i \in Slots : writes[i].stored}

NoEntry == [has |-> FALSE, sees |-> {}, stale |-> FALSE, failed |-> FALSE,
            fetch |-> "none", next |-> {}, raced |-> {}]

Unsent == [page |-> "/", name |-> "none", on |-> "page", from |-> "left", busy |-> "never",
           phase |-> "unsent", step |-> 1, stored |-> FALSE]

\* A write: what was sent, from where, the control behind it, how far it is.
Writing == [page : PagePaths, name : {"none"} \cup Mutations, on : {"page"} \cup Dialogs,
            from : {"control", "page", "left"}, busy : {"never", "page", "dialog"},
            phase : Ended \cup {"sent", "served", "settling", "waiting"},
            step : Nat, stored : BOOLEAN]

\* A cache entry: the writes its data was read after, and a fetch under way.
Entry == [has : BOOLEAN, sees : SUBSET Slots, stale : BOOLEAN, failed : BOOLEAN,
          fetch : {"none", "sent", "read"}, next : SUBSET Slots, raced : SUBSET Slots]

TypeOK ==
    /\ role \in Users /\ page \in PagePaths /\ watch \in Watched
    /\ dialog \in {"none"} \cup {c.opens : c \in Here.controls}
    /\ entry \in Entry /\ writes \in [Slots -> Writing]
    /\ \A i \in Slots :
          writes[i].phase # "unsent" =>
              /\ writes[i].name \in DOMAIN Routes[writes[i].page].mutations
              /\ writes[i].step \in 1 .. Len(MutationOf(i).then) + 1
    /\ moves \in 0 .. MaxActs

-----------------------------------------------------------------------------
(* The cache.                                                              *)
-----------------------------------------------------------------------------
Fetching(e) == [e EXCEPT !.fetch = "sent", !.next = {}]

\* The end of a fetch lets the writes go on that wait for it.
Released(ws) == [i \in Slots |->
    IF ws[i].phase = "waiting" THEN [ws[i] EXCEPT !.phase = "settling"] ELSE ws[i]]

\* A page or dialog that shows the entry opens.
Opened(e) == IF ~ e.has \/ e.stale THEN Fetching(e) ELSE e

\* The last one that shows it closes: the fetch is aborted.
Closed(e) == [e EXCEPT !.fetch = "none", !.next = {}]

\* Mutant: an aborted fetch leaves its waiters waiting.
MoveTo_NobodyReleased(p, d, ws) ==
    /\ page' = p /\ dialog' = d /\ writes' = ws
    /\ entry' = IF Shown = ShownOn(p, d) THEN entry
                ELSE IF Shown THEN Closed(entry) ELSE Opened(entry)

\* The administrator, or a write that ends, moves to page p and dialog d; the
\* page left closes before the next one opens. Writes whose page or form goes
\* live on, without it.
MoveTo(p, d, ws) ==
    LET closes == Shown /\ (p # page \/ ~ ShownOn(p, d))
        opens  == ShownOn(p, d) /\ (p # page \/ ~ Shown)
        closed == IF closes THEN Closed(entry) ELSE entry
        left == [i \in Slots |->
            IF p # page THEN [ws[i] EXCEPT !.from = "left"]
            ELSE IF d # dialog /\ ws[i].busy = "dialog" /\ ws[i].from = "control"
                 THEN [ws[i] EXCEPT !.from = "page"] ELSE ws[i]]
    IN  /\ page' = p /\ dialog' = d
        /\ entry' = IF opens THEN Opened(closed) ELSE closed
        /\ writes' = IF closes THEN Released(left) ELSE left

-----------------------------------------------------------------------------
(* The administrator.                                                      *)
-----------------------------------------------------------------------------
\* Mutant: a dialog stays open on the next page.
Go_DialogKept(p) ==
    /\ Acts < MaxActs /\ p # page /\ PageMatters(p)
    /\ moves' = moves + 1
    /\ MoveTo(p, dialog, writes)
    /\ UNCHANGED <<role, watch>>

\* By the menu, a row, the back button or an address.
Go(p) ==
    /\ Acts < MaxActs /\ p # page /\ PageMatters(p)
    /\ moves' = moves + 1
    /\ MoveTo(p, "none", writes)
    /\ UNCHANGED <<role, watch>>

\* Mutant: a control is rendered for everyone.
Offered_Everyone(c) ==
    /\ c.needs = watch => entry.has
    /\ IF c.on = "page" THEN dialog = "none" ELSE dialog = c.on

Offered(c) ==
    /\ role \in c.who
    /\ c.needs = watch => entry.has
    /\ IF c.on = "page" THEN dialog = "none" ELSE dialog = c.on

OpenDialog(c) ==
    /\ Offered(c) /\ c.opens # "none" /\ Matters(page, c.opens)
    /\ MoveTo(page, c.opens, writes)
    /\ UNCHANGED <<role, watch, moves>>

\* By its button, by Escape or by a click beside it, whatever is under way.
CloseDialog ==
    /\ dialog # "none"
    /\ MoveTo(page, "none", writes)
    /\ UNCHANGED <<role, watch, moves>>

Submit(c, i) ==
    /\ Offered(c) /\ c.submits # "none" /\ Concerns(page, c.submits)
    /\ Acts < MaxActs
    /\ writes[i].phase = "unsent" /\ \A j \in 1 .. i - 1 : writes[j].phase # "unsent"
    /\ c.busy # "never" =>
          \A j \in Slots : writes[j].name = c.submits /\ writes[j].from = "control"
                              => writes[j].phase \in Ended
    /\ writes' = [writes EXCEPT ![i] =
                     [page |-> page, name |-> c.submits, on |-> c.on, from |-> "control",
                      busy |-> c.busy, phase |-> "sent", step |-> 1, stored |-> FALSE]]
    /\ UNCHANGED <<role, page, dialog, watch, entry, moves>>

\* The retry button of a list that could not be loaded.
Retry ==
    /\ Shown /\ entry.failed
    /\ entry' = Fetching(entry)
    /\ writes' = Released(writes)
    /\ UNCHANGED <<role, page, dialog, watch, moves>>

-----------------------------------------------------------------------------
(* A write: served or refused by the API, answered, settled.               *)
-----------------------------------------------------------------------------
Serve(i) ==
    /\ writes[i].phase = "sent"
    /\ writes' = IF role \in MutationOf(i).call.who
                 THEN [writes EXCEPT ![i].phase = "served", ![i].stored = TRUE]
                 ELSE [writes EXCEPT ![i].phase = "refused", ![i].from = "left"]
    /\ UNCHANGED <<role, page, dialog, watch, entry, moves>>

\* No answer, or an error: the mutation is not tried again.
Lose(i) ==
    /\ writes[i].phase \in {"sent", "served"}
    /\ writes' = [writes EXCEPT ![i].phase = "lost", ![i].from = "left"]
    /\ UNCHANGED <<role, page, dialog, watch, entry, moves>>

StepOf(i) == MutationOf(i).then[writes[i].step]
StepsLeft(i) == writes[i].step <= Len(MutationOf(i).then)

Advanced(i) == [writes EXCEPT ![i].phase = "settling", ![i].step = @ + 1]

AnswerArrives(i) ==
    /\ writes[i].phase = "served"
    /\ writes' = [writes EXCEPT ![i].phase = "settling"]
    /\ UNCHANGED <<role, page, dialog, watch, entry, moves>>

SettleDone(i) ==
    /\ writes[i].phase = "settling" /\ ~ StepsLeft(i)
    /\ writes' = [writes EXCEPT ![i].phase = "done", ![i].from = "left"]
    /\ UNCHANGED <<role, page, dialog, watch, entry, moves>>

\* Forms for creating and for editing are the same dialog.
Sibling(d) == CASE d \in {"create", "edit"} -> {"create", "edit"}
                [] d \in {"createEndpoint", "editEndpoint"} -> {"createEndpoint", "editEndpoint"}
                [] OTHER -> {d}

\* The page closes the dialog, also one that was opened since.
SettleClose(i) ==
    /\ writes[i].phase = "settling" /\ StepsLeft(i) /\ StepOf(i).do = "close"
    /\ MoveTo(page,
              IF writes[i].from # "left" /\ dialog \in Sibling(writes[i].on) THEN "none" ELSE dialog,
              Advanced(i))
    /\ UNCHANGED <<role, watch, moves>>

SettleGo(i) ==
    /\ writes[i].phase = "settling" /\ StepsLeft(i) /\ StepOf(i).do = "go"
    /\ MoveTo(StepOf(i).to, "none", Advanced(i))
    /\ UNCHANGED <<role, watch, moves>>

\* Mutant: refetchQueries, which knows only what is on the screen.
MarkUnseen_Not(e) == e

\* An entry that is not on the screen is fetched when it is shown again.
MarkUnseen(e) == IF e.has THEN [e EXCEPT !.stale = TRUE] ELSE e

\* invalidateQueries. Refreshes of entries that are not watched take their
\* time too, which is the time between two steps.
SettleRefresh(i) ==
    LET matches == IsPrefix(StepOf(i).key, watch)
        marked  == [entry EXCEPT !.stale = TRUE]
        wait(ws) == IF StepOf(i).wait THEN [ws EXCEPT ![i].phase = "waiting"] ELSE ws
    IN  /\ writes[i].phase = "settling" /\ StepsLeft(i) /\ StepOf(i).do = "refresh"
        /\ \/ /\ ~ matches
              /\ writes' = Advanced(i) /\ UNCHANGED entry
           \/ /\ matches /\ ~ Shown
              /\ entry' = MarkUnseen(entry)
              /\ writes' = Advanced(i)
           \/ /\ matches /\ Shown /\ (entry.has \/ entry.fetch = "none")
              /\ entry' = Fetching(marked)
              /\ writes' = wait(Released(Advanced(i)))
           \/ /\ matches /\ Shown /\ ~ entry.has /\ entry.fetch # "none"
              /\ entry' = [entry EXCEPT !.raced = @ \cup {i}]
              /\ writes' = wait(Advanced(i))
        /\ UNCHANGED <<role, page, dialog, watch, moves>>

-----------------------------------------------------------------------------
(* A fetch: read by the API, answered or failed; and time.                 *)
-----------------------------------------------------------------------------
ReadEntry ==
    /\ entry.fetch = "sent"
    /\ entry' = [entry EXCEPT !.fetch = "read", !.next = Stored]
    /\ UNCHANGED <<role, page, dialog, watch, writes, moves>>

EntryArrives ==
    /\ entry.fetch = "read"
    /\ entry' = [entry EXCEPT !.has = TRUE, !.sees = entry.next, !.stale = FALSE,
                              !.failed = FALSE, !.fetch = "none", !.next = {}]
    /\ writes' = Released(writes)
    /\ UNCHANGED <<role, page, dialog, watch, moves>>

\* Also the second time, where there is one.
EntryFails ==
    /\ entry.fetch # "none"
    /\ entry' = [entry EXCEPT !.failed = TRUE, !.fetch = "none", !.next = {}]
    /\ writes' = Released(writes)
    /\ UNCHANGED <<role, page, dialog, watch, moves>>

\* After staleTime. (After gcTime an entry nobody shows is dropped, and
\* fetched when it is shown, as a stale one is.)
Age ==
    /\ entry.has /\ ~ entry.stale
    /\ entry' = [entry EXCEPT !.stale = TRUE]
    /\ UNCHANGED <<role, page, dialog, watch, writes, moves>>

\* refetchInterval, of the health page and the dashboard.
Polled == {<<"health", "providers">>, <<"system", "health">>, <<"dashboard", "summary">>}

Poll ==
    /\ Shown /\ watch \in Polled /\ entry.fetch = "none"
    /\ entry' = Fetching(entry)
    /\ UNCHANGED <<role, page, dialog, watch, writes, moves>>

-----------------------------------------------------------------------------
Init ==
    /\ role \in Users /\ watch \in Watched
    /\ page \in {p \in PagePaths : PageMatters(p)} /\ dialog = "none"
    /\ entry = IF Shown THEN Fetching(NoEntry) ELSE NoEntry
    /\ writes = [i \in Slots |-> Unsent]
    /\ moves = 0

Administrator ==
    \/ \E p \in PagePaths : Go(p)
    \/ \E c \in Here.controls : OpenDialog(c) \/ \E i \in Slots : Submit(c, i)
    \/ CloseDialog \/ Retry

WriteStep(i) ==
    \/ Serve(i) \/ AnswerArrives(i)
    \/ SettleClose(i) \/ SettleGo(i) \/ SettleRefresh(i) \/ SettleDone(i)

FetchStep == ReadEntry \/ EntryArrives \/ EntryFails

Next ==
    \/ Administrator
    \/ \E i \in Slots : WriteStep(i) \/ Lose(i)
    \/ FetchStep \/ Age \/ Poll

Spec == Init /\ [][Next]_vars

-----------------------------------------------------------------------------
\* The writes after which the pages refresh the entries of a kind. The rest
\* of what a write changes is up to date when it is next fetched: at the
\* latest when its page opens thirty seconds later.
Promised ==
    LET provider == "/providers/:providerId"
        model == "/models/:modelId"
        of(p) == {p} \X DOMAIN Routes[p].mutations
        credentials == of("/credentials") \cup {provider} \X DOMAIN CredentialsPanelMutations
    IN  "providers" :> (of("/providers") \cup of(provider) \cup credentials \cup of("/health"))
                           \ {<<provider, "test">>} @@
        "provider" :> ({provider} \X {"edit", "toggle", "test"} \cup credentials
                           \cup {<<"/providers", "edit">>}) @@
        "provider-credentials" :> credentials @@
        "models" :> (of("/models") \cup {model} \X {"edit", "toggle", "delete"}) @@
        "model" :> ({model} \X {"edit", "toggle", "deprecate"} \cup {<<"/models", "edit">>}) @@
        "model-endpoints" :> {model} \X DOMAIN EndpointsPanelMutations @@
        "api-keys" :> of("/api-keys") @@
        "routing" :> (of("/routing") \ {<<"/routing", "simulate">>}) @@
        "admin-users" :> of("/users") @@ "settings" :> of("/settings") @@
        "audit-logs" :> of("/settings") @@ "health" :> of("/health")

\* A write that promises to refresh an entry has a step that does.
ASSUME PromisesAssumption ==
    \A k \in Watched, p \in PagePaths : \A m \in DOMAIN Routes[p].mutations :
        k[1] \in DOMAIN Promised /\ <<p, m>> \in Promised[k[1]] =>
            LET then == Routes[p].mutations[m].then
            IN  \E s \in 1 .. Len(then) : then[s].do = "refresh" /\ IsPrefix(then[s].key, k)

IsPromised(i) ==
    /\ watch[1] \in DOMAIN Promised
    /\ <<writes[i].page, writes[i].name>> \in Promised[watch[1]]

Stale(i) == writes[i].phase = "done" /\ entry.has /\ i \notin entry.sees

\* What a write has changed is not left out of sight: once it is done, the
\* entries its refreshes reach show it, are being fetched, or are marked to be
\* fetched when they are next shown.
OwnWritesShown ==
    \A i \in Slots : Stale(i) /\ IsPromised(i) =>
        \/ i \in entry.raced
        \/ entry.stale /\ ~ Shown
        \/ entry.stale /\ entry.failed
        \/ entry.fetch = "sent"
        \/ entry.fetch = "read" /\ i \in entry.next

\* The API refuses no one what the panel let them ask for.
NothingIsRefused ==
    /\ Shown => role \in CallOf[watch].who
    /\ \A i \in Slots : writes[i].phase = "refused" => writes[i].page = "/settings"

\* No write waits in vain: what it waits for is a fetch that will end, also
\* if the page was left, the fetch aborted or started over by another write.
WaitsForAFetch ==
    \A i \in Slots : writes[i].phase = "waiting" => Shown /\ entry.fetch # "none"
=============================================================================
