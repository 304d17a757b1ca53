---------------------------- MODULE Instructions ----------------------------
(***************************************************************************)
(* How a controller message reaches the agent's program: the queue and the *)
(* receipts of harness/control.py, the terminal supervisor that takes them *)
(* (harness/interactive_supervisor.py) and the three channels it hands     *)
(* them to: Claude's inbox (inbox_relay.py, claude_inbox.py), Codex's      *)
(* app-server (codex_app_server.py) and Gemini's hook (gemini_delivery.py);*)
(* without a channel, or after it failed, the message is typed.            *)
(*                                                                         *)
(* One conversation: each session of Chain continues the one before.  A    *)
(* supervisor holds messages in hand, one at its delivery worker, and the  *)
(* program holds what it was given and has not read.  All three are lost   *)
(* when they die; queue, receipts and the conversation stay.  Supersession *)
(* (DeliveryOwnership), the owner's own typing and the nudge of a terminal *)
(* at its usage limit are left out.                                        *)
(***************************************************************************)
EXTENDS Naturals, SequencesExt, FiniteSetsExt

CONSTANTS
    Chain,          \* the sessions of the conversation, oldest first
    MessageOrder,   \* the messages, in the order they are queued
    Wakes,          \* those that announce a review to a Reviewer
    Channels,       \* "inbox", "hook", "app-server" or "typed"
    None,
    MaxFailures,    \* STAGE3_FAILURES_BEFORE_FALLBACK
    MaxTroubles,    \* bound: disturbances together
    Kinds           \* the disturbances that happen on each channel

Sessions == Range(Chain)
Messages == Range(MessageOrder)

ASSUME InstructionsAssumption ==
    /\ Chain \in Seq(Sessions) \ {<<>>} /\ IsInjective(Chain)
    /\ MessageOrder \in Seq(Messages) /\ IsInjective(MessageOrder)
    /\ Wakes \subseteq Messages /\ None \notin Sessions \cup Messages
    /\ Channels \subseteq {"inbox", "hook", "app-server", "typed"}
    /\ MaxFailures \in Nat \ {0} /\ MaxTroubles \in Nat

VARIABLES
    receipts,       \* state["instruction_receipts"]
    inbox,          \* state["inbox"]
    session,        \* the status of each session
    run,            \* its supervisor
    cli,            \* what its program was given and has not read
    seen,           \* delivery ids in the conversation's transcript
    read,           \* how often the model was given each message
    pulled,         \* wakes found taken by the withdrawal, not yet discarded
    channel,        \* how messages reach this program
    doubted,        \* history: messages of which nobody knows whether they arrived
    troubles        \* bound

vars == <<receipts, inbox, session, run, cli, seen, read, pulled, channel, doubted, troubles>>

Off == [on |-> "off", hand |-> <<>>, worker |-> None, retry |-> FALSE, step |-> "idle",
        result |-> "none", typing |-> None, posted |-> {}, awaiting |-> {}, dropped |-> {},
        again |-> {}, held |-> FALSE, failures |-> 0, fallback |-> FALSE]

Init ==
    /\ receipts = [m \in Messages |-> [status |-> "none", session |-> None]]
    /\ inbox = [s \in Sessions |-> <<>>]
    /\ session = [s \in Sessions |-> IF s = Chain[1] THEN "running" ELSE "none"]
    /\ run = [s \in Sessions |-> IF s = Chain[1] THEN [Off EXCEPT !.on = "on"] ELSE Off]
    /\ cli = [s \in Sessions |-> <<>>]
    /\ seen = {} /\ read = [m \in Messages |-> 0] /\ pulled = {}
    /\ channel \in Channels
    /\ doubted = {} /\ troubles = 0

Trouble(kind) == kind \in Kinds[channel] /\ troubles < MaxTroubles /\ troubles' = troubles + 1
Active(s) == session[s] \in {"launching", "running"}
Status(m) == receipts[m].status
Closed == {"withdrawn", "discarded", "delivered"}

Item(m, retry) == [id |-> m, retry |-> retry]
Ids(items) == {items[i].id : i \in DOMAIN items}
\* The items at some positions, in their order.
Ascending(positions) == CHOOSE f \in SetToSeqs(positions) : \A i, j \in DOMAIN f : i < j => f[i] < f[j]
Subsequence(items, positions) == [i \in DOMAIN Ascending(positions) |-> items[Ascending(positions)[i]]]
Drop(items, m) == Subsequence(items, {i \in DOMAIN items : items[i].id # m})
Given(s) == Ids(cli[s])

-----------------------------------------------------------------------------
(* The queue: each operation is one transaction of harness/control.py *)

\* enqueue_instruction
Enqueue(m, s) ==
    /\ Active(s) /\ Status(m) = "none"
    /\ \A i \in 2..Len(MessageOrder) : MessageOrder[i] = m => Status(MessageOrder[i - 1]) # "none"
    /\ receipts' = [receipts EXCEPT ![m] = [status |-> "queued", session |-> s]]
    /\ inbox' = [inbox EXCEPT ![s] = Append(@, Item(m, FALSE))]
    /\ UNCHANGED <<session, run, cli, seen, read, pulled, channel, doubted, troubles>>

\* take_instructions, and the loop of the supervisor that calls it.
Take(s) ==
    /\ run[s].on = "on" /\ ~run[s].held /\ inbox[s] # <<>>
    /\ receipts' = [m \in Messages |-> IF m \in Ids(inbox[s])
                       THEN [receipts[m] EXCEPT !.status = "taken"] ELSE receipts[m]]
    /\ inbox' = [inbox EXCEPT ![s] = <<>>]
    /\ run' = [run EXCEPT ![s].hand = @ \o inbox[s]]
    /\ UNCHANGED <<session, cli, seen, read, pulled, channel, doubted, troubles>>

\* MUTANT of Returnable: only the wakes go back, the rest is forgotten.
ReturnableWakes(items) == Subsequence(items, {i \in DOMAIN items : items[i].id \in Wakes})

\* return_instructions puts back what is still "taken".
Returnable(items) == Subsequence(items, {i \in DOMAIN items : Status(items[i].id) = "taken"})

Requeued(back) == [m \in Messages |-> IF m \in Ids(back)
                      THEN [receipts[m] EXCEPT !.status = "queued"] ELSE receipts[m]]

\* A menu the owner must answer: the hand goes back and nothing is taken.
MenuShows(s) ==
    LET back == Returnable(run[s].hand)
    IN /\ run[s].on = "on" /\ ~run[s].held /\ Trouble("menu")
       /\ receipts' = Requeued(back)
       /\ inbox' = [inbox EXCEPT ![s] = back \o @]
       /\ run' = [run EXCEPT ![s].held = TRUE, ![s].hand = <<>>]
       /\ UNCHANGED <<session, cli, seen, read, pulled, channel, doubted>>

MenuGone(s) ==
    /\ run[s].on = "on" /\ run[s].held
    /\ run' = [run EXCEPT ![s].held = FALSE]
    /\ UNCHANGED <<receipts, inbox, session, cli, seen, read, pulled, channel, doubted, troubles>>

\* _withdraw_reviewer_wake: withdraw_instruction, and for a wake that was
\* taken, in a second transaction, discard_instruction.
Withdraw(m) ==
    /\ m \in Wakes \ pulled /\ Trouble("withdraw")
    /\ Status(m) \in {"queued", "taken", "posted"}
    /\ IF Status(m) = "queued"
       THEN /\ receipts' = [receipts EXCEPT ![m].status = "withdrawn"]
            /\ inbox' = [inbox EXCEPT ![receipts[m].session] = Drop(@, m)]
            /\ UNCHANGED pulled
       ELSE /\ pulled' = IF Status(m) = "taken" THEN pulled \cup {m} ELSE pulled
            /\ UNCHANGED <<receipts, inbox>>
    /\ UNCHANGED <<session, run, cli, seen, read, channel, doubted>>

Discarded(m) ==
    /\ receipts' = IF Status(m) \in {"queued", "taken"}
                   THEN [receipts EXCEPT ![m].status = "discarded"] ELSE receipts
    /\ inbox' = [inbox EXCEPT ![receipts[m].session] = Drop(@, m)]

Discard(m) ==
    /\ m \in pulled
    /\ Discarded(m)
    /\ pulled' = pulled \ {m}
    /\ UNCHANGED <<session, run, cli, seen, read, channel, doubted, troubles>>

\* invalidate_review_wakes: the reservation the wake announced has expired.
Invalidate(m) ==
    /\ m \in Wakes /\ Status(m) \in {"queued", "taken"} /\ Trouble("expire")
    /\ Discarded(m)
    /\ UNCHANGED <<session, run, cli, seen, read, pulled, channel, doubted>>

\* acknowledge_instruction: only of what was taken or posted for this session.
Acknowledged(rs, s, ids) ==
    [m \in Messages |-> IF m \in ids /\ rs[m].session = s /\ rs[m].status \in {"taken", "posted"}
                        THEN [rs[m] EXCEPT !.status = "delivered"] ELSE rs[m]]
\* mark_posted
Posted(rs, s, ids) ==
    [m \in Messages |-> IF m \in ids /\ rs[m].session = s /\ rs[m].status = "taken"
                        THEN [rs[m] EXCEPT !.status = "posted"] ELSE rs[m]]

-----------------------------------------------------------------------------
(* The supervisor *)

\* MUTANT of Current: the receipt is not looked at before a delivery.
CurrentUnchecked(m) == TRUE

\* _assignment_still_current: a wake that was taken back is dropped.
Current(m) == m \in Wakes => Status(m) \notin {"withdrawn", "discarded"}

Delivers(s) == channel # "typed" /\ ~run[s].fallback
MayWrite(s) == run[s].on = "on" /\ ~run[s].held /\ run[s].hand # <<>>
Tip(s) == Head(run[s].hand)

\* The first message in hand goes to the delivery worker.
Submit(s) ==
    /\ MayWrite(s) /\ Delivers(s) /\ run[s].worker = None /\ run[s].result = "none"
    /\ run' = [run EXCEPT ![s].hand = Tail(@),
                          ![s].worker = IF Current(Tip(s).id) THEN Tip(s).id ELSE None,
                          ![s].retry = Tip(s).retry,
                          ![s].step = IF Current(Tip(s).id) THEN "check" ELSE "idle"]
    /\ UNCHANGED <<receipts, inbox, session, cli, seen, read, pulled, channel, doubted, troubles>>

\* Typing: into a terminal without a working channel, and with a hook also
\* into an idle one.  A retry is looked for in the conversation first.
\* The write, then its receipt.
TypeWrite(s) ==
    LET m == Tip(s).id
        arrived == Tip(s).retry /\ channel # "typed" /\ m \in seen
        marked == channel = "hook"
    IN /\ MayWrite(s) /\ run[s].typing = None
       /\ ~Delivers(s) \/ (channel = "hook" /\ cli[s] = <<>>)
       /\ IF ~Current(m) \/ arrived
          THEN /\ run' = [run EXCEPT ![s].hand = Tail(@)]
               /\ receipts' = IF arrived THEN Acknowledged(receipts, s, {m}) ELSE receipts
               /\ UNCHANGED cli
          ELSE /\ run' = [run EXCEPT ![s].hand = Tail(@), ![s].typing = m]
               /\ cli' = [cli EXCEPT ![s] = Append(@, Item(m, marked))]
               /\ UNCHANGED receipts
       /\ UNCHANGED <<inbox, session, seen, read, pulled, channel, doubted, troubles>>

TypeRecord(s) ==
    LET m == run[s].typing
    IN /\ run[s].on = "on" /\ m # None
       /\ IF channel = "hook"
          THEN /\ receipts' = Posted(receipts, s, {m})
               /\ run' = [run EXCEPT ![s].typing = None, ![s].posted = @ \cup {m},
                                     ![s].awaiting = @ \cup {m}]
          ELSE /\ receipts' = Acknowledged(receipts, s, {m})
               /\ run' = [run EXCEPT ![s].typing = None]
       /\ UNCHANGED <<inbox, session, cli, seen, read, pulled, channel, doubted, troubles>>

-----------------------------------------------------------------------------
(* The delivery worker *)

Answer(s, result) ==
    run' = [run EXCEPT ![s].step = "idle", ![s].result = result]

\* MUTANT of AlreadyThere: a retry is sent without a look.
AlreadyThereNever(s) == FALSE

\* already_delivered for a retry; inbox and hook look before every delivery.
AlreadyThere(s) == run[s].worker \in seen /\ (run[s].retry \/ channel \in {"inbox", "hook"})

WorkerSend(s) ==
    /\ run[s].on # "off" /\ run[s].step = "check"
    /\ \/ AlreadyThere(s) /\ Answer(s, "delivered") /\ UNCHANGED <<cli, doubted, troubles>>
       \/ ~AlreadyThere(s) /\ Trouble("busy") /\ Answer(s, "not_ready") /\ UNCHANGED <<cli, doubted>>
       \/ /\ ~AlreadyThere(s)
          /\ cli' = [cli EXCEPT ![s] = Append(@, Item(run[s].worker, TRUE))]
          /\ \/ run' = [run EXCEPT ![s].step = "wait"] /\ UNCHANGED <<doubted, troubles>>
             \/ /\ Trouble("slow") /\ Answer(s, "unconfirmed")
                /\ doubted' = doubted \cup {run[s].worker}
    /\ UNCHANGED <<receipts, inbox, session, seen, read, pulled, channel>>

\* Until its receipt appears, or the wait for it ends.
WorkerWait(s) ==
    LET m == run[s].worker
    IN /\ run[s].on # "off" /\ run[s].step = "wait"
       /\ \/ m \in seen /\ Answer(s, "delivered")
          \/ m \in run[s].dropped /\ run' = [run EXCEPT ![s].step = "idle", ![s].result = "dropped",
                                                       ![s].dropped = @ \ {m}]
          \/ m \notin seen \cup run[s].dropped
             /\ run' = [run EXCEPT ![s].step = "idle", ![s].result = "posted",
                                   ![s].awaiting = @ \cup {m}]
       /\ UNCHANGED <<receipts, inbox, session, cli, seen, read, pulled, channel, doubted, troubles>>

Fell(n) == n >= MaxFailures

\* _stage3_tick: the outcome of the worker.
TakeOutcome(s) ==
    LET m == run[s].worker
        result == run[s].result
        idle == [run[s] EXCEPT !.worker = None, !.result = "none", !.retry = FALSE]
        failed == run[s].failures + 1
    IN /\ run[s].on = "on" /\ result # "none"
       /\ CASE result = "delivered" ->
                 /\ receipts' = Acknowledged(receipts, s, {m})
                 /\ run' = [run EXCEPT ![s] = [idle EXCEPT !.failures = 0]]
            [] result = "posted" ->
                 /\ receipts' = Posted(receipts, s, {m})
                 /\ run' = [run EXCEPT ![s] = [idle EXCEPT !.posted = @ \cup {m}]]
            [] result \in {"dropped", "not_ready", "unconfirmed"} ->
                 /\ run' = [run EXCEPT ![s] =
                       [idle EXCEPT !.hand = <<Item(m, result # "not_ready")>> \o @,
                                    !.failures = IF result = "unconfirmed" THEN failed ELSE @,
                                    !.fallback = @ \/ (result = "unconfirmed" /\ Fell(failed))]]
                 /\ UNCHANGED receipts
       /\ UNCHANGED <<inbox, session, cli, seen, read, pulled, channel, doubted, troubles>>

\* take_receipts: delivery ids that have appeared.
ReceiptSeen(s) ==
    LET came == run[s].awaiting \cap seen
    IN /\ run[s].on = "on" /\ came # {}
       /\ receipts' = Acknowledged(receipts, s, came)
       /\ run' = [run EXCEPT ![s].awaiting = @ \ came, ![s].posted = @ \ came, ![s].failures = 0]
       /\ UNCHANGED <<inbox, session, cli, seen, read, pulled, channel, doubted, troubles>>

\* An id that has not appeared in time: Claude holds the message, so it counts
\* as delivered; Gemini is given it once more.
ReceiptOverdue(s) ==
    /\ run[s].on = "on" /\ channel # "app-server"
    /\ \E m \in (run[s].awaiting \cap run[s].posted) \ seen :
         LET late == [run[s] EXCEPT !.awaiting = @ \ {m}, !.posted = @ \ {m},
                                    !.failures = @ + 1, !.fallback = @ \/ Fell(run[s].failures + 1)]
             held == m \in Given(s)
             again == channel = "hook" /\ m \notin run[s].again
         IN /\ IF held THEN Trouble("overdue") ELSE UNCHANGED troubles
            /\ run' = [run EXCEPT ![s] = IF again THEN [late EXCEPT !.hand = <<Item(m, TRUE)>> \o @,
                                                                   !.again = @ \cup {m}]
                                         ELSE late]
            /\ receipts' = IF channel = "hook" THEN receipts ELSE Acknowledged(receipts, s, {m})
            /\ doubted' = IF again /\ held THEN doubted \cup {m} ELSE doubted
    /\ UNCHANGED <<inbox, session, cli, seen, read, pulled, channel>>

\* take_dropped: steered into a turn that ended before the model read it.
TakeDropped(s) ==
    /\ run[s].on = "on"
    /\ \E m \in run[s].dropped \cap run[s].posted :
         run' = [run EXCEPT ![s].hand = <<Item(m, TRUE)>> \o @, ![s].dropped = @ \ {m},
                            ![s].posted = @ \ {m}, ![s].awaiting = @ \ {m}]
    /\ UNCHANGED <<receipts, inbox, session, cli, seen, read, pulled, channel, doubted, troubles>>

-----------------------------------------------------------------------------
(* The program *)

CliReads(s) ==
    LET item == Head(cli[s])
    IN /\ run[s].on # "off" /\ cli[s] # <<>>
       /\ cli' = [cli EXCEPT ![s] = Tail(@)]
       /\ read' = [read EXCEPT ![item.id] = @ + 1]
       /\ seen' = IF item.retry THEN seen \cup {item.id} ELSE seen
       /\ UNCHANGED <<receipts, inbox, session, run, pulled, channel, doubted, troubles>>

\* A turn that ends before its steered message is used; a request the program
\* refused, of which the hook learns nothing.
CliLoses(s) ==
    /\ run[s].on # "off" /\ cli[s] # <<>> /\ Head(cli[s]).retry
    /\ channel \in {"app-server", "hook"} /\ Trouble("lose")
    /\ cli' = [cli EXCEPT ![s] = Tail(@)]
    /\ run' = IF channel = "app-server" THEN [run EXCEPT ![s].dropped = @ \cup {Head(cli[s]).id}]
              ELSE run
    /\ UNCHANGED <<receipts, inbox, session, seen, read, pulled, channel, doubted>>

-----------------------------------------------------------------------------
(* The end of a run, and the next one *)

\* SIGTERM: the program is stopped, then what was not sent goes back ...
End(s) ==
    LET back == Returnable(run[s].hand)
    IN /\ run[s].on = "on" /\ run[s].typing = None /\ Trouble("end")
       /\ receipts' = Requeued(back)
       /\ inbox' = [inbox EXCEPT ![s] = back \o @]
       /\ run' = [run EXCEPT ![s].on = "ending", ![s].hand = <<>>]
       /\ cli' = [cli EXCEPT ![s] = <<>>]
       /\ UNCHANGED <<session, seen, read, pulled, channel, doubted>>

\* ... and what the worker has in flight counts as posted.
EndRecord(s) ==
    /\ run[s].on = "ending"
    /\ receipts' = IF run[s].step # "idle" THEN Posted(receipts, s, {run[s].worker}) ELSE receipts
    /\ run' = [run EXCEPT ![s] = Off]
    /\ session' = [session EXCEPT ![s] = "ended"]
    /\ cli' = [cli EXCEPT ![s] = <<>>]
    /\ UNCHANGED <<inbox, seen, read, pulled, channel, doubted, troubles>>

Kill(s) ==
    /\ run[s].on # "off" /\ Trouble("kill")
    /\ run' = [run EXCEPT ![s] = Off]
    /\ session' = [session EXCEPT ![s] = "ended"]
    /\ cli' = [cli EXCEPT ![s] = <<>>]
    /\ doubted' = IF channel = "hook" THEN doubted ELSE doubted \cup ({run[s].typing} \ {None})
    /\ UNCHANGED <<receipts, inbox, seen, read, pulled, channel>>

Newest(s) == \A i, j \in DOMAIN Chain : Chain[i] = s /\ j > i => session[Chain[j]] = "none"

\* prepare_resume_sessions: the terminal is to be opened again.
Relaunch(s) ==
    /\ session[s] = "ended" /\ Newest(s)
    /\ session' = [session EXCEPT ![s] = "launching"]
    /\ UNCHANGED <<receipts, inbox, run, cli, seen, read, pulled, channel, doubted, troubles>>

\* MUTANT of Stranded: only what was taken and not sent.
StrandedTaken(s) == {m \in Messages : receipts[m].session = s /\ Status(m) = "taken"}

\* reclaim_stranded: what the last run of this terminal left in flight.
Stranded(s) == {m \in Messages : receipts[m].session = s /\ Status(m) \in {"taken", "posted"}
                                 /\ m \notin Ids(inbox[s])}

InOrder(ids) == Subsequence(MessageOrder, {i \in DOMAIN MessageOrder : MessageOrder[i] \in ids})
Carried(ids) == [i \in DOMAIN InOrder(ids) |-> Item(InOrder(ids)[i], TRUE)]

\* The supervisor starts: attach, then reclaim_stranded.
StartRun(s) ==
    /\ session[s] = "launching"
    /\ session' = [session EXCEPT ![s] = "running"]
    /\ run' = [run EXCEPT ![s] = [Off EXCEPT !.on = "on"]]
    /\ receipts' = [m \in Messages |-> IF m \in Stranded(s)
                       THEN [receipts[m] EXCEPT !.status = "queued"] ELSE receipts[m]]
    /\ inbox' = [inbox EXCEPT ![s] = Carried(Stranded(s)) \o @]
    /\ UNCHANGED <<cli, seen, read, pulled, channel, doubted, troubles>>

\* _inherit_cli_memory: a new session continues the ended one, with every
\* message that one had not delivered.
Continue(i) ==
    LET old == Chain[i]
        new == Chain[i + 1]
        open == {m \in Messages : receipts[m].session = old /\ Status(m) \in {"queued", "taken", "posted"}}
    IN /\ session[old] = "ended" /\ session[new] = "none"
       /\ session' = [session EXCEPT ![new] = "launching"]
       /\ receipts' = [m \in Messages |-> IF m \in open THEN [status |-> "queued", session |-> new]
                                          ELSE receipts[m]]
       /\ inbox' = [inbox EXCEPT ![old] = <<>>, ![new] = Carried(open) \o @]
       /\ UNCHANGED <<run, cli, seen, read, pulled, channel, doubted, troubles>>

-----------------------------------------------------------------------------
Working(s) ==
    \/ Take(s) \/ Submit(s) \/ TypeWrite(s) \/ TypeRecord(s)
    \/ WorkerSend(s) \/ WorkerWait(s) \/ TakeOutcome(s)
    \/ ReceiptSeen(s) \/ TakeDropped(s) \/ EndRecord(s)

Next ==
    \/ \E s \in Sessions :
         \/ Working(s) \/ CliReads(s) \/ ReceiptOverdue(s) \/ CliLoses(s)
         \/ MenuShows(s) \/ MenuGone(s)
         \/ End(s) \/ Kill(s) \/ Relaunch(s) \/ StartRun(s)
         \/ \E m \in Messages : Enqueue(m, s)
    \/ \E m \in Messages : Withdraw(m) \/ Discard(m) \/ Invalidate(m)
    \/ \E i \in 1..(Len(Chain) - 1) : Continue(i)

Spec == Init /\ [][Next]_vars

\* A live supervisor keeps working, its program reads what it was given and the
\* owner answers a menu; nobody has to open a terminal again.
Fairness ==
    \A s \in Sessions :
        /\ WF_vars(Take(s)) /\ WF_vars(Submit(s)) /\ WF_vars(TypeWrite(s)) /\ WF_vars(TypeRecord(s))
        /\ WF_vars(WorkerSend(s)) /\ WF_vars(WorkerWait(s)) /\ WF_vars(TakeOutcome(s))
        /\ WF_vars(ReceiptSeen(s)) /\ WF_vars(ReceiptOverdue(s)) /\ WF_vars(TakeDropped(s)) /\ WF_vars(EndRecord(s))
        /\ WF_vars(CliReads(s)) /\ WF_vars(MenuGone(s))

FairSpec == Spec /\ Fairness

-----------------------------------------------------------------------------
\* Every variable has its shape.
TypeOK ==
    /\ \A m \in Messages : /\ Status(m) \in {"none", "queued", "taken", "posted"} \cup Closed
                           /\ receipts[m].session \in Sessions \cup {None}
                           /\ read[m] \in Nat
    /\ \A s \in Sessions : /\ session[s] \in {"none", "launching", "running", "ended"}
                           /\ Ids(inbox[s]) \cup Given(s) \cup Ids(run[s].hand) \subseteq Messages
                           /\ run[s].worker \in Messages \cup {None}
                           /\ run[s].failures \in Nat
    /\ seen \cup doubted \subseteq Messages /\ pulled \subseteq Wakes /\ troubles \in 0..MaxTroubles

InFlight(s) == (Ids(run[s].hand) \cup {run[s].worker, run[s].typing} \cup run[s].posted) \ {None}
Places(m) == UNION {{s} \X {i \in DOMAIN inbox[s] : inbox[s][i].id = m} : s \in Sessions}

\* A message is in one place: what is queued stands once, in the queue of the
\* session its receipt names, in nobody's hand; what is not queued stands in no
\* queue, after returns, withdrawals, reclaims and successions in any order;
\* and what a live supervisor has taken is in its hand, at its worker, or
\* posted and awaited (a hook message sent twice without a receipt is left for
\* the next run) (control.py return_instructions, reclaim_stranded,
\* _inherit_cli_memory, interactive_supervisor.py _stage3_tick).
Queued(m) ==
    IF Status(m) = "queued"
    THEN /\ Cardinality(Places(m)) = 1 /\ m \in Ids(inbox[receipts[m].session])
         /\ \A s \in Sessions : m \notin InFlight(s)
    ELSE Places(m) = {}
Remembered(m) ==
    \A s \in Sessions :
        run[s].on = "on" /\ receipts[m].session = s /\ Status(m) \in {"taken", "posted"}
            => m \in InFlight(s) \cup run[s].again
OnePlace == TypeOK /\ \A m \in Messages : Queued(m) /\ Remembered(m)

\* The model is given a message once, however often its terminal ends, is killed
\* or continued while the message is on its way, on every channel, but for a
\* message in doubt: its send went unanswered, it was typed and the run killed
\* before it recorded that, or its receipt was overdue while Gemini still held it
\* (inbox_relay.py, claude_inbox.py deliver, interactive_supervisor.py _stage3_tick).
ReadOnce == \A m \in Messages : read[m] <= 1 \/ m \in doubted

\* A wake that was taken back before it was handed over stays out of the program
\* (control.py withdraw_instruction, discard_instruction,
\* interactive_supervisor.py _assignment_still_current).
Handed(m) == \E s \in Sessions : m \in Given(s) \/ m \in {run[s].worker, run[s].typing}
TakenBackStaysOut ==
    [][\A m \in Wakes : Status(m) \in {"withdrawn", "discarded"} /\ ~Handed(m) => ~Handed(m)']_vars

\* A message for a terminal that stays open is delivered or taken back, if it is
\* not one the hook has sent twice (interactive_supervisor.py _stage3_tick).
Arrives ==
    \A s \in Sessions, m \in Messages :
        (run[s].on = "on" /\ receipts[m].session = s /\ Status(m) \in {"queued", "taken", "posted"})
            ~> (run[s].on # "on" \/ Status(m) \in Closed \/ m \in run[s].again)
=============================================================================
