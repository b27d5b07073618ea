------------------------------ MODULE NodeLoop ------------------------------
(***************************************************************************)
(* node.go: the goroutine run() that owns a RawNode, and the goroutines    *)
(* that talk to it over unbuffered channels: callers of Propose, Step,     *)
(* Status and Stop, the clock, and the application, which takes Readys,    *)
(* applies configuration changes and answers with Advance.                 *)
(*                                                                         *)
(* The RawNode is reduced to what the loop can lose or delay: the units of *)
(* work (messages, entries, read states) it has produced, and its leader.  *)
(* A receive or send that two goroutines do together is one action. run()  *)
(* computes what it arms at the head of the loop, without a pause before   *)
(* its select, so the head belongs to the action that leads to it.         *)
(***************************************************************************)
EXTENDS Integers, FiniteSets

CONSTANTS
    Proposers,   \* goroutines that call Propose, with a context
    Steppers,    \* goroutines that call Step, Campaign, ReadIndex, Status, ...
    Stoppers,    \* goroutines that call Stop
    Leads,       \* values of raft.lead; 0 is None
    MaxWork,     \* bound: units of work the RawNode produces
    MaxCalls     \* bound: calls by one goroutine

Callers == Proposers \cup Steppers \cup Stoppers

ASSUME LoopAssumption ==
    /\ \A a, b \in {Proposers, Steppers, Stoppers} : a = b \/ a \cap b = {}
    /\ 0 \in Leads /\ Leads \subseteq Nat
    /\ MaxWork \in Nat /\ MaxCalls \in Nat

VARIABLES
    r,      \* the RawNode: async, lead, produced, accepted, steps, prevLead
    run,    \* run()'s locals: pc, readyc, advancec, propc, lead, rd
    call,   \* each caller: pc ("idle", "select", "result"), ctx, n
    app     \* the application: pc, got, lead

vars == <<r, run, call, app>>

NoRd == [upto |-> 0, lead |-> 0]

(***************************************************************************)
(* The head of the loop: a Ready is populated afresh whenever there is     *)
(* something to hand out and no Advance is due; propc is armed as long as  *)
(* there is a leader.                                                      *)
(***************************************************************************)
HasReady(rn) == rn.lead # rn.prevLead \/ rn.accepted < rn.produced

\* Mutant: a Ready that is already offered is not populated again.
LoopHead_Once(rn, s) ==
    LET s1 == IF ~s.advancec /\ ~s.readyc /\ HasReady(rn)
              THEN [s EXCEPT !.readyc = TRUE, !.rd = [upto |-> rn.produced, lead |-> rn.lead]]
              ELSE s
    IN  [s1 EXCEPT !.propc = IF s.lead = rn.lead THEN @ ELSE rn.lead # 0, !.lead = rn.lead]

\* Mutant: proposals are taken once there was a leader.
LoopHead_KeepProps(rn, s) ==
    LET s1 == IF ~s.advancec /\ HasReady(rn)
              THEN [s EXCEPT !.readyc = TRUE, !.rd = [upto |-> rn.produced, lead |-> rn.lead]]
              ELSE s
    IN  [s1 EXCEPT !.propc = @ \/ rn.lead # 0, !.lead = rn.lead]

LoopHead(rn, s) ==
    LET s1 == IF ~s.advancec /\ HasReady(rn)
              THEN [s EXCEPT !.readyc = TRUE, !.rd = [upto |-> rn.produced, lead |-> rn.lead]]
              ELSE s
    IN  [s1 EXCEPT !.propc = IF s.lead = rn.lead THEN @ ELSE rn.lead # 0, !.lead = rn.lead]

Init ==
    /\ \E a \in BOOLEAN :
        r = [async |-> a, lead |-> 0, prevLead |-> 0, produced |-> 0, accepted |-> 0, steps |-> FALSE]
    /\ run = [pc |-> "select", readyc |-> FALSE, advancec |-> FALSE, propc |-> FALSE,
              lead |-> 0, rd |-> NoRd]
    /\ call = [c \in Callers |-> [pc |-> "idle", ctx |-> FALSE, n |-> 0]]
    /\ app = [pc |-> "ready", got |-> 0, lead |-> 0]

Selecting == run.pc = "select"
done      == run.pc = "stopped"

\* The RawNodes that one Step or Tick can leave behind: it may produce work, and
\* it may find or lose a leader. What else they do to raft is Raft's subject.
Stepped(rn) ==
    UNION {{[rn EXCEPT !.produced = p, !.lead = l] : l \in Leads} :
              p \in {rn.produced, rn.produced + 1} \cap 0..MaxWork}

Loop(rn) == r' = rn /\ run' = LoopHead(rn, run)

-----------------------------------------------------------------------------
(* The callers.                                                            *)

Idle(c) == [call EXCEPT ![c].pc = "idle", ![c].ctx = FALSE]

Call(c) ==
    /\ call[c].pc = "idle" /\ call[c].n < MaxCalls
    /\ call' = [call EXCEPT ![c].pc = "select", ![c].n = @ + 1]
    /\ UNCHANGED <<r, run, app>>

\* The context of a call is cancelled; Stop takes none.
Cancel(c) ==
    /\ c \in Proposers \cup Steppers /\ call[c].pc # "idle" /\ ~call[c].ctx
    /\ call' = [call EXCEPT ![c].ctx = TRUE]
    /\ UNCHANGED <<r, run, app>>

\* Mutant: a caller that waits to be taken does not watch done.
GiveUp_NoDone(c) ==
    /\ call[c].pc # "idle" /\ (call[c].ctx \/ (done /\ call[c].pc = "result"))
    /\ call' = Idle(c)
    /\ UNCHANGED <<r, run, app>>

\* The case <-ctx.Done() or <-n.done of whatever select the caller waits in.
GiveUp(c) ==
    /\ call[c].pc # "idle" /\ (call[c].ctx \/ done)
    /\ call' = Idle(c)
    /\ UNCHANGED <<r, run, app>>

\* case pm := <-propc. The result channel is buffered, so run() never waits for
\* a caller that gave up; a dropped proposal is answered too, with an error.
\* ProposeConfChange does not wait for the result.
TakeProp(c) ==
    /\ Selecting /\ run.propc /\ c \in Proposers /\ call[c].pc = "select"
    /\ \E rn \in Stepped(r) : Loop(rn)
    /\ \/ call' = [call EXCEPT ![c].pc = "result"]
       \/ call' = Idle(c)
    /\ UNCHANGED <<app>>

\* case err := <-pm.result
GetResult(c) ==
    /\ c \in Proposers /\ call[c].pc = "result"
    /\ call' = Idle(c)
    /\ UNCHANGED <<r, run, app>>

\* case m := <-n.recvc, with its filter of responses from strangers, and
\* case c := <-n.status, which changes nothing and answers at once.
TakeRecv(c) ==
    /\ Selecting /\ c \in Steppers /\ call[c].pc = "select"
    /\ \E rn \in Stepped(r) \cup {r} : Loop(rn)
    /\ call' = Idle(c)
    /\ UNCHANGED <<app>>

\* case <-n.stop: run() closes done and returns; Stop waits for done.
TakeStop(c) ==
    /\ Selecting /\ c \in Stoppers /\ call[c].pc = "select"
    /\ run' = [run EXCEPT !.pc = "stopped"]
    /\ call' = [call EXCEPT ![c].pc = "result"]
    /\ UNCHANGED <<r, app>>

\* case <-n.tickc. Tick() never waits: it fills a buffer, and drops the tick
\* when the buffer is full, so a tick is there or not whatever run() did.
TakeTick ==
    /\ Selecting
    /\ \E rn \in Stepped(r) : Loop(rn)
    /\ UNCHANGED <<call, app>>

-----------------------------------------------------------------------------
(* The application: it takes a Ready, saves and sends, calls               *)
(* ApplyConfChange if there was a configuration change, and Advance.       *)

\* Mutant: the SoftState of the moment counts as handed out, not the Ready's.
acceptReady_Current(rn, rd) ==
    [rn EXCEPT !.accepted = rn.produced, !.prevLead = rn.lead, !.steps = ~rn.async]

\* acceptReady: whatever the RawNode holds is taken as handed out.
acceptReady(rn, rd) ==
    [rn EXCEPT !.accepted = rn.produced, !.prevLead = rd.lead, !.steps = ~rn.async]

\* case readyc <- rd
SendReady ==
    /\ Selecting /\ run.readyc /\ app.pc = "ready"
    /\ app' = [app EXCEPT !.pc = "handle", !.got = run.rd.upto, !.lead = run.rd.lead]
    /\ r' = acceptReady(r, run.rd)
    /\ run' = LoopHead(r', [run EXCEPT !.readyc = FALSE, !.advancec = ~r.async,
                                   !.rd = IF r.async THEN NoRd ELSE @])
    /\ UNCHANGED <<call>>

\* The Ready held a configuration change, or it did not.
Handle ==
    /\ app.pc = "handle"
    /\ \E pc \in {"confc", IF r.async THEN "ready" ELSE "advance"} :
        app' = [app EXCEPT !.pc = pc]
    /\ UNCHANGED <<r, run, call>>

\* case cc := <-n.confc: switchToConfig may commit, send to the members of the
\* new configuration, and step down from a leadership that it ended. The change
\* may remove this node, and proposals are blocked then. run() waits in an inner
\* select until confstatec is read, and comes to the head of its loop only then.
TakeConf ==
    /\ Selecting /\ app.pc = "confc"
    /\ \E rn \in Stepped(r) : rn.lead \in {0, r.lead} /\ r' = rn
    /\ \E removed \in BOOLEAN :
        run' = [run EXCEPT !.pc = "confstate", !.propc = @ /\ ~removed]
    /\ app' = [app EXCEPT !.pc = "confstate"]
    /\ UNCHANGED <<call>>

SendConfState ==
    /\ run.pc = "confstate" /\ app.pc = "confstate"
    /\ run' = LoopHead(r, [run EXCEPT !.pc = "select"])
    /\ r' = r
    /\ app' = [app EXCEPT !.pc = IF r.async THEN "ready" ELSE "advance"]
    /\ UNCHANGED <<call>>

\* Mutant: advancec stays armed after Advance.
TakeAdvance_KeepArmed ==
    /\ Selecting /\ run.advancec /\ app.pc = "advance"
    /\ app' = [app EXCEPT !.pc = "ready"]
    /\ \E rn \in Stepped(r) :
        /\ r' = [rn EXCEPT !.steps = FALSE]
        /\ run' = LoopHead(r', [run EXCEPT !.rd = NoRd])
    /\ UNCHANGED <<call>>

\* case <-advancec: the messages to itself are stepped.
TakeAdvance ==
    /\ Selecting /\ run.advancec /\ app.pc = "advance"
    /\ app' = [app EXCEPT !.pc = "ready"]
    /\ \E rn \in Stepped(r) :
        /\ r' = [rn EXCEPT !.steps = FALSE]
        /\ run' = LoopHead(r', [run EXCEPT !.advancec = FALSE, !.rd = NoRd])
    /\ UNCHANGED <<call>>

\* Advance and ApplyConfChange return when the node is stopped.
AppDone ==
    /\ done /\ app.pc \in {"confc", "confstate", "advance"}
    /\ app' = [app EXCEPT !.pc = "ready"]
    /\ UNCHANGED <<r, run, call>>

Next ==
    \/ \E c \in Callers :
        \/ Call(c) \/ Cancel(c) \/ GiveUp(c)
        \/ TakeProp(c) \/ GetResult(c) \/ TakeRecv(c) \/ TakeStop(c)
    \/ TakeTick
    \/ SendReady \/ Handle \/ TakeConf \/ SendConfState \/ TakeAdvance \/ AppDone

(***************************************************************************)
(* Fairness. A select picks at random among the cases that are ready, so a *)
(* case that stays ready is picked, and so is one that is ready again and  *)
(* again: Stop competes with run()'s inner select, which takes it away for *)
(* a while. The application comes back for the next Ready (step 4 of       *)
(* doc.go). Nobody has to call, to cancel or to be served, and the clock   *)
(* may stand still or tick for ever.                                       *)
(***************************************************************************)
Fairness ==
    /\ \A c \in Callers : WF_vars(GiveUp(c)) /\ WF_vars(GetResult(c)) /\ SF_vars(TakeStop(c))
    /\ WF_vars(SendReady) /\ WF_vars(TakeConf) /\ WF_vars(TakeAdvance)
    /\ WF_vars(Handle) /\ WF_vars(SendConfState) /\ WF_vars(AppDone)

Spec == Init /\ [][Next]_vars /\ Fairness

-----------------------------------------------------------------------------
(* Properties.                                                             *)

\* What the RawNode takes as handed out is what the application has got:
\* acceptReady clears r.msgs and marks entries as in progress for everything
\* that is there, so a Ready that is offered must never be older than that.
NothingLost == app.got = r.accepted

\* A proposal is taken from a caller only while raft knows a leader, whatever
\* was armed before: otherwise Step would drop it.
ProposalsNeedLeader == Selecting /\ run.propc => r.lead # 0

\* A call that is cancelled, that run() has taken, or that is made to a node that
\* is being stopped, returns: no caller, and not Stop itself, waits for run() for
\* ever, though run() waits for the application and the application for run().
StopRequested == done \/ \E s \in Stoppers : call[s].pc = "select"
MustReturn(c) == call[c].pc # "idle" /\ (call[c].ctx \/ call[c].pc = "result" \/ StopRequested)
CallsReturn == \A c \in Callers : MustReturn(c) ~> call[c].pc = "idle"

\* All that the RawNode produces reaches the application.
Delivered == \A k \in 1..MaxWork : r.produced = k ~> done \/ app.got >= k

\* The application learns of the leader that raft ends up with, though a Ready
\* that was offered can hold a SoftState raft has taken back since.
LeaderSeen == \A l \in Leads : <>[](r.lead = l) => <>[](done \/ app.lead = l)
=============================================================================
