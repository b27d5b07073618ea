----------------------------- MODULE NodeProofs -----------------------------
(***************************************************************************)
(* What the application goes through a Node for: the loop that it shares   *)
(* with all other callers, and the configuration changes that it hands to  *)
(* raft.applyConfChange.                                                   *)
(*                                                                         *)
(* node.run, for any number of callers: nothing that the RawNode produces  *)
(* is lost on its way to the application, and proposals are taken only     *)
(* while there is a leader. Both rest on what the head of the loop keeps   *)
(* up between two turns. A Ready that is offered may be populated many     *)
(* times before it is taken; it is never older than the work the RawNode   *)
(* has produced, because work that is added makes the next head populate   *)
(* it again.                                                               *)
(*                                                                         *)
(* Configuration changes, for any servers and any number of changes in one *)
(* entry: what the leader admits is refused exactly if its checks leave it *)
(* out, a restart finds the configuration again, the quorums before and    *)
(* after a change meet, and a voter keeps its Progress.                    *)
(***************************************************************************)
EXTENDS NodeLoop, MCConfChange, QuorumProofs

-----------------------------------------------------------------------------
(* node.run.                                                               *)

RawNodeType == [async : BOOLEAN, lead : Leads, prevLead : Leads, produced : Nat,
                accepted : Nat, steps : BOOLEAN]

RunType == [pc : {"select", "confstate", "stopped"}, readyc : BOOLEAN, advancec : BOOLEAN,
            propc : BOOLEAN, lead : Leads, rd : [upto : Nat, lead : Leads]]

AppType == [pc : {"ready", "handle", "confc", "confstate", "advance"}, got : Nat, lead : Leads]

\* What run()'s locals s say of the RawNode rn from one turn to the next.
Tracks(rn, s) ==
    /\ s.lead = rn.lead
    /\ s.propc => rn.lead # 0
    /\ s.readyc => ~s.advancec /\ s.rd.upto = rn.produced
    /\ rn.accepted <= rn.produced

\* A configuration change has moved the RawNode on to rn since the last turn: it
\* may have lost its leader, and produced more.
Trails(rn, s) ==
    \E old \in RawNodeType :
        /\ Tracks(old, s)
        /\ old.accepted = rn.accepted /\ old.prevLead = rn.prevLead
        /\ old.produced <= rn.produced

LoopInv ==
    /\ r \in RawNodeType /\ run \in RunType /\ app \in AppType
    /\ IF run.pc = "confstate" THEN Trails(r, run) ELSE Tracks(r, run)
    /\ app.got = r.accepted

-----------------------------------------------------------------------------
(* The head of the loop.                                                   *)

\* The head establishes what the locals say of the RawNode, whatever a Step has
\* done to it since the last turn: produced more, found or lost a leader.
LEMMA HeadTracks ==
    ASSUME NEW rn \in RawNodeType, NEW s \in RunType, NEW old \in RawNodeType,
           Tracks(old, s), old.accepted = rn.accepted,
           old.produced <= rn.produced, rn.prevLead = old.prevLead
    PROVE  LoopHead(rn, s) \in RunType /\ Tracks(rn, LoopHead(rn, s)) /\ LoopHead(rn, s).pc = s.pc
<1>. DEFINE s1 == IF ~s.advancec /\ HasReady(rn)
                  THEN [s EXCEPT !.readyc = TRUE,
                                 !.rd = [upto |-> rn.produced, lead |-> rn.lead]]
                  ELSE s
            h  == LoopHead(rn, s)
<1>1. s1 \in RunType /\ s1.pc = s.pc /\ s1.propc = s.propc /\ s1.advancec = s.advancec
  BY DEF RunType, RawNodeType
<1>2. h = [s1 EXCEPT !.propc = IF s.lead = rn.lead THEN @ ELSE rn.lead # 0, !.lead = rn.lead]
  BY DEF LoopHead
<1>3. /\ h \in RunType /\ h.pc = s.pc /\ h.lead = rn.lead
      /\ h.propc = (IF s.lead = rn.lead THEN s.propc ELSE rn.lead # 0)
      /\ h.readyc = s1.readyc /\ h.rd = s1.rd /\ h.advancec = s.advancec
  BY <1>1, <1>2 DEF RunType, RawNodeType
<1>4. h.propc => rn.lead # 0
  BY <1>3 DEF Tracks
<1>5. h.readyc => ~h.advancec /\ h.rd.upto = rn.produced
  <2>1. CASE ~s.advancec /\ HasReady(rn)
    <3>1. s1.rd.upto = rn.produced
      BY <2>1 DEF RunType
    <3>. QED
      BY <1>3, <2>1, <3>1
  <2>2. CASE ~(~s.advancec /\ HasReady(rn))
    <3>1. s1 = s
      BY <2>2
    <3>2. ~s.advancec => rn.accepted >= rn.produced
      BY <2>2 DEF HasReady, RawNodeType
    <3>3. old.accepted <= old.produced
      BY DEF Tracks
    <3>4. s.readyc => ~s.advancec /\ s.rd.upto = old.produced
      BY DEF Tracks
    <3>5. ~s.advancec => old.produced = rn.produced
      BY <3>2, <3>3 DEF RawNodeType
    <3>. QED
      BY <1>3, <3>1, <3>4, <3>5
  <2>. QED
    BY <2>1, <2>2
<1>6. rn.accepted <= rn.produced
  BY DEF Tracks, RawNodeType
<1>. QED
  BY <1>3, <1>4, <1>5, <1>6 DEF Tracks

\* What a Step or a Tick leaves behind.
LEMMA SteppedFacts ==
    ASSUME r \in RawNodeType, NEW rn \in Stepped(r)
    PROVE  /\ rn \in RawNodeType /\ rn.accepted = r.accepted /\ rn.prevLead = r.prevLead
           /\ r.produced <= rn.produced
<1>1. PICK p \in {r.produced, r.produced + 1} \cap 0..MaxWork :
        rn \in {[r EXCEPT !.produced = p, !.lead = l] : l \in Leads}
  BY DEF Stepped
<1>2. PICK l \in Leads : rn = [r EXCEPT !.produced = p, !.lead = l]
  BY <1>1
<1>3. p \in Nat /\ r.produced <= p
  BY LoopAssumption DEF RawNodeType
<1>. QED
  BY <1>2, <1>3 DEF RawNodeType

-----------------------------------------------------------------------------
(* The invariant.                                                          *)

\* run() takes a message or a tick, steps the RawNode and comes round.
LEMMA LoopKeepsInv ==
    ASSUME LoopInv, Selecting, NEW rn \in Stepped(r) \cup {r}, Loop(rn), app' = app
    PROVE  LoopInv'
<1>1. /\ rn \in RawNodeType /\ rn.accepted = r.accepted /\ rn.prevLead = r.prevLead
      /\ r.produced <= rn.produced
  <2>1. CASE rn \in Stepped(r)
    BY <2>1, SteppedFacts DEF LoopInv
  <2>2. CASE rn = r
    BY <2>2 DEF LoopInv, RawNodeType
  <2>. QED
    BY <2>1, <2>2
<1>2. run.pc = "select" /\ Tracks(r, run)
  BY DEF LoopInv, Selecting
<1>3. /\ LoopHead(rn, run) \in RunType /\ Tracks(rn, LoopHead(rn, run))
      /\ LoopHead(rn, run).pc = "select"
  BY <1>1, <1>2, HeadTracks DEF LoopInv
<1>. QED
  BY <1>1, <1>3 DEF LoopInv, Loop

\* The application takes the Ready on offer: it gets all that is produced.
LEMMA SendReadyKeepsInv ==
    ASSUME LoopInv, SendReady
    PROVE  LoopInv'
<1>. DEFINE rn == acceptReady(r, run.rd)
            s  == [run EXCEPT !.readyc = FALSE, !.advancec = ~r.async,
                              !.rd = IF r.async THEN NoRd ELSE @]
<1>1. /\ r' = rn /\ run' = LoopHead(rn, s)
      /\ app' = [app EXCEPT !.pc = "handle", !.got = run.rd.upto, !.lead = run.rd.lead]
      /\ run.readyc /\ run.pc = "select" /\ Tracks(r, run)
  BY DEF SendReady, Selecting, LoopInv
<1>2. /\ rn \in RawNodeType /\ rn.accepted = r.produced /\ rn.produced = r.produced
      /\ rn.lead = r.lead
  BY DEF acceptReady, LoopInv, RawNodeType, RunType
<1>3. s \in RunType /\ s.pc = "select"
  BY <1>1, LoopAssumption DEF LoopInv, RawNodeType, RunType, NoRd
<1>4. Tracks(rn, s)
  BY <1>1, <1>2, <1>3 DEF LoopInv, Tracks, RunType, RawNodeType
<1>5. /\ LoopHead(rn, s) \in RunType /\ Tracks(rn, LoopHead(rn, s))
      /\ LoopHead(rn, s).pc = "select"
  <2>. HIDE DEF rn, s
  <2>1. rn.produced <= rn.produced
    BY <1>2 DEF RawNodeType
  <2>. QED
    BY <1>2, <1>3, <1>4, <2>1, HeadTracks
<1>6. app' \in AppType /\ app'.got = r.produced
  BY <1>1 DEF LoopInv, AppType, RunType, Tracks
<1>. QED
  BY <1>1, <1>2, <1>5, <1>6 DEF LoopInv

\* Advance: the messages to itself are stepped, and run() comes round.
LEMMA TakeAdvanceKeepsInv ==
    ASSUME LoopInv, TakeAdvance
    PROVE  LoopInv'
<1>1. PICK q \in Stepped(r) :
        /\ r' = [q EXCEPT !.steps = FALSE]
        /\ run' = LoopHead(r', [run EXCEPT !.advancec = FALSE, !.rd = NoRd])
  BY DEF TakeAdvance
<1>. DEFINE s == [run EXCEPT !.advancec = FALSE, !.rd = NoRd]
<1>2. /\ r' \in RawNodeType /\ r'.accepted = r.accepted /\ r'.prevLead = r.prevLead
      /\ r.produced <= r'.produced
  BY <1>1, SteppedFacts DEF LoopInv, RawNodeType
<1>3. s \in RunType /\ Tracks(r, s) /\ s.pc = "select"
  BY LoopAssumption DEF TakeAdvance, Selecting, LoopInv, Tracks, RunType, NoRd
<1>4. run' \in RunType /\ Tracks(r', run') /\ run'.pc = "select"
  BY <1>1, <1>2, <1>3, HeadTracks DEF LoopInv
<1>5. app' \in AppType /\ app'.got = app.got
  BY DEF TakeAdvance, LoopInv, AppType
<1>. QED
  BY <1>2, <1>4, <1>5 DEF LoopInv

\* ApplyConfChange: the RawNode moves on and run() may let no more proposals in;
\* it comes round when the application has read the ConfState.
LEMMA TakeConfKeepsInv ==
    ASSUME LoopInv, TakeConf
    PROVE  LoopInv'
<1>1. PICK removed \in BOOLEAN :
        run' = [run EXCEPT !.pc = "confstate", !.propc = @ /\ ~removed]
  BY DEF TakeConf
<1>2. Tracks(r, run)
  BY DEF TakeConf, Selecting, LoopInv
<1>3. run' \in RunType /\ Tracks(r, run') /\ run'.pc = "confstate"
  BY <1>1, <1>2 DEF LoopInv, Tracks, RunType
<1>4. /\ r' \in RawNodeType /\ r'.accepted = r.accepted /\ r'.prevLead = r.prevLead
      /\ r.produced <= r'.produced
  BY SteppedFacts DEF TakeConf, LoopInv
<1>5. Trails(r', run')
  BY <1>3, <1>4 DEF Trails, LoopInv
<1>6. app' \in AppType /\ app'.got = app.got
  BY DEF TakeConf, LoopInv, AppType
<1>. QED
  BY <1>3, <1>4, <1>5, <1>6 DEF LoopInv

LEMMA SendConfStateKeepsInv ==
    ASSUME LoopInv, SendConfState
    PROVE  LoopInv'
<1>. DEFINE s == [run EXCEPT !.pc = "select"]
<1>1. Trails(r, run)
  BY DEF SendConfState, LoopInv
<1>2. PICK old \in RawNodeType :
        /\ Tracks(old, run)
        /\ old.accepted = r.accepted /\ old.prevLead = r.prevLead
        /\ old.produced <= r.produced
  BY <1>1 DEF Trails
<1>3. s \in RunType /\ Tracks(old, s) /\ s.pc = "select"
  BY <1>2 DEF LoopInv, Tracks, RunType
<1>4. LoopHead(r, s) \in RunType /\ Tracks(r, LoopHead(r, s)) /\ LoopHead(r, s).pc = "select"
  BY <1>2, <1>3, HeadTracks DEF LoopInv
<1>5. r' = r /\ run' = LoopHead(r, s) /\ app' \in AppType /\ app'.got = app.got
  BY DEF SendConfState, LoopInv, AppType
<1>. QED
  BY <1>4, <1>5 DEF LoopInv

\* What leaves the RawNode, run()'s locals and what the application has got alone.
LEMMA ElsewhereKeepsInv ==
    ASSUME LoopInv, r' = r, run' = run, app' \in AppType, app'.got = app.got
    PROVE  LoopInv'
<1>1. CASE run.pc = "confstate"
  <2>1. Trails(r', run')
    BY <1>1 DEF LoopInv
  <2>. QED
    BY <1>1, <2>1 DEF LoopInv
<1>2. CASE run.pc # "confstate"
  <2>1. Tracks(r', run')
    BY <1>2 DEF LoopInv
  <2>. QED
    BY <1>2, <2>1 DEF LoopInv
<1>. QED
  BY <1>1, <1>2

LEMMA LoopInit == Init => LoopInv
<1>. SUFFICES ASSUME Init PROVE LoopInv
  OBVIOUS
<1>1. r \in RawNodeType /\ run \in RunType /\ app \in AppType
  BY LoopAssumption DEF Init, RawNodeType, RunType, AppType, NoRd
<1>. QED
  BY <1>1 DEF Init, LoopInv, Tracks

LEMMA LoopNext == LoopInv /\ [Next]_vars => LoopInv'
<1>. SUFFICES ASSUME LoopInv, [Next]_vars PROVE LoopInv'
  OBVIOUS
<1>1. ASSUME NEW c \in Callers, Call(c) \/ Cancel(c) \/ GiveUp(c) \/ GetResult(c)
      PROVE  LoopInv'
  <2>1. UNCHANGED <<r, run, app>>
    BY <1>1 DEF Call, Cancel, GiveUp, GetResult
  <2>. QED
    BY <2>1, ElsewhereKeepsInv DEF LoopInv
<1>2. ASSUME NEW c \in Callers, TakeProp(c) \/ TakeRecv(c)
      PROVE  LoopInv'
  BY <1>2, LoopKeepsInv DEF TakeProp, TakeRecv
<1>3. ASSUME NEW c \in Callers, TakeStop(c)
      PROVE  LoopInv'
  <2>1. Tracks(r, run)
    BY <1>3 DEF TakeStop, Selecting, LoopInv
  <2>2. run' \in RunType /\ Tracks(r, run') /\ run'.pc = "stopped"
    BY <1>3, <2>1 DEF TakeStop, LoopInv, Tracks, RunType
  <2>. QED
    BY <1>3, <2>2 DEF TakeStop, LoopInv
<1>4. CASE TakeTick
  BY <1>4, LoopKeepsInv DEF TakeTick
<1>5. CASE Handle \/ AppDone
  <2>1. UNCHANGED <<r, run>> /\ app' \in AppType /\ app'.got = app.got
    BY <1>5 DEF Handle, AppDone, LoopInv, AppType
  <2>. QED
    BY <2>1, ElsewhereKeepsInv
<1>6. CASE UNCHANGED vars
  BY <1>6, ElsewhereKeepsInv DEF vars, LoopInv
<1>. QED
  BY <1>1, <1>2, <1>3, <1>4, <1>5, <1>6, SendReadyKeepsInv, TakeAdvanceKeepsInv,
     TakeConfKeepsInv, SendConfStateKeepsInv DEF Next

\* The invariant holds in every state of node.run, its callers and its
\* application.
THEOREM LoopInductive == Spec => []LoopInv
<1>. QED
  BY LoopInit, LoopNext, PTL DEF Spec

\* node.run never drops a message or an entry: what acceptReady clears from the
\* RawNode is what the application was handed, however often the Ready on offer
\* was populated again before it was taken.
THEOREM NothingIsLost == Spec => []NothingLost
<1>1. LoopInv => NothingLost
  BY DEF LoopInv, NothingLost
<1>. QED
  BY <1>1, LoopInductive, PTL

\* A proposal is taken from a caller only while raft knows a leader.
THEOREM ProposalsHaveLeader == Spec => []ProposalsNeedLeader
<1>1. LoopInv => ProposalsNeedLeader
  BY DEF LoopInv, ProposalsNeedLeader, Selecting, Tracks
<1>. QED
  BY <1>1, LoopInductive, PTL

-----------------------------------------------------------------------------
(* Configurations, and what holds of them between any two single changes.  *)

\* What of a Progress this model keeps.
Track == [IsLearner : BOOLEAN, Match : Nat]

Config ==
    [Voters : [1..2 -> SUBSET Node], Learners : SUBSET Node, LearnersNext : SUBSET Node,
     AutoLeave : BOOLEAN, Progress : UNION {[M -> Track] : M \in SUBSET Node}]

\* Exactly the voters and learners are tracked, a staged learner votes only in the
\* outgoing half, a learner in none, and Progress knows who is a learner.
WellFormed(c) ==
    /\ c \in Config /\ IsFiniteSet(Members(c))
    /\ Members(c) = JointIDs(c.Voters) \cup c.Learners
    /\ c.LearnersNext \subseteq c.Voters[2] \ c.Voters[1]
    /\ c.Learners \cap JointIDs(c.Voters) = {}
    /\ \A id \in Members(c) : c.Progress[id].IsLearner <=> id \in c.Learners

\* The types of the parts of a configuration.
LEMMA ConfigParts ==
    ASSUME NEW c \in Config
    PROVE  /\ c.Voters \in [1..2 -> SUBSET Node]
           /\ c.Voters[1] \in SUBSET Node /\ c.Voters[2] \in SUBSET Node
           /\ c.Learners \in SUBSET Node /\ c.LearnersNext \in SUBSET Node
           /\ c.AutoLeave \in BOOLEAN
           /\ Members(c) \in SUBSET Node
           /\ c.Progress \in [Members(c) -> Track]
           /\ \A id \in Members(c) : c.Progress[id] \in Track
<1>1. /\ c.Voters \in [1..2 -> SUBSET Node] /\ c.Learners \in SUBSET Node
      /\ c.LearnersNext \in SUBSET Node /\ c.AutoLeave \in BOOLEAN
      /\ c.Progress \in UNION {[M -> Track] : M \in SUBSET Node}
  BY DEF Config
<1>2. c.Voters[1] \in SUBSET Node /\ c.Voters[2] \in SUBSET Node
  BY <1>1
<1>3. PICK M \in SUBSET Node : c.Progress \in [M -> Track]
  BY <1>1
<1>4. Members(c) = M
  BY <1>3 DEF Members
<1>. QED
  BY <1>1, <1>2, <1>3, <1>4

\* A configuration is never the error.
LEMMA ConfigIsOk ==
    ASSUME NEW c \in Config
    PROVE  Ok(c)
<1>1. DOMAIN c.Voters = 1..2
  BY ConfigParts
<1>2. SUFFICES ASSUME c = Refused PROVE FALSE
  BY DEF Ok
<1>3. c.Voters = << >>
  BY <1>2 DEF Refused
<1>4. DOMAIN c.Voters = {}
  BY <1>3
<1>5. 1 \in 1..2
  OBVIOUS
<1>. QED
  BY <1>1, <1>4, <1>5

\* The empty configuration is one.
LEMMA EmptyIsWellFormed == WellFormed(EmptyConfig)
<1>1. <<{}, {}>> \in [1..2 -> SUBSET Node]
  OBVIOUS
<1>2. << >> \in UNION {[M -> Track] : M \in SUBSET Node}
  <2>1. << >> \in [{} -> Track]
    OBVIOUS
  <2>. QED
    BY <2>1
<1>3. EmptyConfig \in Config
  BY <1>1, <1>2 DEF EmptyConfig, Config
<1>4. Members(EmptyConfig) = {}
  BY DEF Members, EmptyConfig
<1>5. IsFiniteSet({})
  BY FS_EmptySet
<1>6. EmptyConfig.Voters[1] = {} /\ EmptyConfig.Voters[2] = {} /\ EmptyConfig.Learners = {}
      /\ EmptyConfig.LearnersNext = {}
  BY DEF EmptyConfig
<1>. QED
  BY <1>3, <1>4, <1>5, <1>6 DEF WellFormed, JointIDs

-----------------------------------------------------------------------------
(* Single changes, part by part.                                           *)

\* Taking a server out of all but the outgoing half.
LEMMA WithoutIs ==
    ASSUME NEW c \in Config, NEW id \in Node, NEW d, d = Without(c, id)
    PROVE  /\ d \in Config
           /\ d.Voters[1] = c.Voters[1] \ {id} /\ d.Voters[2] = c.Voters[2]
           /\ d.Learners = c.Learners \ {id} /\ d.LearnersNext = c.LearnersNext \ {id}
           /\ d.AutoLeave = c.AutoLeave /\ d.Progress = c.Progress
<1>1. c.Voters \in [1..2 -> SUBSET Node]
  BY ConfigParts
<1>2. PICK v : v = [c.Voters EXCEPT ![1] = c.Voters[1] \ {id}]
  OBVIOUS
<1>3. v \in [1..2 -> SUBSET Node] /\ v[1] = c.Voters[1] \ {id} /\ v[2] = c.Voters[2]
  BY <1>1, <1>2
<1>4. d = [Voters |-> v, Learners |-> c.Learners \ {id}, LearnersNext |-> c.LearnersNext \ {id},
           AutoLeave |-> c.AutoLeave, Progress |-> c.Progress]
  BY <1>2 DEF Without, Config
<1>5. d \in Config
  BY <1>3, <1>4 DEF Config
<1>. QED
  BY <1>3, <1>4, <1>5

\* makeVoter: the server is a voter of the incoming half, and nothing else there.
MadeVoter(c, d, id) ==
    /\ d \in Config
    /\ d.Voters[1] = c.Voters[1] \cup {id} /\ d.Voters[2] = c.Voters[2]
    /\ d.Learners = c.Learners \ {id} /\ d.LearnersNext = c.LearnersNext \ {id}
    /\ d.AutoLeave = c.AutoLeave
    /\ Members(d) = Members(c) \cup {id}
    /\ ~d.Progress[id].IsLearner
    /\ d.Progress[id].Match = IF id \in Members(c) THEN c.Progress[id].Match ELSE 0
    /\ \A j \in Members(c) : j # id => d.Progress[j] = c.Progress[j]

\* That is what makeVoter does.
LEMMA MakeVoterIs ==
    ASSUME NEW c, WellFormed(c), NEW id \in Node, NEW d, d = makeVoter(c, id)
    PROVE  MadeVoter(c, d, id)
<1>1. c \in Config /\ c.Learners \subseteq Members(c) /\ c.LearnersNext \subseteq Members(c)
  BY DEF WellFormed, JointIDs
<1>2. CASE id \notin Members(c)
  <2>1. PICK pr, f, v : /\ pr = [IsLearner |-> FALSE, Match |-> 0]
                        /\ f = With(c.Progress, id, pr)
                        /\ v = [c.Voters EXCEPT ![1] = @ \cup {id}]
    OBVIOUS
  <2>2. pr \in Track /\ pr.IsLearner = FALSE /\ pr.Match = 0
    BY <2>1 DEF Track
  <2>3. v \in [1..2 -> SUBSET Node] /\ v[1] = c.Voters[1] \cup {id} /\ v[2] = c.Voters[2]
    BY <1>1, <2>1, ConfigParts
  <2>4. d = [Voters |-> v, Learners |-> c.Learners, LearnersNext |-> c.LearnersNext,
             AutoLeave |-> c.AutoLeave, Progress |-> f]
    <3>1. d = [c EXCEPT !.Voters[1] = @ \cup {id}, !.Progress = With(@, id, pr)]
      BY <1>2, <2>1, Zenon DEF makeVoter, initProgress
    <3>. QED
      BY <1>1, <2>1, <3>1 DEF Config
  <2>5. /\ d \in Config /\ d.Voters = v /\ d.Learners = c.Learners
        /\ d.LearnersNext = c.LearnersNext /\ d.AutoLeave = c.AutoLeave
        /\ Members(d) = Members(c) \cup {id} /\ d.Progress[id] = pr
        /\ \A j \in Members(c) : j # id => d.Progress[j] = c.Progress[j]
    <3>1. c.Progress \in [Members(c) -> Track] /\ Members(c) \in SUBSET Node
      BY <1>1, ConfigParts
    <3>2. /\ f \in [Members(c) \cup {id} -> Track] /\ DOMAIN f = Members(c) \cup {id}
          /\ f[id] = pr /\ \A j \in Members(c) : j # id => f[j] = c.Progress[j]
      BY <2>1, <2>2, <3>1 DEF With
    <3>3. f \in UNION {[M -> Track] : M \in SUBSET Node}
      <4>1. Members(c) \cup {id} \in SUBSET Node
        BY <3>1
      <4>. QED
        BY <3>2, <4>1
    <3>4. d \in Config
      BY <1>1, <2>3, <2>4, <3>3 DEF Config
    <3>5. d.Progress = f
      BY <2>4
    <3>6. Members(d) = Members(c) \cup {id}
      BY <3>2, <3>5 DEF Members
    <3>. QED
      BY <2>4, <3>2, <3>4, <3>5, <3>6
  <2>6. d.Learners = c.Learners \ {id} /\ d.LearnersNext = c.LearnersNext \ {id}
    BY <1>1, <1>2, <2>5
  <2>. QED
    BY <1>2, <2>2, <2>3, <2>5, <2>6 DEF MadeVoter
<1>3. CASE id \in Members(c)
  <2>1. PICK w : w = Without(c, id)
    OBVIOUS
  <2>2. /\ w \in Config /\ w.Voters[1] = c.Voters[1] \ {id} /\ w.Voters[2] = c.Voters[2]
        /\ w.Learners = c.Learners \ {id} /\ w.LearnersNext = c.LearnersNext \ {id}
        /\ w.AutoLeave = c.AutoLeave /\ w.Progress = c.Progress
    BY <1>1, <2>1, WithoutIs
  <2>3. PICK v : v = [w.Voters EXCEPT ![1] = w.Voters[1] \cup {id}]
    OBVIOUS
  <2>4. PICK f : f = [c.Progress EXCEPT ![id].IsLearner = FALSE]
    OBVIOUS
  <2>5. d = [w EXCEPT !.Voters[1] = @ \cup {id}, !.Progress[id].IsLearner = FALSE]
    BY <1>3, <2>1 DEF makeVoter
  <2>6. d = [Voters |-> v, Learners |-> w.Learners, LearnersNext |-> w.LearnersNext,
             AutoLeave |-> w.AutoLeave, Progress |-> f]
    BY <2>2, <2>3, <2>4, <2>5 DEF Config
  <2>7. v \in [1..2 -> SUBSET Node] /\ v[1] = c.Voters[1] \cup {id} /\ v[2] = c.Voters[2]
    <3>1. w.Voters \in [1..2 -> SUBSET Node]
      BY <2>2, ConfigParts
    <3>. QED
      BY <2>2, <2>3, <3>1
  <2>8. /\ c.Progress \in [Members(c) -> Track] /\ c.Progress[id] \in Track
        /\ Members(c) \in SUBSET Node
    BY <1>1, <1>3, ConfigParts
  <2>9. PICK pr : pr = [c.Progress[id] EXCEPT !.IsLearner = FALSE]
    OBVIOUS
  <2>10. pr \in Track /\ pr.IsLearner = FALSE /\ pr.Match = c.Progress[id].Match
    BY <2>8, <2>9 DEF Track
  <2>11. f = [c.Progress EXCEPT ![id] = pr]
    BY <2>4, <2>9
  <2>12. /\ f \in [Members(c) -> Track] /\ DOMAIN f = Members(c) /\ f[id] = pr
         /\ \A j \in Members(c) : j # id => f[j] = c.Progress[j]
    BY <1>3, <2>8, <2>10, <2>11
  <2>13. d \in Config
    <3>1. f \in UNION {[M -> Track] : M \in SUBSET Node}
      BY <2>8, <2>12
    <3>. QED
      BY <2>2, <2>6, <2>7, <3>1 DEF Config
  <2>14. /\ d.Voters[1] = c.Voters[1] \cup {id} /\ d.Voters[2] = c.Voters[2]
         /\ d.Learners = c.Learners \ {id} /\ d.LearnersNext = c.LearnersNext \ {id}
         /\ d.AutoLeave = c.AutoLeave /\ d.Progress = f
    BY <2>2, <2>6, <2>7
  <2>15. Members(d) = Members(c) \cup {id}
    BY <1>3, <2>12, <2>14 DEF Members
  <2>. QED
    BY <1>3, <2>10, <2>12, <2>13, <2>14, <2>15 DEF MadeVoter
<1>. QED
  BY <1>2, <1>3

\* remove: the server leaves all but the outgoing half, and its Progress goes with
\* it unless it still votes there.
Removed(c, d, id) ==
    /\ d \in Config
    /\ d.Voters[1] = c.Voters[1] \ {id} /\ d.Voters[2] = c.Voters[2]
    /\ d.Learners = c.Learners \ {id} /\ d.LearnersNext = c.LearnersNext \ {id}
    /\ d.AutoLeave = c.AutoLeave
    /\ Members(d) = IF id \in c.Voters[2] THEN Members(c) ELSE Members(c) \ {id}
    /\ \A j \in Members(d) : d.Progress[j] = c.Progress[j]

\* That is what remove does.
LEMMA RemoveIs ==
    ASSUME NEW c, WellFormed(c), NEW id \in Node, NEW d, d = remove(c, id)
    PROVE  Removed(c, d, id)
<1>1. /\ c \in Config /\ c.Learners \subseteq Members(c) /\ c.LearnersNext \subseteq Members(c)
      /\ c.Voters[1] \subseteq Members(c) /\ c.Voters[2] \subseteq Members(c)
  BY DEF WellFormed, JointIDs
<1>2. CASE id \notin Members(c)
  <2>1. d = c
    BY <1>2 DEF remove
  <2>. QED
    BY <1>1, <1>2, <2>1 DEF Removed
<1>3. CASE id \in Members(c)
  <2>1. PICK w : w = Without(c, id)
    OBVIOUS
  <2>2. /\ w \in Config /\ w.Voters[1] = c.Voters[1] \ {id} /\ w.Voters[2] = c.Voters[2]
        /\ w.Learners = c.Learners \ {id} /\ w.LearnersNext = c.LearnersNext \ {id}
        /\ w.AutoLeave = c.AutoLeave /\ w.Progress = c.Progress
    BY <1>1, <2>1, WithoutIs
  <2>3. PICK M : M = IF id \in c.Voters[2] THEN Members(c) ELSE Members(c) \ {id}
    OBVIOUS
  <2>4. c.Progress \in [Members(c) -> Track] /\ Members(c) \in SUBSET Node
    BY <1>1, ConfigParts
  <2>5. PICK f : f = IF id \in c.Voters[2] THEN c.Progress
                     ELSE Restrict(c.Progress, DOMAIN c.Progress \ {id})
    OBVIOUS
  <2>6. f \in [M -> Track] /\ DOMAIN f = M /\ \A j \in M : f[j] = c.Progress[j]
    BY <2>3, <2>4, <2>5 DEF Restrict
  <2>7. d = [Voters |-> w.Voters, Learners |-> w.Learners, LearnersNext |-> w.LearnersNext,
             AutoLeave |-> w.AutoLeave, Progress |-> f]
    BY <1>3, <2>1, <2>2, <2>5 DEF Config, remove
  <2>8. d \in Config
    <3>1. M \in SUBSET Node
      BY <2>3, <2>4
    <3>2. f \in UNION {[K -> Track] : K \in SUBSET Node}
      BY <2>6, <3>1
    <3>. QED
      BY <2>2, <2>7, <3>2 DEF Config
  <2>9. Members(d) = M
    BY <2>6, <2>7 DEF Members
  <2>. QED
    BY <2>2, <2>3, <2>6, <2>7, <2>8, <2>9 DEF Removed
<1>. QED
  BY <1>2, <1>3

\* makeLearner: the server is a learner, or will be one when it no longer votes in
\* the outgoing half.
MadeLearner(c, d, id) ==
    /\ d \in Config
    /\ d.Voters[1] = c.Voters[1] \ {id} /\ d.Voters[2] = c.Voters[2]
    /\ d.Learners = IF id \in c.Voters[2] THEN c.Learners ELSE c.Learners \cup {id}
    /\ d.LearnersNext = IF id \in c.Voters[2] THEN c.LearnersNext \cup {id} ELSE c.LearnersNext
    /\ d.AutoLeave = c.AutoLeave
    /\ Members(d) = Members(c) \cup {id}
    /\ d.Progress[id].IsLearner <=> id \notin c.Voters[2]
    /\ d.Progress[id].Match = IF id \in Members(c) THEN c.Progress[id].Match ELSE 0
    /\ \A j \in Members(c) : j # id => d.Progress[j] = c.Progress[j]

\* That is what makeLearner does.
LEMMA MakeLearnerIs ==
    ASSUME NEW c, WellFormed(c), NEW id \in Node, NEW d, d = makeLearner(c, id)
    PROVE  MadeLearner(c, d, id)
<1>1. /\ c \in Config /\ c.Learners \subseteq Members(c) /\ c.LearnersNext \subseteq c.Voters[2]
      /\ c.Voters[1] \subseteq Members(c) /\ c.Voters[2] \subseteq Members(c)
      /\ c.Learners \cap (c.Voters[1] \cup c.Voters[2]) = {}
      /\ \A j \in Members(c) : c.Progress[j].IsLearner <=> j \in c.Learners
  BY DEF WellFormed, JointIDs
<1>2. CASE id \notin Members(c)
  <2>1. PICK pr, f, v : /\ pr = [IsLearner |-> TRUE, Match |-> 0]
                        /\ f = With(c.Progress, id, pr)
                        /\ v = c.Learners \cup {id}
    OBVIOUS
  <2>2. pr \in Track /\ pr.IsLearner = TRUE /\ pr.Match = 0
    BY <2>1 DEF Track
  <2>3. v \in SUBSET Node /\ c.Voters \in [1..2 -> SUBSET Node]
    BY <1>1, <2>1, ConfigParts
  <2>4. d = [Voters |-> c.Voters, Learners |-> v, LearnersNext |-> c.LearnersNext,
             AutoLeave |-> c.AutoLeave, Progress |-> f]
    <3>1. d = [c EXCEPT !.Learners = @ \cup {id}, !.Progress = With(@, id, pr)]
      BY <1>2, <2>1, Zenon DEF makeLearner, initProgress
    <3>. QED
      BY <1>1, <2>1, <3>1 DEF Config
  <2>5. /\ d \in Config /\ d.Voters = c.Voters /\ d.Learners = v
        /\ d.LearnersNext = c.LearnersNext /\ d.AutoLeave = c.AutoLeave
        /\ Members(d) = Members(c) \cup {id} /\ d.Progress[id] = pr
        /\ \A j \in Members(c) : j # id => d.Progress[j] = c.Progress[j]
    <3>1. c.Progress \in [Members(c) -> Track] /\ Members(c) \in SUBSET Node
      BY <1>1, ConfigParts
    <3>2. /\ f \in [Members(c) \cup {id} -> Track] /\ DOMAIN f = Members(c) \cup {id}
          /\ f[id] = pr /\ \A j \in Members(c) : j # id => f[j] = c.Progress[j]
      BY <2>1, <2>2, <3>1 DEF With
    <3>3. f \in UNION {[M -> Track] : M \in SUBSET Node}
      <4>1. Members(c) \cup {id} \in SUBSET Node
        BY <3>1
      <4>. QED
        BY <3>2, <4>1
    <3>4. d \in Config
      BY <1>1, <2>3, <2>4, <3>3 DEF Config
    <3>5. d.Progress = f
      BY <2>4
    <3>6. Members(d) = Members(c) \cup {id}
      BY <3>2, <3>5 DEF Members
    <3>. QED
      BY <2>4, <3>2, <3>4, <3>5, <3>6
  <2>6. id \notin c.Voters[2] /\ d.Voters[1] = c.Voters[1] \ {id} /\ d.Learners = c.Learners \cup {id}
    BY <1>1, <1>2, <2>1, <2>5
  <2>. QED
    BY <1>2, <2>2, <2>5, <2>6 DEF MadeLearner
<1>3. CASE id \in Members(c) /\ c.Progress[id].IsLearner
  <2>1. d = c
    BY <1>3 DEF makeLearner
  <2>2. id \in c.Learners
    BY <1>1, <1>3
  <2>. QED
    BY <1>1, <1>3, <2>1, <2>2 DEF MadeLearner
<1>4. CASE id \in Members(c) /\ ~c.Progress[id].IsLearner
  <2>0. id \notin c.Learners
    BY <1>1, <1>4
  <2>1. PICK w : w = Without(c, id)
    OBVIOUS
  <2>2. /\ w \in Config /\ w.Voters[1] = c.Voters[1] \ {id} /\ w.Voters[2] = c.Voters[2]
        /\ w.Learners = c.Learners \ {id} /\ w.LearnersNext = c.LearnersNext \ {id}
        /\ w.AutoLeave = c.AutoLeave /\ w.Progress = c.Progress
    BY <1>1, <2>1, WithoutIs
  <2>3. /\ c.Progress \in [Members(c) -> Track] /\ c.Progress[id] \in Track
        /\ Members(c) \in SUBSET Node
    BY <1>1, <1>4, ConfigParts
  <2>4. CASE id \in c.Voters[2]
    <3>1. d = [w EXCEPT !.LearnersNext = @ \cup {id}]
      BY <1>4, <2>1, <2>4 DEF makeLearner
    <3>2. d = [Voters |-> w.Voters, Learners |-> w.Learners, LearnersNext |-> w.LearnersNext \cup {id},
               AutoLeave |-> w.AutoLeave, Progress |-> w.Progress]
      BY <2>2, <3>1 DEF Config
    <3>3. d \in Config
      BY <2>2, <3>2 DEF Config
    <3>4. /\ d.Voters = w.Voters /\ d.Learners = c.Learners /\ d.LearnersNext = c.LearnersNext \cup {id}
          /\ d.AutoLeave = c.AutoLeave /\ d.Progress = c.Progress
      BY <2>0, <2>2, <3>2
    <3>5. Members(d) = Members(c) \cup {id}
      BY <1>4, <3>4 DEF Members
    <3>. QED
      BY <1>4, <2>2, <2>4, <3>3, <3>4, <3>5 DEF MadeLearner
  <2>5. CASE id \notin c.Voters[2]
    <3>1. d = [w EXCEPT !.Learners = @ \cup {id}, !.Progress[id].IsLearner = TRUE]
      BY <1>4, <2>1, <2>5 DEF makeLearner
    <3>2. PICK pr : pr = [c.Progress[id] EXCEPT !.IsLearner = TRUE]
      OBVIOUS
    <3>3. pr \in Track /\ pr.IsLearner = TRUE /\ pr.Match = c.Progress[id].Match
      BY <2>3, <3>2 DEF Track
    <3>4. PICK f : f = [c.Progress EXCEPT ![id] = pr]
      OBVIOUS
    <3>5. /\ f \in [Members(c) -> Track] /\ DOMAIN f = Members(c) /\ f[id] = pr
          /\ \A j \in Members(c) : j # id => f[j] = c.Progress[j]
      BY <1>4, <2>3, <3>3, <3>4
    <3>6. d = [Voters |-> w.Voters, Learners |-> w.Learners \cup {id}, LearnersNext |-> w.LearnersNext,
               AutoLeave |-> w.AutoLeave, Progress |-> f]
      BY <2>2, <3>1, <3>2, <3>4 DEF Config
    <3>7. d \in Config
      <4>1. f \in UNION {[M -> Track] : M \in SUBSET Node}
        BY <2>3, <3>5
      <4>. QED
        BY <2>2, <3>6, <4>1 DEF Config
    <3>8. /\ d.Voters = w.Voters /\ d.Learners = c.Learners \cup {id} /\ d.LearnersNext = c.LearnersNext
          /\ d.AutoLeave = c.AutoLeave /\ d.Progress = f
      BY <1>1, <2>0, <2>2, <2>5, <3>6
    <3>9. Members(d) = Members(c) \cup {id}
      BY <1>4, <3>5, <3>8 DEF Members
    <3>. QED
      BY <1>4, <2>2, <2>5, <3>3, <3>5, <3>7, <3>8, <3>9 DEF MadeLearner
  <2>. QED
    BY <2>4, <2>5
<1>. QED
  BY <1>2, <1>3, <1>4

\* What a single change does to the incoming voters.
NextVoters(V, cc) ==
    CASE cc.id # 0 /\ cc.type = "AddNode"                          -> V \cup {cc.id}
      [] cc.id # 0 /\ cc.type \in {"AddLearnerNode", "RemoveNode"} -> V \ {cc.id}
      [] OTHER                                                     -> V

\* What every single change keeps: the outgoing half, AutoLeave, and what the leader
\* knows of the log of an outgoing voter.
Keeps(c, d) ==
    /\ d.Voters[2] = c.Voters[2] /\ d.AutoLeave = c.AutoLeave
    /\ \A j \in c.Voters[2] : d.Progress[j].Match = c.Progress[j].Match

\* A single change leaves a configuration well-formed.
LEMMA ChangedIs ==
    ASSUME NEW c, WellFormed(c), NEW cc \in Change, NEW d, d = Changed(c, cc)
    PROVE  /\ WellFormed(d) /\ Keeps(c, d)
           /\ d.Voters[1] = NextVoters(c.Voters[1], cc)
           /\ \A j \in Members(c) \cap Members(d) : d.Progress[j].Match = c.Progress[j].Match
<1>1. /\ c \in Config /\ IsFiniteSet(Members(c))
      /\ Members(c) = c.Voters[1] \cup c.Voters[2] \cup c.Learners
      /\ c.LearnersNext \subseteq c.Voters[2] \ c.Voters[1]
      /\ c.Learners \cap (c.Voters[1] \cup c.Voters[2]) = {}
      /\ \A id \in Members(c) : c.Progress[id].IsLearner <=> id \in c.Learners
  BY DEF WellFormed, JointIDs
<1>2. cc.type \in ChangeType /\ cc.id \in Node \cup {0}
  BY DEF Change
<1>3. CASE d = c /\ (cc.id = 0 \/ cc.type = "UpdateNode")
  BY <1>2, <1>3 DEF Keeps, NextVoters
<1>4. CASE cc.id # 0 /\ cc.type = "AddNode"
  <2>1. PICK id \in Node : id = cc.id
    BY <1>2, <1>4
  <2>2. d = makeVoter(c, id)
    BY <1>4, <2>1 DEF Changed
  <2>3. /\ d \in Config
        /\ d.Voters[1] = c.Voters[1] \cup {id} /\ d.Voters[2] = c.Voters[2]
        /\ d.Learners = c.Learners \ {id} /\ d.LearnersNext = c.LearnersNext \ {id}
        /\ d.AutoLeave = c.AutoLeave
        /\ Members(d) = Members(c) \cup {id}
        /\ ~d.Progress[id].IsLearner
        /\ d.Progress[id].Match = IF id \in Members(c) THEN c.Progress[id].Match ELSE 0
        /\ \A j \in Members(c) : j # id => d.Progress[j] = c.Progress[j]
    <3>1. MadeVoter(c, d, id)
      BY <2>2, MakeVoterIs
    <3>. QED
      BY <3>1 DEF MadeVoter
  <2>4. IsFiniteSet(Members(d))
    <3>1. IsFiniteSet(Members(c)) /\ (Members(d) = Members(c) \cup {id})
      BY <1>1, <2>3
    <3>. QED
      BY <3>1, FS_AddElement
  <2>5. /\ Members(d) = d.Voters[1] \cup d.Voters[2] \cup d.Learners
        /\ d.LearnersNext \subseteq d.Voters[2] \ d.Voters[1]
        /\ d.Learners \cap (d.Voters[1] \cup d.Voters[2]) = {}
    <3>1. id \in d.Voters[1]
      BY <2>3
    <3>2. id \in c.Voters[2] => id \notin c.Learners
      BY <1>1
    <3>. QED
      BY <1>1, <2>3, <3>1, <3>2
  <2>6. \A j \in Members(d) : d.Progress[j].IsLearner <=> j \in d.Learners
    BY <1>1, <2>3
  <2>7. WellFormed(d)
    BY <2>3, <2>4, <2>5, <2>6 DEF WellFormed, JointIDs
  <2>8. d.Voters[1] = NextVoters(c.Voters[1], cc)
    BY <1>4, <2>1, <2>3 DEF NextVoters
  <2>9. \A j \in Members(c) : d.Progress[j].Match = c.Progress[j].Match
    BY <2>3
  <2>. QED
    BY <1>1, <2>3, <2>7, <2>8, <2>9 DEF Keeps
<1>5. CASE cc.id # 0 /\ cc.type = "AddLearnerNode"
  <2>1. PICK id \in Node : id = cc.id
    BY <1>2, <1>5
  <2>2. d = makeLearner(c, id)
    BY <1>5, <2>1 DEF Changed
  <2>3. /\ d \in Config
        /\ d.Voters[1] = c.Voters[1] \ {id} /\ d.Voters[2] = c.Voters[2]
        /\ d.Learners = IF id \in c.Voters[2] THEN c.Learners ELSE c.Learners \cup {id}
        /\ d.LearnersNext = IF id \in c.Voters[2] THEN c.LearnersNext \cup {id} ELSE c.LearnersNext
        /\ d.AutoLeave = c.AutoLeave
        /\ Members(d) = Members(c) \cup {id}
        /\ d.Progress[id].IsLearner <=> id \notin c.Voters[2]
        /\ d.Progress[id].Match = IF id \in Members(c) THEN c.Progress[id].Match ELSE 0
        /\ \A j \in Members(c) : j # id => d.Progress[j] = c.Progress[j]
    <3>1. MadeLearner(c, d, id)
      BY <2>2, MakeLearnerIs
    <3>. QED
      BY <3>1 DEF MadeLearner
  <2>4. IsFiniteSet(Members(d))
    <3>1. IsFiniteSet(Members(c)) /\ (Members(d) = Members(c) \cup {id})
      BY <1>1, <2>3
    <3>. QED
      BY <3>1, FS_AddElement
  <2>5. /\ Members(d) = d.Voters[1] \cup d.Voters[2] \cup d.Learners
        /\ d.LearnersNext \subseteq d.Voters[2] \ d.Voters[1]
        /\ d.Learners \cap (d.Voters[1] \cup d.Voters[2]) = {}
    <3>1. CASE id \in c.Voters[2]
      BY <1>1, <2>3, <3>1
    <3>2. CASE id \notin c.Voters[2]
      BY <1>1, <2>3, <3>2
    <3>. QED
      BY <3>1, <3>2
  <2>6. \A j \in Members(d) : d.Progress[j].IsLearner <=> j \in d.Learners
    BY <1>1, <2>3
  <2>7. WellFormed(d)
    BY <2>3, <2>4, <2>5, <2>6 DEF WellFormed, JointIDs
  <2>8. d.Voters[1] = NextVoters(c.Voters[1], cc)
    BY <1>5, <2>1, <2>3 DEF NextVoters
  <2>9. \A j \in Members(c) : d.Progress[j].Match = c.Progress[j].Match
    BY <2>3
  <2>. QED
    BY <1>1, <2>3, <2>7, <2>8, <2>9 DEF Keeps
<1>6. CASE cc.id # 0 /\ cc.type = "RemoveNode"
  <2>1. PICK id \in Node : id = cc.id
    BY <1>2, <1>6
  <2>2. d = remove(c, id)
    BY <1>6, <2>1 DEF Changed
  <2>3. /\ d \in Config
        /\ d.Voters[1] = c.Voters[1] \ {id} /\ d.Voters[2] = c.Voters[2]
        /\ d.Learners = c.Learners \ {id} /\ d.LearnersNext = c.LearnersNext \ {id}
        /\ d.AutoLeave = c.AutoLeave
        /\ Members(d) = IF id \in c.Voters[2] THEN Members(c) ELSE Members(c) \ {id}
        /\ \A j \in Members(d) : d.Progress[j] = c.Progress[j]
    <3>1. Removed(c, d, id)
      BY <2>2, RemoveIs
    <3>. QED
      BY <3>1 DEF Removed
  <2>4. IsFiniteSet(Members(d))
    <3>1. IsFiniteSet(Members(c)) /\ (Members(d) = Members(c) \/ Members(d) = Members(c) \ {id})
      BY <1>1, <2>3
    <3>. QED
      BY <3>1, FS_RemoveElement
  <2>5. /\ Members(d) = d.Voters[1] \cup d.Voters[2] \cup d.Learners
        /\ d.LearnersNext \subseteq d.Voters[2] \ d.Voters[1]
        /\ d.Learners \cap (d.Voters[1] \cup d.Voters[2]) = {}
    <3>1. CASE id \in c.Voters[2]
      BY <1>1, <2>3, <3>1
    <3>2. CASE id \notin c.Voters[2]
      BY <1>1, <2>3, <3>2
    <3>. QED
      BY <3>1, <3>2
  <2>6. \A j \in Members(d) : d.Progress[j].IsLearner <=> j \in d.Learners
    <3>1. SUFFICES ASSUME NEW j \in Members(d)
                   PROVE  d.Progress[j].IsLearner <=> j \in d.Learners
      OBVIOUS
    <3>2. j \in Members(c) /\ d.Progress[j] = c.Progress[j]
      BY <2>3
    <3>3. j \in c.Learners <=> j \in d.Learners
      BY <1>1, <2>3, <2>5
    <3>. QED
      BY <1>1, <3>2, <3>3
  <2>7. WellFormed(d)
    BY <2>3, <2>4, <2>5, <2>6 DEF WellFormed, JointIDs
  <2>8. d.Voters[1] = NextVoters(c.Voters[1], cc)
    BY <1>6, <2>1, <2>3 DEF NextVoters
  <2>9. c.Voters[2] \subseteq Members(d)
    BY <2>3, <2>5
  <2>. QED
    BY <2>3, <2>7, <2>8, <2>9 DEF Keeps
<1>7. cc.id = 0 \/ cc.type = "UpdateNode" => d = c
  BY <1>2 DEF Changed
<1>. QED
  BY <1>2, <1>3, <1>4, <1>5, <1>6, <1>7 DEF ChangeType

-----------------------------------------------------------------------------
(* Several changes in a row.                                               *)

\* A set of numbers that has 0, and with each number the next, has them all.
LEMMA NatSetInduction ==
    ASSUME NEW S, 0 \in S, \A n \in Nat : n \in S => n + 1 \in S
    PROVE  \A n \in Nat : n \in S
<1>1. SUFFICES ASSUME NEW m \in Nat, m \notin S PROVE FALSE
  OBVIOUS
<1>2. PICK x \in Nat \ S : \A y \in Nat \ S : x <= y
  <2>1. Nat \ S \subseteq Nat /\ Nat \ S # {}
    BY <1>1
  <2>. QED
    BY <2>1, LeastExists
<1>3. x # 0 /\ x - 1 \in Nat /\ x - 1 \in S
  BY <1>2
<1>. QED
  BY <1>2, <1>3

\* g holds the configurations on the way of apply, before and after each change.
OnTheWay(c, ccs, g) ==
    /\ g[0] = c
    /\ \A k \in 1..Len(ccs) : g[k] = Changed(g[k - 1], ccs[k])

\* apply takes one change after the other and refuses to end without a voter.
LEMMA ApplyIs ==
    ASSUME NEW c, NEW ccs \in Seq(Change)
    PROVE  \E g : /\ OnTheWay(c, ccs, g)
                  /\ apply(c, ccs) = IF g[Len(ccs)].Voters[1] = {} THEN Refused ELSE g[Len(ccs)]
<1>. DEFINE Is(f, n) == f = [k \in 0..n |-> IF k = 0 THEN c ELSE Changed(f[k - 1], ccs[k])]
            S == {n \in Nat : \E f : Is(f, n)}
            g == CHOOSE f : Is(f, Len(ccs))
<1>1. Len(ccs) \in Nat
  OBVIOUS
<1>2. 0 \in S
  <2>1. Is([k \in 0..0 |-> c], 0)
    OBVIOUS
  <2>. QED
    BY <2>1
<1>3. ASSUME NEW n \in Nat, n \in S PROVE n + 1 \in S
  <2>1. PICK f : Is(f, n)
    BY <1>3
  <2>. DEFINE h == [k \in 0..(n + 1) |-> IF k = n + 1 THEN Changed(f[n], ccs[n + 1]) ELSE f[k]]
  <2>2. \A k \in 0..(n + 1) : h[k] = IF k = 0 THEN c ELSE Changed(h[k - 1], ccs[k])
    <3>1. SUFFICES ASSUME NEW k \in 0..(n + 1)
                   PROVE  h[k] = IF k = 0 THEN c ELSE Changed(h[k - 1], ccs[k])
      OBVIOUS
    <3>2. CASE k = n + 1
      BY <3>2
    <3>3. CASE k # n + 1
      <4>1. k \in 0..n /\ h[k] = f[k]
        BY <3>3
      <4>2. f[k] = IF k = 0 THEN c ELSE Changed(f[k - 1], ccs[k])
        BY <2>1, <4>1
      <4>3. k # 0 => h[k - 1] = f[k - 1]
        BY <4>1
      <4>. QED
        BY <4>1, <4>2, <4>3
    <3>. QED
      BY <3>2, <3>3
  <2>3. Is(h, n + 1)
    BY <2>2
  <2>4. n + 1 \in Nat
    OBVIOUS
  <2>. HIDE DEF h, Is
  <2>. QED
    BY <2>3, <2>4
<1>4. Len(ccs) \in S
  <2>. HIDE DEF S
  <2>. QED
    BY <1>1, <1>2, <1>3, NatSetInduction
<1>5. Is(g, Len(ccs))
  BY <1>4
<1>6. apply(c, ccs) = IF g[Len(ccs)].Voters[1] = {} THEN Refused ELSE g[Len(ccs)]
  BY DEF apply
<1>7. OnTheWay(c, ccs, g)
  <2>. HIDE DEF g
  <2>1. g[0] = c
    BY <1>1, <1>5
  <2>2. ASSUME NEW k \in 1..Len(ccs) PROVE g[k] = Changed(g[k - 1], ccs[k])
    <3>1. k \in 0..Len(ccs) /\ k # 0
      OBVIOUS
    <3>. QED
      BY <1>5, <3>1
  <2>. QED
    BY <2>1, <2>2 DEF OnTheWay
<1>. QED
  BY <1>6, <1>7

\* All configurations on the way are well-formed, and keep what a change keeps.
LEMMA WayIsWellFormed ==
    ASSUME NEW c, WellFormed(c), NEW ccs \in Seq(Change), NEW g, OnTheWay(c, ccs, g)
    PROVE  \A k \in 0..Len(ccs) : WellFormed(g[k]) /\ Keeps(c, g[k])
<1>. DEFINE S == {n \in Nat : n <= Len(ccs) => WellFormed(g[n]) /\ Keeps(c, g[n])}
<1>1. 0 \in S
  BY DEF OnTheWay, Keeps
<1>2. ASSUME NEW n \in Nat, n \in S PROVE n + 1 \in S
  <2>1. SUFFICES ASSUME n + 1 <= Len(ccs) PROVE WellFormed(g[n + 1]) /\ Keeps(c, g[n + 1])
    OBVIOUS
  <2>2. WellFormed(g[n]) /\ Keeps(c, g[n])
    BY <1>2, <2>1
  <2>3. n + 1 \in 1..Len(ccs) /\ (n + 1) - 1 = n
    BY <2>1
  <2>4. g[n + 1] = Changed(g[n], ccs[n + 1]) /\ ccs[n + 1] \in Change
    BY <2>3 DEF OnTheWay
  <2>5. WellFormed(g[n + 1]) /\ Keeps(g[n], g[n + 1])
    BY <2>2, <2>4, ChangedIs
  <2>. QED
    BY <2>2, <2>5 DEF Keeps
<1>3. \A n \in Nat : n \in S
  <2>. HIDE DEF S
  <2>. QED
    BY <1>1, <1>2, NatSetInduction
<1>. QED
  BY <1>3

\* apply, on a single change.
LEMMA ApplyOne ==
    ASSUME NEW c, NEW cc \in Change, NEW d, d = Changed(c, cc)
    PROVE  apply(c, <<cc>>) = IF d.Voters[1] = {} THEN Refused ELSE d
<1>1. <<cc>> \in Seq(Change) /\ Len(<<cc>>) = 1 /\ <<cc>>[1] = cc
  OBVIOUS
<1>2. PICK g : /\ OnTheWay(c, <<cc>>, g)
               /\ apply(c, <<cc>>) = IF g[1].Voters[1] = {} THEN Refused ELSE g[1]
  BY <1>1, ApplyIs
<1>3. 1 \in 1..Len(<<cc>>) /\ 1 - 1 = 0
  BY <1>1
<1>4. g[1] = Changed(c, cc)
  BY <1>1, <1>2, <1>3 DEF OnTheWay
<1>. QED
  BY <1>2, <1>4

-----------------------------------------------------------------------------
(* The operations of Changer.                                              *)

\* A configuration between two operations: AutoLeave only in a joint one.
ConfOK(c) == WellFormed(c) /\ (~joint(c) => ~c.AutoLeave)

\* checkInvariants accepts it.
LEMMA ConfIsChecked ==
    ASSUME NEW c, ConfOK(c)
    PROVE  checkInvariants(c) /\ Checked(c) = c
<1>1. /\ c.LearnersNext \subseteq c.Voters[2] \ c.Voters[1]
      /\ Members(c) = c.Voters[1] \cup c.Voters[2] \cup c.Learners
      /\ c.Learners \cap (c.Voters[1] \cup c.Voters[2]) = {}
      /\ \A id \in Members(c) : c.Progress[id].IsLearner <=> id \in c.Learners
  BY DEF ConfOK, WellFormed, JointIDs
<1>2. JointIDs(c.Voters) \cup c.Learners \cup c.LearnersNext \subseteq Members(c)
  BY <1>1 DEF JointIDs
<1>3. \A id \in c.LearnersNext : id \in c.Voters[2] /\ ~c.Progress[id].IsLearner
  BY <1>1
<1>4. \A id \in c.Learners : id \notin JointIDs(c.Voters) /\ c.Progress[id].IsLearner
  BY <1>1 DEF JointIDs
<1>5. ~joint(c) => c.LearnersNext = {} /\ ~c.AutoLeave
  BY <1>1 DEF joint, ConfOK
<1>6. checkInvariants(c)
  BY <1>2, <1>3, <1>4, <1>5 DEF checkInvariants
<1>. QED
  BY <1>6 DEF Checked

\* A single change moves at most one voter.
LEMMA OneVoterMoves ==
    ASSUME NEW V, IsFiniteSet(V), NEW cc, NEW W, W = NextVoters(V, cc)
    PROVE  symdiff(V, W) \in Nat /\ symdiff(V, W) <= 1
<1>1. W \in {V, V \cup {cc.id}, V \ {cc.id}}
  BY DEF NextVoters
<1>2. PICK P, Q : P = V \ W /\ Q = W \ V
  OBVIOUS
<1>3. (P = {} /\ Q = {}) \/ (P = {} /\ Q = {cc.id}) \/ (P = {cc.id} /\ Q = {})
  <2>1. CASE W = V \cup {cc.id} /\ cc.id \notin V
    <3>1. P = {} /\ Q = {cc.id}
      BY <1>2, <2>1
    <3>. QED
      BY <3>1
  <2>2. CASE W = V \ {cc.id} /\ cc.id \in V
    <3>1. P = {cc.id} /\ Q = {}
      BY <1>2, <2>2
    <3>. QED
      BY <3>1
  <2>3. CASE W = V
    <3>1. P = {} /\ Q = {}
      BY <1>2, <2>3
    <3>. QED
      BY <3>1
  <2>4. V \cup {cc.id} = V \/ cc.id \notin V
    OBVIOUS
  <2>5. V \ {cc.id} = V \/ cc.id \in V
    OBVIOUS
  <2>. QED
    BY <1>1, <2>1, <2>2, <2>3, <2>4, <2>5
<1>4. symdiff(V, W) = Cardinality(P) + Cardinality(Q)
  BY <1>2 DEF symdiff
<1>5. Cardinality({}) = 0 /\ Cardinality({cc.id}) = 1
  BY FS_EmptySet, FS_Singleton
<1>. QED
  BY <1>3, <1>4, <1>5

\* Simple carries out a single change that leaves a voter.
LEMMA SimpleIs ==
    ASSUME NEW c, ConfOK(c), ~joint(c), NEW cc \in Change,
           NextVoters(c.Voters[1], cc) # {}, NEW d, d = Simple(c, <<cc>>)
    PROVE  /\ d = Changed(c, cc) /\ ConfOK(d) /\ Ok(d) /\ ~joint(d)
           /\ d.Voters[1] # {} /\ symdiff(c.Voters[1], d.Voters[1]) <= 1
           /\ \A j \in Members(c) \cap Members(d) : d.Progress[j].Match = c.Progress[j].Match
<1>1. PICK n : n = Changed(c, cc)
  OBVIOUS
<1>2. /\ WellFormed(n) /\ Keeps(c, n) /\ n.Voters[1] = NextVoters(c.Voters[1], cc)
      /\ \A j \in Members(c) \cap Members(n) : n.Progress[j].Match = c.Progress[j].Match
  BY <1>1, ChangedIs DEF ConfOK
<1>3. ConfOK(n) /\ ~joint(n)
  BY <1>2 DEF ConfOK, Keeps, joint
<1>4. Ok(n)
  BY <1>2, ConfigIsOk DEF WellFormed
<1>5. apply(c, <<cc>>) = n
  BY <1>1, <1>2, ApplyOne
<1>6. symdiff(c.Voters[1], n.Voters[1]) <= 1 /\ ~(symdiff(c.Voters[1], n.Voters[1]) > 1)
  <2>1. c.Voters[1] \in SUBSET Members(c) /\ IsFiniteSet(Members(c))
    BY DEF ConfOK, WellFormed, JointIDs
  <2>2. IsFiniteSet(c.Voters[1])
    BY <2>1, FS_Subset
  <2>3. PICK k : k = symdiff(c.Voters[1], n.Voters[1])
    OBVIOUS
  <2>4. k \in Nat /\ k <= 1
    BY <1>2, <2>2, <2>3, OneVoterMoves
  <2>. QED
    BY <2>3, <2>4
<1>7. d = n
  BY <1>3, <1>4, <1>5, <1>6, ConfIsChecked DEF Simple
<1>. QED
  BY <1>1, <1>2, <1>3, <1>4, <1>6, <1>7

\* Where EnterJoint begins: the voters are the outgoing half as well.
LEMMA DoubledIs ==
    ASSUME NEW c, ConfOK(c), ~joint(c), NEW e, e = [c EXCEPT !.Voters[2] = c.Voters[1]]
    PROVE  /\ WellFormed(e) /\ e.Voters[1] = c.Voters[1] /\ e.Voters[2] = c.Voters[1]
           /\ e.Learners = c.Learners /\ e.LearnersNext = c.LearnersNext
           /\ e.AutoLeave = c.AutoLeave /\ e.Progress = c.Progress
<1>1. /\ c \in Config /\ c.Voters[2] = {} /\ c.LearnersNext = {}
      /\ IsFiniteSet(Members(c)) /\ Members(c) = c.Voters[1] \cup c.Learners
      /\ c.Learners \cap c.Voters[1] = {}
      /\ \A id \in Members(c) : c.Progress[id].IsLearner <=> id \in c.Learners
  BY DEF ConfOK, WellFormed, JointIDs, joint
<1>2. PICK v : v = [c.Voters EXCEPT ![2] = c.Voters[1]]
  OBVIOUS
<1>3. v \in [1..2 -> SUBSET Node] /\ v[1] = c.Voters[1] /\ v[2] = c.Voters[1]
  BY <1>1, <1>2, ConfigParts
<1>4. e = [Voters |-> v, Learners |-> c.Learners, LearnersNext |-> c.LearnersNext,
           AutoLeave |-> c.AutoLeave, Progress |-> c.Progress]
  BY <1>1, <1>2 DEF Config
<1>5. e \in Config
  BY <1>1, <1>3, <1>4 DEF Config
<1>6. /\ e.Voters[1] = c.Voters[1] /\ e.Voters[2] = c.Voters[1]
      /\ e.Learners = c.Learners /\ e.LearnersNext = c.LearnersNext
      /\ e.AutoLeave = c.AutoLeave /\ e.Progress = c.Progress
  BY <1>3, <1>4
<1>7. Members(e) = Members(c)
  BY <1>6 DEF Members
<1>8. WellFormed(e)
  BY <1>1, <1>5, <1>6, <1>7 DEF WellFormed, JointIDs
<1>. QED
  BY <1>6, <1>8

\* EnterJoint carries out changes that leave a voter, and keeps the old voters.
LEMMA EnterJointIs ==
    ASSUME NEW c, ConfOK(c), ~joint(c), c.Voters[1] # {}, NEW b \in BOOLEAN,
           NEW ccs \in Seq(Change), NEW e, e = [c EXCEPT !.Voters[2] = c.Voters[1]],
           NEW n, n = apply(e, ccs), Ok(n), NEW d, d = EnterJoint(c, b, ccs)
    PROVE  /\ d = [n EXCEPT !.AutoLeave = b] /\ ConfOK(d) /\ Ok(d) /\ joint(d)
           /\ d.Voters[1] # {} /\ d.Voters[2] = c.Voters[1]
           /\ \A j \in c.Voters[1] : d.Progress[j].Match = c.Progress[j].Match
<1>1. /\ WellFormed(e) /\ e.Voters[2] = c.Voters[1] /\ e.Progress = c.Progress
  BY DoubledIs
<1>2. PICK g : /\ OnTheWay(e, ccs, g)
               /\ n = IF g[Len(ccs)].Voters[1] = {} THEN Refused ELSE g[Len(ccs)]
  BY ApplyIs
<1>3. n = g[Len(ccs)] /\ n.Voters[1] # {}
  BY <1>2 DEF Ok
<1>4. WellFormed(n) /\ Keeps(e, n)
  <2>1. Len(ccs) \in 0..Len(ccs)
    OBVIOUS
  <2>. QED
    BY <1>1, <1>2, <1>3, <2>1, WayIsWellFormed
<1>5. PICK m : m = [n EXCEPT !.AutoLeave = b]
  OBVIOUS
<1>6. /\ n \in Config /\ m \in Config /\ m.Voters = n.Voters /\ m.Learners = n.Learners
      /\ m.LearnersNext = n.LearnersNext /\ m.Progress = n.Progress
  BY <1>4, <1>5 DEF WellFormed, Config
<1>7. WellFormed(m)
  BY <1>4, <1>6 DEF WellFormed, Members
<1>8. m.Voters[2] = c.Voters[1] /\ joint(m)
  BY <1>1, <1>4, <1>6 DEF Keeps, joint
<1>9. ConfOK(m) /\ Ok(m)
  BY <1>6, <1>7, <1>8, ConfigIsOk DEF ConfOK
<1>10. d = m
  BY <1>5, <1>9, ConfIsChecked DEF EnterJoint
<1>11. \A j \in c.Voters[1] : m.Progress[j].Match = c.Progress[j].Match
  BY <1>1, <1>4, <1>6 DEF Keeps
<1>. QED
  BY <1>3, <1>5, <1>6, <1>8, <1>9, <1>10, <1>11

\* LeaveJoint drops the outgoing half and those who are only there, and the staged
\* learners become learners.
LEMMA LeaveJointIs ==
    ASSUME NEW c, ConfOK(c), joint(c), NEW d, d = LeaveJoint(c)
    PROVE  /\ ConfOK(d) /\ Ok(d) /\ ~joint(d)
           /\ d.Voters[1] = c.Voters[1] /\ d.Voters[2] = {}
           /\ Members(d) \subseteq Members(c)
           /\ \A j \in Members(d) : d.Progress[j].Match = c.Progress[j].Match
<1>1. /\ c \in Config /\ IsFiniteSet(Members(c))
      /\ Members(c) = c.Voters[1] \cup c.Voters[2] \cup c.Learners
      /\ c.LearnersNext \subseteq c.Voters[2] \ c.Voters[1]
      /\ c.Learners \cap (c.Voters[1] \cup c.Voters[2]) = {}
      /\ \A id \in Members(c) : c.Progress[id].IsLearner <=> id \in c.Learners
  BY DEF ConfOK, WellFormed, JointIDs
<1>2. /\ c.Voters \in [1..2 -> SUBSET Node] /\ c.Progress \in [Members(c) -> Track]
      /\ Members(c) \in SUBSET Node
      /\ c.Learners \in SUBSET Node /\ c.LearnersNext \in SUBSET Node
  BY <1>1, ConfigParts
<1>3. PICK learners : learners = c.Learners \cup c.LearnersNext
  OBVIOUS
<1>4. PICK prs : prs = [id \in Members(c) |->
                          [c.Progress[id] EXCEPT !.IsLearner = @ \/ id \in c.LearnersNext]]
  OBVIOUS
<1>5. PICK M : M = Members(c) \ (c.Voters[2] \ (c.Voters[1] \cup learners))
  OBVIOUS
<1>6. PICK f : f = Restrict(prs, M)
  OBVIOUS
<1>7. PICK v : v = [c.Voters EXCEPT ![2] = {}]
  OBVIOUS
<1>8. v \in [1..2 -> SUBSET Node] /\ v[1] = c.Voters[1] /\ v[2] = {}
  BY <1>2, <1>7
<1>9. PICK b \in BOOLEAN : ~b
  OBVIOUS
<1>10. PICK n : n = [c EXCEPT !.Voters[2] = {}, !.Learners = learners, !.LearnersNext = {},
                              !.AutoLeave = b, !.Progress = f]
  OBVIOUS
<1>11. d = Checked(n)
  <2>1. DOMAIN prs = Members(c)
    BY <1>4
  <2>. QED
    BY <1>3, <1>4, <1>5, <1>6, <1>9, <1>10, <2>1 DEF LeaveJoint
<1>12. M = c.Voters[1] \cup learners /\ M \subseteq Members(c)
  BY <1>1, <1>3, <1>5
<1>13. ASSUME NEW id \in Members(c)
       PROVE  /\ prs[id] \in Track /\ prs[id].Match = c.Progress[id].Match
              /\ prs[id].IsLearner <=> id \in learners
  <2>1. c.Progress[id] \in Track
    BY <1>2
  <2>2. prs[id] = [c.Progress[id] EXCEPT !.IsLearner = c.Progress[id].IsLearner \/ id \in c.LearnersNext]
    BY <1>4
  <2>3. /\ prs[id].IsLearner = (c.Progress[id].IsLearner \/ id \in c.LearnersNext)
        /\ prs[id].Match = c.Progress[id].Match /\ prs[id] \in Track
    BY <2>1, <2>2 DEF Track
  <2>4. c.Progress[id].IsLearner <=> id \in c.Learners
    BY <1>1
  <2>. QED
    BY <1>3, <2>3, <2>4
<1>14. f \in [M -> Track] /\ DOMAIN f = M /\ \A id \in M : f[id] = prs[id]
  BY <1>6, <1>12, <1>13 DEF Restrict
<1>15. n \in Config
  <2>1. f \in UNION {[K -> Track] : K \in SUBSET Node}
    BY <1>2, <1>12, <1>14
  <2>2. learners \in SUBSET Node
    BY <1>2, <1>3
  <2>3. n = [Voters |-> v, Learners |-> learners, LearnersNext |-> {}, AutoLeave |-> b,
             Progress |-> f]
    BY <1>1, <1>7, <1>10 DEF Config
  <2>. QED
    BY <1>8, <2>1, <2>2, <2>3 DEF Config
<1>16. /\ n.Voters = v /\ n.Learners = learners /\ n.LearnersNext = {}
       /\ ~n.AutoLeave /\ n.Progress = f
  BY <1>1, <1>7, <1>9, <1>10 DEF Config
<1>17. Members(n) = M /\ IsFiniteSet(M)
  BY <1>1, <1>12, <1>14, <1>16, FS_Subset DEF Members
<1>18. \A id \in M : n.Progress[id].IsLearner <=> id \in n.Learners
  BY <1>12, <1>13, <1>14, <1>16
<1>19. n.Learners \cap (n.Voters[1] \cup n.Voters[2]) = {}
  BY <1>1, <1>3, <1>8, <1>16
<1>20. WellFormed(n)
  BY <1>8, <1>12, <1>15, <1>16, <1>17, <1>18, <1>19 DEF WellFormed, JointIDs
<1>21. ~joint(n)
  BY <1>8, <1>16 DEF joint
<1>22. ConfOK(n) /\ Ok(n)
  BY <1>15, <1>16, <1>20, ConfigIsOk DEF ConfOK
<1>23. d = n
  BY <1>11, <1>22, ConfIsChecked
<1>24. \A j \in M : n.Progress[j].Match = c.Progress[j].Match
  BY <1>12, <1>13, <1>14, <1>16
<1>. QED
  BY <1>8, <1>12, <1>16, <1>17, <1>21, <1>22, <1>23, <1>24

-----------------------------------------------------------------------------
(* The slices of a ConfState.                                              *)

\* A sorted slice holds the set: every element, and nothing else.
LEMMA SortedIs ==
    ASSUME NEW S, IsFiniteSet(S), S \subseteq Nat, NEW n, n = Cardinality(S)
    PROVE  /\ n \in Nat
           /\ \A k \in 1..n : Sorted(S)[k] \in S
           /\ \A id \in S : \E k \in 1..n : Sorted(S)[k] = id
<1>. DEFINE Upto(id) == {j \in S : j <= id}
            Rank(id) == Cardinality(Upto(id))
            f == [id \in S |-> Rank(id)]
<1>1. n \in Nat
  BY FS_CardinalityType
<1>2. ASSUME NEW id \in S
      PROVE  /\ Upto(id) \in SUBSET S /\ IsFiniteSet(Upto(id)) /\ Rank(id) \in 1..n
  <2>1. Upto(id) \in SUBSET S /\ id \in Upto(id)
    OBVIOUS
  <2>2. IsFiniteSet(Upto(id)) /\ Rank(id) <= n /\ Rank(id) \in Nat
    BY <2>1, FS_Subset, FS_CardinalityType
  <2>3. Rank(id) # 0
    BY <2>1, <2>2, FS_EmptySet
  <2>. QED
    BY <1>1, <2>1, <2>2, <2>3
<1>3. ASSUME NEW a \in S, NEW b \in S, Rank(a) = Rank(b) PROVE a = b
  <2>1. ASSUME NEW x \in S, NEW y \in S, x < y PROVE Rank(x) # Rank(y)
    <3>1. Upto(x) \in SUBSET Upto(y) /\ y \in Upto(y) /\ y \notin Upto(x)
      <4>1. x \in Nat /\ y \in Nat /\ \A j \in S : j \in Nat
        OBVIOUS
      <4>2. \A j \in S : j <= x => j <= y
        BY <2>1, <4>1
      <4>3. y <= y /\ ~(y <= x)
        BY <2>1, <4>1
      <4>. QED
        BY <4>2, <4>3
    <3>2. IsFiniteSet(Upto(y))
      BY <1>2
    <3>. HIDE DEF Upto
    <3>. QED
      BY <3>1, <3>2, FS_Subset
  <2>2. a < b \/ b < a \/ a = b
    OBVIOUS
  <2>. QED
    BY <1>3, <2>1, <2>2
<1>4. f \in Injection(S, 1..n)
  <2>1. f \in [S -> 1..n]
    BY <1>2
  <2>2. \A a, b \in S : f[a] = f[b] => a = b
    BY <1>3
  <2>. HIDE DEF f
  <2>. QED
    BY <2>1, <2>2 DEF Injection, IsInjective
<1>5. f \in Surjection(S, 1..n)
  <2>1. IsFiniteSet(1..n) /\ Cardinality(1..n) = n
    BY <1>1, FS_Interval
  <2>. HIDE DEF f
  <2>. QED
    BY <1>4, <2>1, FS_Injection
<1>6. ASSUME NEW k \in 1..n PROVE Sorted(S)[k] \in S /\ Rank(Sorted(S)[k]) = k
  <2>1. PICK id \in S : f[id] = k
    BY <1>5 DEF Surjection
  <2>2. Sorted(S)[k] = CHOOSE i \in S : Rank(i) = k
    BY DEF Sorted
  <2>3. Rank(id) = k
    BY <2>1
  <2>. HIDE DEF Rank
  <2>. QED
    BY <2>2, <2>3
<1>7. ASSUME NEW id \in S PROVE Sorted(S)[Rank(id)] = id
  BY <1>2, <1>3, <1>6
<1>. QED
  BY <1>1, <1>2, <1>6, <1>7

\* In ccs, n changes of one type after the first from are about exactly the set S.
Placed(ccs, t, S, from, n) ==
    /\ \A k \in 1..n : /\ from + k \in 1..Len(ccs)
                       /\ ccs[from + k].type = t /\ ccs[from + k].id \in S
    /\ \A id \in S : \E k \in 1..n : ccs[from + k].id = id

\* The changes that are made of a slice.
LEMMA EachIs ==
    ASSUME NEW S \in SUBSET Node, IsFiniteSet(S), NEW t \in ChangeType, NEW s, s = Each(t, S)
    PROVE  s \in Seq(Change) /\ Len(s) \in Nat /\ Placed(s, t, S, 0, Len(s))
<1>1. PICK n : n = Cardinality(S)
  OBVIOUS
<1>2. S \subseteq Nat
  BY NodeAssumption
<1>3. /\ n \in Nat /\ \A k \in 1..n : Sorted(S)[k] \in S
      /\ \A id \in S : \E k \in 1..n : Sorted(S)[k] = id
  BY <1>1, <1>2, SortedIs
<1>4. s = [k \in 1..n |-> [type |-> t, id |-> Sorted(S)[k]]]
  BY <1>1 DEF Each
<1>5. s \in [1..n -> Change]
  BY <1>3, <1>4 DEF Change
<1>6. s \in Seq(Change) /\ Len(s) = n
  BY <1>3, <1>5
<1>7. \A k \in 1..n : s[k].type = t /\ s[k].id = Sorted(S)[k] /\ 0 + k = k
  BY <1>4
<1>. QED
  BY <1>1, <1>3, <1>6, <1>7 DEF Placed

\* What is placed in one of two slices is placed in the two together.
LEMMA PlacedJoin ==
    ASSUME NEW a \in Seq(Change), NEW b \in Seq(Change), NEW p, p = a \o b
    PROVE  /\ p \in Seq(Change) /\ Len(p) = Len(a) + Len(b) /\ Len(p) \in Nat
           /\ \A t, S, n : Placed(b, t, S, 0, n) => Placed(p, t, S, Len(a), n)
           /\ \A t, S, n, i : i \in Nat /\ Placed(a, t, S, i, n) => Placed(p, t, S, i, n)
<1>1. PICK u \in Nat, v \in Nat : u = Len(a) /\ v = Len(b)
  OBVIOUS
<1>2. /\ p \in Seq(Change) /\ Len(p) = u + v
      /\ \A k \in 1..u : p[k] = a[k] /\ k \in 1..(u + v)
      /\ \A k \in 1..v : p[u + k] = b[k] /\ u + k \in 1..(u + v)
  BY <1>1
<1>3. ASSUME NEW t, NEW S, NEW n, Placed(b, t, S, 0, n) PROVE Placed(p, t, S, u, n)
  <2>1. \A k \in 1..n : 0 + k = k
    OBVIOUS
  <2>2. \A k \in 1..n : k \in 1..v /\ b[k].type = t /\ b[k].id \in S
    BY <1>1, <1>3, <2>1 DEF Placed
  <2>3. \A id \in S : \E k \in 1..n : b[k].id = id
    BY <1>3, <2>1 DEF Placed
  <2>. QED
    BY <1>2, <2>2, <2>3 DEF Placed
<1>4. ASSUME NEW t, NEW S, NEW n, NEW i \in Nat, Placed(a, t, S, i, n) PROVE Placed(p, t, S, i, n)
  <2>1. \A k \in 1..n : i + k \in 1..u /\ a[i + k].type = t /\ a[i + k].id \in S
    BY <1>1, <1>4 DEF Placed
  <2>2. \A id \in S : \E k \in 1..n : a[i + k].id = id
    BY <1>4 DEF Placed
  <2>3. \A k \in 1..n : p[i + k] = a[i + k] /\ i + k \in 1..(u + v)
    BY <1>2, <2>1
  <2>. QED
    BY <1>2, <2>1, <2>2, <2>3 DEF Placed
<1>. QED
  BY <1>1, <1>2, <1>3, <1>4

-----------------------------------------------------------------------------
(* Restore: the way from an empty configuration to that of a ConfState.    *)

\* The servers that the first k changes of a type are about.
Ids(ccs, k, t) == {id \in Node : \E j \in 1..k : ccs[j].type = t /\ ccs[j].id = id}

\* The changes toConfChangeSingle makes: remove the voters O, add the voters V, then
\* the learners L and the staged ones N.
Orderly(O, V, L, N, ccs) ==
    /\ O \cup V \cup L \cup N \subseteq Node
    /\ V \cap (L \cup N) = {} /\ L \cap O = {} /\ N \subseteq O
    /\ \A k \in 1..Len(ccs) :
        \/ /\ ccs[k].type = "RemoveNode" /\ ccs[k].id \in O
           /\ \A j \in 1..k : ccs[j].type = "RemoveNode"
        \/ /\ ccs[k].type = "AddNode" /\ ccs[k].id \in V
           /\ O \subseteq Ids(ccs, k - 1, "RemoveNode")
        \/ /\ ccs[k].type = "AddLearnerNode" /\ ccs[k].id \in L \cup N
           /\ O \subseteq Ids(ccs, k - 1, "RemoveNode")
           /\ V \subseteq Ids(ccs, k - 1, "AddNode")

\* Where such changes have led after the first k, from <<O, O>>.
At(O, ccs, k, c) ==
    /\ c.Voters[1] = (O \ Ids(ccs, k, "RemoveNode")) \cup Ids(ccs, k, "AddNode")
    /\ c.Voters[2] = O
    /\ c.Learners = Ids(ccs, k, "AddLearnerNode") \ O
    /\ c.LearnersNext = Ids(ccs, k, "AddLearnerNode") \cap O

\* One more change is about one more server.
LEMMA IdsStep ==
    ASSUME NEW ccs, NEW k \in Nat, NEW id \in Node, ccs[k + 1].id = id, NEW t
    PROVE  Ids(ccs, k + 1, t) = IF ccs[k + 1].type = t THEN Ids(ccs, k, t) \cup {id}
                                ELSE Ids(ccs, k, t)
<1>1. \A j : j \in 1..(k + 1) <=> j \in 1..k \/ j = k + 1
  OBVIOUS
<1>2. CASE ccs[k + 1].type = t
  <2>1. \A i \in Node : (\E j \in 1..(k + 1) : ccs[j].type = t /\ ccs[j].id = i)
                        <=> (\E j \in 1..k : ccs[j].type = t /\ ccs[j].id = i) \/ i = id
    BY <1>1, <1>2
  <2>. QED
    BY <1>2, <2>1 DEF Ids
<1>3. CASE ccs[k + 1].type # t
  <2>1. \A i \in Node : (\E j \in 1..(k + 1) : ccs[j].type = t /\ ccs[j].id = i)
                        <=> (\E j \in 1..k : ccs[j].type = t /\ ccs[j].id = i)
    BY <1>1, <1>3
  <2>. QED
    BY <1>3, <2>1 DEF Ids
<1>. QED
  BY <1>2, <1>3

\* Before the first change there are none.
LEMMA IdsNone ==
    ASSUME NEW ccs, NEW t
    PROVE  Ids(ccs, 0, t) = {}
  BY DEF Ids

\* Only servers of these sets are added.
LEMMA IdsBound ==
    ASSUME NEW O, NEW V, NEW L, NEW N, NEW ccs \in Seq(Change), Orderly(O, V, L, N, ccs),
           NEW k \in Nat, k <= Len(ccs)
    PROVE  /\ Ids(ccs, k, "RemoveNode") \subseteq O
           /\ Ids(ccs, k, "AddNode") \subseteq V
           /\ Ids(ccs, k, "AddLearnerNode") \subseteq L \cup N
<1>1. \A j \in 1..k : j \in 1..Len(ccs)
  OBVIOUS
<1>2. \A j \in 1..k : /\ ccs[j].type = "RemoveNode" => ccs[j].id \in O
                      /\ ccs[j].type = "AddNode" => ccs[j].id \in V
                      /\ ccs[j].type = "AddLearnerNode" => ccs[j].id \in L \cup N
  BY <1>1 DEF Orderly
<1>. QED
  BY <1>2 DEF Ids

\* Each change leads from one such configuration to the next.
LEMMA OrderlyStep ==
    ASSUME NEW O, NEW V, NEW L, NEW N, NEW ccs \in Seq(Change), Orderly(O, V, L, N, ccs),
           NEW k \in Nat, k + 1 <= Len(ccs),
           NEW c, WellFormed(c), At(O, ccs, k, c), NEW d, d = Changed(c, ccs[k + 1])
    PROVE  At(O, ccs, k + 1, d)
<1>. DEFINE cc == ccs[k + 1]
            R == Ids(ccs, k, "RemoveNode")
            A == Ids(ccs, k, "AddNode")
            M == Ids(ccs, k, "AddLearnerNode")
<1>1. k + 1 \in 1..Len(ccs) /\ (k + 1) - 1 = k /\ k <= Len(ccs)
  OBVIOUS
<1>2. R \subseteq O /\ A \subseteq V /\ M \subseteq L \cup N
  BY <1>1, IdsBound
<1>3. /\ V \cap (L \cup N) = {} /\ L \cap O = {} /\ N \subseteq O
      /\ O \cup V \cup L \cup N \subseteq Node
  BY DEF Orderly
<1>4. /\ c.Voters[1] = (O \ R) \cup A /\ c.Voters[2] = O
      /\ c.Learners = M \ O /\ c.LearnersNext = M \cap O
  BY DEF At
<1>5. \/ /\ cc.type = "RemoveNode" /\ cc.id \in O
         /\ \A j \in 1..(k + 1) : ccs[j].type = "RemoveNode"
      \/ /\ cc.type = "AddNode" /\ cc.id \in V /\ O \subseteq R
      \/ /\ cc.type = "AddLearnerNode" /\ cc.id \in L \cup N /\ O \subseteq R
         /\ V \subseteq A
  BY <1>1 DEF Orderly
<1>. HIDE DEF cc, R, A, M
<1>6. PICK id \in Node : id = cc.id
  BY <1>3, <1>5
<1>7. id # 0
  BY NodeAssumption
<1>8. /\ Ids(ccs, k + 1, "RemoveNode") = IF cc.type = "RemoveNode" THEN R \cup {id} ELSE R
      /\ Ids(ccs, k + 1, "AddNode") = IF cc.type = "AddNode" THEN A \cup {id} ELSE A
      /\ Ids(ccs, k + 1, "AddLearnerNode") = IF cc.type = "AddLearnerNode" THEN M \cup {id} ELSE M
  <2>1. ccs[k + 1].id = id
    BY <1>6 DEF cc
  <2>2. Ids(ccs, k + 1, "RemoveNode") = IF cc.type = "RemoveNode" THEN R \cup {id} ELSE R
    BY <2>1, IdsStep DEF cc, R
  <2>3. Ids(ccs, k + 1, "AddNode") = IF cc.type = "AddNode" THEN A \cup {id} ELSE A
    BY <2>1, IdsStep DEF cc, A
  <2>4. Ids(ccs, k + 1, "AddLearnerNode") = IF cc.type = "AddLearnerNode" THEN M \cup {id} ELSE M
    BY <2>1, IdsStep DEF cc, M
  <2>. QED
    BY <2>2, <2>3, <2>4
<1>9. CASE cc.type = "RemoveNode"
  <2>1. id \in O /\ A = {} /\ M = {}
    <3>1. \A j \in 1..k : ccs[j].type = "RemoveNode"
      BY <1>5, <1>9
    <3>. QED
      BY <1>5, <1>6, <1>9, <3>1 DEF A, M, Ids
  <2>2. d = remove(c, id)
    BY <1>6, <1>7, <1>9 DEF Changed, cc
  <2>3. Removed(c, d, id)
    BY <2>2, RemoveIs
  <2>4. /\ d.Voters[1] = c.Voters[1] \ {id} /\ d.Voters[2] = c.Voters[2]
        /\ d.Learners = c.Learners \ {id} /\ d.LearnersNext = c.LearnersNext \ {id}
    BY <2>3 DEF Removed
  <2>5. /\ Ids(ccs, k + 1, "RemoveNode") = R \cup {id} /\ Ids(ccs, k + 1, "AddNode") = A
        /\ Ids(ccs, k + 1, "AddLearnerNode") = M
    BY <1>8, <1>9
  <2>. QED
    BY <1>4, <2>1, <2>4, <2>5 DEF At
<1>10. CASE cc.type = "AddNode"
  <2>1. id \in V /\ O \subseteq R
    BY <1>5, <1>6, <1>10
  <2>2. d = makeVoter(c, id)
    BY <1>6, <1>7, <1>10 DEF Changed, cc
  <2>3. MadeVoter(c, d, id)
    BY <2>2, MakeVoterIs
  <2>4. /\ d.Voters[1] = c.Voters[1] \cup {id} /\ d.Voters[2] = c.Voters[2]
        /\ d.Learners = c.Learners \ {id} /\ d.LearnersNext = c.LearnersNext \ {id}
    BY <2>3 DEF MadeVoter
  <2>5. /\ Ids(ccs, k + 1, "RemoveNode") = R /\ Ids(ccs, k + 1, "AddNode") = A \cup {id}
        /\ Ids(ccs, k + 1, "AddLearnerNode") = M
    BY <1>8, <1>10
  <2>6. id \notin M
    BY <1>2, <1>3, <2>1
  <2>. QED
    BY <1>4, <2>1, <2>4, <2>5, <2>6 DEF At
<1>11. CASE cc.type = "AddLearnerNode"
  <2>1. id \in L \cup N /\ O \subseteq R
    BY <1>5, <1>6, <1>11
  <2>2. d = makeLearner(c, id)
    BY <1>6, <1>7, <1>11 DEF Changed, cc
  <2>3. MadeLearner(c, d, id)
    BY <2>2, MakeLearnerIs
  <2>4. /\ d.Voters[1] = c.Voters[1] \ {id} /\ d.Voters[2] = c.Voters[2]
        /\ d.Learners = IF id \in c.Voters[2] THEN c.Learners ELSE c.Learners \cup {id}
        /\ d.LearnersNext = IF id \in c.Voters[2] THEN c.LearnersNext \cup {id} ELSE c.LearnersNext
    BY <2>3 DEF MadeLearner
  <2>5. /\ Ids(ccs, k + 1, "RemoveNode") = R /\ Ids(ccs, k + 1, "AddNode") = A
        /\ Ids(ccs, k + 1, "AddLearnerNode") = M \cup {id}
    BY <1>8, <1>11
  <2>6. id \notin A
    BY <1>2, <1>3, <2>1
  <2>7. d.Voters[1] = (O \ R) \cup A
    BY <1>4, <2>1, <2>4, <2>6
  <2>8. CASE id \in O
    BY <1>4, <2>4, <2>5, <2>7, <2>8 DEF At
  <2>9. CASE id \notin O
    BY <1>4, <2>4, <2>5, <2>7, <2>9 DEF At
  <2>. QED
    BY <2>8, <2>9
<1>. QED
  BY <1>5, <1>9, <1>10, <1>11

\* One of the changes that are carried out one by one.
NextSimple(c, cc) == IF Ok(c) THEN Simple(c, <<cc>>) ELSE Refused

\* What OneByOne does.
LEMMA OneByOneIs ==
    ASSUME NEW c, NEW ccs \in Seq(Change)
    PROVE  \E g : /\ g[0] = c /\ g[Len(ccs)] = OneByOne(c, ccs)
                  /\ \A k \in 1..Len(ccs) : g[k] = NextSimple(g[k - 1], ccs[k])
<1>. DEFINE Is(f, n) == f = [k \in 0..n |-> IF k = 0 THEN c ELSE NextSimple(f[k - 1], ccs[k])]
            S == {n \in Nat : \E f : Is(f, n)}
            g == CHOOSE f : Is(f, Len(ccs))
<1>1. Len(ccs) \in Nat
  OBVIOUS
<1>2. 0 \in S
  <2>1. Is([k \in 0..0 |-> c], 0)
    OBVIOUS
  <2>. QED
    BY <2>1
<1>3. ASSUME NEW n \in Nat, n \in S PROVE n + 1 \in S
  <2>1. PICK f : Is(f, n)
    BY <1>3
  <2>. DEFINE h == [k \in 0..(n + 1) |-> IF k = n + 1 THEN NextSimple(f[n], ccs[n + 1]) ELSE f[k]]
  <2>2. \A k \in 0..(n + 1) : h[k] = IF k = 0 THEN c ELSE NextSimple(h[k - 1], ccs[k])
    <3>1. SUFFICES ASSUME NEW k \in 0..(n + 1)
                   PROVE  h[k] = IF k = 0 THEN c ELSE NextSimple(h[k - 1], ccs[k])
      OBVIOUS
    <3>2. CASE k = n + 1
      BY <3>2
    <3>3. CASE k # n + 1
      <4>1. k \in 0..n /\ h[k] = f[k]
        BY <3>3
      <4>2. f[k] = IF k = 0 THEN c ELSE NextSimple(f[k - 1], ccs[k])
        BY <2>1, <4>1
      <4>3. k # 0 => h[k - 1] = f[k - 1]
        BY <4>1
      <4>. QED
        BY <4>1, <4>2, <4>3
    <3>. QED
      BY <3>2, <3>3
  <2>3. Is(h, n + 1)
    BY <2>2
  <2>4. n + 1 \in Nat
    OBVIOUS
  <2>. HIDE DEF h, Is
  <2>. QED
    BY <2>3, <2>4
<1>4. Len(ccs) \in S
  <2>. HIDE DEF S
  <2>. QED
    BY <1>1, <1>2, <1>3, NatSetInduction
<1>5. Is(g, Len(ccs))
  BY <1>4
<1>6. OneByOne(c, ccs) = g[Len(ccs)]
  BY DEF OneByOne, NextSimple
<1>. HIDE DEF g
<1>7. g[0] = c
  BY <1>1, <1>5
<1>8. ASSUME NEW k \in 1..Len(ccs) PROVE g[k] = NextSimple(g[k - 1], ccs[k])
  <2>1. k \in 0..Len(ccs) /\ k # 0
    OBVIOUS
  <2>. QED
    BY <1>5, <2>1
<1>. QED
  BY <1>6, <1>7, <1>8

\* Adding voters and learners one by one to the empty configuration.
LEMMA OneByOneLeadsTo ==
    ASSUME NEW V, NEW L, V # {}, NEW ccs \in Seq(Change), Orderly({}, V, L, {}, ccs),
           NEW d, d = OneByOne(EmptyConfig, ccs)
    PROVE  ConfOK(d) /\ Ok(d) /\ ~joint(d) /\ At({}, ccs, Len(ccs), d)
<1>1. PICK g : /\ g[0] = EmptyConfig /\ g[Len(ccs)] = d
               /\ \A k \in 1..Len(ccs) : g[k] = NextSimple(g[k - 1], ccs[k])
  BY OneByOneIs
<1>. DEFINE Fine(k) == ConfOK(g[k]) /\ Ok(g[k]) /\ ~joint(g[k]) /\ At({}, ccs, k, g[k])
            S == {k \in Nat : k <= Len(ccs) => Fine(k)}
<1>2. 0 \in S
  <2>1. /\ EmptyConfig.Voters[1] = {} /\ EmptyConfig.Voters[2] = {} /\ ~EmptyConfig.AutoLeave
        /\ EmptyConfig.Learners = {} /\ EmptyConfig.LearnersNext = {}
    BY DEF EmptyConfig
  <2>2. ConfOK(EmptyConfig) /\ ~joint(EmptyConfig)
    BY <2>1, EmptyIsWellFormed DEF ConfOK, joint
  <2>3. Ok(EmptyConfig)
    BY EmptyIsWellFormed, ConfigIsOk DEF WellFormed
  <2>4. At({}, ccs, 0, EmptyConfig)
    BY <2>1, IdsNone DEF At
  <2>. QED
    BY <1>1, <2>2, <2>3, <2>4
<1>3. ASSUME NEW k \in Nat, k \in S PROVE k + 1 \in S
  <2>1. SUFFICES ASSUME k + 1 <= Len(ccs) PROVE Fine(k + 1)
    OBVIOUS
  <2>2. ConfOK(g[k]) /\ Ok(g[k]) /\ ~joint(g[k]) /\ At({}, ccs, k, g[k])
    BY <1>3, <2>1
  <2>3. k + 1 \in 1..Len(ccs) /\ (k + 1) - 1 = k /\ k <= Len(ccs)
    BY <2>1
  <2>4. PICK cc \in Change : cc = ccs[k + 1]
    BY <2>3
  <2>5. g[k + 1] = Simple(g[k], <<cc>>)
    <3>1. g[k + 1] = NextSimple(g[k], cc)
      BY <1>1, <2>3, <2>4
    <3>. QED
      BY <2>2, <3>1 DEF NextSimple
  <2>6. NextVoters(g[k].Voters[1], cc) # {}
    <3>1. g[k].Voters[1] = Ids(ccs, k, "AddNode") /\ Ids(ccs, k, "AddNode") \subseteq V
      <4>1. Ids(ccs, k, "AddNode") \subseteq V
        BY <2>3, IdsBound
      <4>. QED
        BY <2>2, <4>1 DEF At
    <3>2. \/ cc.type = "AddNode" /\ cc.id \in Node
          \/ /\ cc.type = "AddLearnerNode" /\ cc.id \in L /\ V \subseteq Ids(ccs, k, "AddNode")
             /\ V \cap L = {}
      BY <2>3, <2>4 DEF Orderly
    <3>3. CASE cc.type = "AddNode" /\ cc.id \in Node
      <4>1. cc.id # 0
        BY <3>3, NodeAssumption
      <4>2. NextVoters(g[k].Voters[1], cc) = g[k].Voters[1] \cup {cc.id}
        BY <3>3, <4>1 DEF NextVoters
      <4>. QED
        BY <4>2
    <3>4. CASE cc.type = "AddLearnerNode" /\ cc.id \in L /\ V \subseteq Ids(ccs, k, "AddNode")
               /\ V \cap L = {}
      <4>1. g[k].Voters[1] = V /\ cc.id \notin V
        BY <3>1, <3>4
      <4>2. NextVoters(V, cc) = V
        BY <3>4, <4>1 DEF NextVoters
      <4>. QED
        BY <4>1, <4>2
    <3>. QED
      BY <3>2, <3>3, <3>4
  <2>7. /\ g[k + 1] = Changed(g[k], cc) /\ ConfOK(g[k + 1]) /\ Ok(g[k + 1]) /\ ~joint(g[k + 1])
    BY <2>2, <2>5, <2>6, SimpleIs
  <2>8. At({}, ccs, k + 1, g[k + 1])
    BY <2>1, <2>2, <2>4, <2>7, OrderlyStep DEF ConfOK
  <2>. QED
    BY <2>7, <2>8
<1>4. \A k \in Nat : k \in S
  <2>. HIDE DEF S
  <2>. QED
    BY <1>2, <1>3, NatSetInduction
<1>5. Len(ccs) \in Nat
  OBVIOUS
<1>. QED
  BY <1>1, <1>4, <1>5

\* apply carries out orderly changes on a configuration with two equal halves.
LEMMA ApplyLeadsTo ==
    ASSUME NEW O, NEW V, NEW L, NEW N, NEW ccs \in Seq(Change), Orderly(O, V, L, N, ccs),
           NEW e, WellFormed(e), At(O, ccs, 0, e),
           Ids(ccs, Len(ccs), "AddNode") # {}, NEW n, n = apply(e, ccs)
    PROVE  Ok(n) /\ WellFormed(n) /\ At(O, ccs, Len(ccs), n)
<1>1. PICK g : /\ OnTheWay(e, ccs, g)
               /\ n = IF g[Len(ccs)].Voters[1] = {} THEN Refused ELSE g[Len(ccs)]
  BY ApplyIs
<1>2. \A k \in 0..Len(ccs) : WellFormed(g[k])
  BY <1>1, WayIsWellFormed
<1>. DEFINE S == {k \in Nat : k <= Len(ccs) => At(O, ccs, k, g[k])}
<1>3. 0 \in S
  BY <1>1 DEF OnTheWay
<1>4. ASSUME NEW k \in Nat, k \in S PROVE k + 1 \in S
  <2>1. SUFFICES ASSUME k + 1 <= Len(ccs) PROVE At(O, ccs, k + 1, g[k + 1])
    OBVIOUS
  <2>2. k + 1 \in 1..Len(ccs) /\ (k + 1) - 1 = k /\ k \in 0..Len(ccs)
    BY <2>1
  <2>3. At(O, ccs, k, g[k]) /\ WellFormed(g[k])
    BY <1>2, <1>4, <2>2
  <2>4. g[k + 1] = Changed(g[k], ccs[k + 1])
    BY <1>1, <2>2 DEF OnTheWay
  <2>. QED
    BY <2>1, <2>3, <2>4, OrderlyStep
<1>5. \A k \in Nat : k \in S
  <2>. HIDE DEF S
  <2>. QED
    BY <1>3, <1>4, NatSetInduction
<1>6. Len(ccs) \in Nat /\ Len(ccs) \in 0..Len(ccs)
  OBVIOUS
<1>7. At(O, ccs, Len(ccs), g[Len(ccs)]) /\ WellFormed(g[Len(ccs)])
  BY <1>2, <1>5, <1>6
<1>8. n = g[Len(ccs)]
  BY <1>1, <1>7 DEF At
<1>. QED
  BY <1>7, <1>8, ConfigIsOk DEF WellFormed

\* Removals of O, then additions of V, then of the learners L and N, with nothing
\* between them or after them.
Layout(ccs, O, V, L, N, u, v, l, m) ==
    /\ Len(ccs) = u + v + l + m
    /\ Placed(ccs, "RemoveNode", O, 0, u) /\ Placed(ccs, "AddNode", V, u, v)
    /\ Placed(ccs, "AddLearnerNode", L, u + v, l) /\ Placed(ccs, "AddLearnerNode", N, u + v + l, m)

\* That is how toConfChangeSingle lays its changes out.
LEMMA ChangesLaidOut ==
    ASSUME NEW O \in SUBSET Node, NEW V \in SUBSET Node, NEW L \in SUBSET Node, NEW N \in SUBSET Node,
           IsFiniteSet(O), IsFiniteSet(V), IsFiniteSet(L), IsFiniteSet(N),
           NEW ccs, ccs = Each("RemoveNode", O) \o Each("AddNode", V)
                            \o Each("AddLearnerNode", L) \o Each("AddLearnerNode", N)
    PROVE  /\ ccs \in Seq(Change)
           /\ \E u, v, l, m \in Nat : Layout(ccs, O, V, L, N, u, v, l, m)
<1>1. PICK a, b, x, y : /\ a = Each("RemoveNode", O) /\ b = Each("AddNode", V)
                        /\ x = Each("AddLearnerNode", L) /\ y = Each("AddLearnerNode", N)
  OBVIOUS
<1>2. "RemoveNode" \in ChangeType /\ "AddNode" \in ChangeType /\ "AddLearnerNode" \in ChangeType
  BY DEF ChangeType
<1>3. a \in Seq(Change) /\ Len(a) \in Nat /\ Placed(a, "RemoveNode", O, 0, Len(a))
  BY <1>1, <1>2, EachIs
<1>4. b \in Seq(Change) /\ Len(b) \in Nat /\ Placed(b, "AddNode", V, 0, Len(b))
  BY <1>1, <1>2, EachIs
<1>5. x \in Seq(Change) /\ Len(x) \in Nat /\ Placed(x, "AddLearnerNode", L, 0, Len(x))
  BY <1>1, <1>2, EachIs
<1>6. y \in Seq(Change) /\ Len(y) \in Nat /\ Placed(y, "AddLearnerNode", N, 0, Len(y))
  BY <1>1, <1>2, EachIs
<1>7. PICK u \in Nat, v \in Nat, l \in Nat, m \in Nat :
        u = Len(a) /\ v = Len(b) /\ l = Len(x) /\ m = Len(y)
  BY <1>3, <1>4, <1>5, <1>6
<1>8. PICK p, q : p = a \o b /\ q = p \o x
  OBVIOUS
<1>9. PICK w \in Nat, z \in Nat : w = u + v /\ z = w + l
  OBVIOUS
<1>10. /\ p \in Seq(Change) /\ Len(p) = w
       /\ Placed(p, "RemoveNode", O, 0, u) /\ Placed(p, "AddNode", V, u, v)
  BY <1>3, <1>4, <1>7, <1>8, <1>9, PlacedJoin
<1>11. /\ q \in Seq(Change) /\ Len(q) = z
       /\ Placed(q, "RemoveNode", O, 0, u) /\ Placed(q, "AddNode", V, u, v)
       /\ Placed(q, "AddLearnerNode", L, w, l)
  <2>1. /\ q \in Seq(Change) /\ Len(q) = Len(p) + Len(x)
        /\ \A t, S, n : Placed(x, t, S, 0, n) => Placed(q, t, S, Len(p), n)
        /\ \A t, S, n, i : i \in Nat /\ Placed(p, t, S, i, n) => Placed(q, t, S, i, n)
    <3>1. p \in Seq(Change) /\ x \in Seq(Change) /\ q = p \o x
      BY <1>5, <1>8, <1>10
    <3>. QED
      BY <3>1, PlacedJoin
  <2>2. Placed(q, "AddLearnerNode", L, w, l)
    BY <1>5, <1>7, <1>10, <2>1
  <2>3. Placed(q, "RemoveNode", O, 0, u)
    BY <1>10, <2>1
  <2>4. Placed(q, "AddNode", V, u, v)
    BY <1>7, <1>10, <2>1
  <2>. QED
    BY <1>7, <1>9, <1>10, <2>1, <2>2, <2>3, <2>4
<1>12. ccs = q \o y
  BY <1>1, <1>8
<1>13. /\ ccs \in Seq(Change) /\ Len(ccs) = z + m
       /\ Placed(ccs, "RemoveNode", O, 0, u) /\ Placed(ccs, "AddNode", V, u, v)
       /\ Placed(ccs, "AddLearnerNode", L, w, l) /\ Placed(ccs, "AddLearnerNode", N, z, m)
  <2>1. PICK s : s = ccs
    OBVIOUS
  <2>2. /\ s \in Seq(Change) /\ Len(s) = Len(q) + Len(y)
        /\ \A t, S, n : Placed(y, t, S, 0, n) => Placed(s, t, S, Len(q), n)
        /\ \A t, S, n, i : i \in Nat /\ Placed(q, t, S, i, n) => Placed(s, t, S, i, n)
    <3>1. q \in Seq(Change) /\ y \in Seq(Change) /\ s = q \o y
      BY <1>6, <1>11, <1>12, <2>1
    <3>. QED
      BY <3>1, PlacedJoin
  <2>3. Placed(s, "AddLearnerNode", N, z, m)
    BY <1>6, <1>7, <1>11, <2>2
  <2>4. Placed(s, "RemoveNode", O, 0, u)
    BY <1>11, <2>2
  <2>5. Placed(s, "AddNode", V, u, v)
    BY <1>7, <1>11, <2>2
  <2>6. Placed(s, "AddLearnerNode", L, w, l)
    BY <1>9, <1>11, <2>2
  <2>7. s \in Seq(Change) /\ Len(s) = z + m
    BY <1>7, <1>11, <2>2
  <2>. QED
    BY <2>1, <2>3, <2>4, <2>5, <2>6, <2>7
<1>14. Layout(ccs, O, V, L, N, u, v, l, m)
  BY <1>9, <1>13 DEF Layout
<1>. QED
  BY <1>13, <1>14

\* Changes laid out this way are orderly, and about exactly these servers.
LEMMA LayoutIsOrderly ==
    ASSUME NEW O \in SUBSET Node, NEW V \in SUBSET Node, NEW L \in SUBSET Node, NEW N \in SUBSET Node,
           V \cap (L \cup N) = {}, L \cap O = {}, N \subseteq O, NEW ccs \in Seq(Change),
           NEW u \in Nat, NEW v \in Nat, NEW l \in Nat, NEW m \in Nat,
           Layout(ccs, O, V, L, N, u, v, l, m)
    PROVE  /\ Orderly(O, V, L, N, ccs)
           /\ Ids(ccs, Len(ccs), "RemoveNode") = O /\ Ids(ccs, Len(ccs), "AddNode") = V
           /\ Ids(ccs, Len(ccs), "AddLearnerNode") = L \cup N
<1>1. Len(ccs) = u + v + l + m
  BY DEF Layout
<1>2. /\ \A k \in 1..u : ccs[k].type = "RemoveNode" /\ ccs[k].id \in O
      /\ \A id \in O : \E k \in 1..u : ccs[k].id = id
  <2>1. \A k \in 1..u : 0 + k = k
    OBVIOUS
  <2>. QED
    BY <2>1 DEF Layout, Placed
<1>3. /\ \A k \in 1..v : ccs[u + k].type = "AddNode" /\ ccs[u + k].id \in V
      /\ \A id \in V : \E k \in 1..v : ccs[u + k].id = id
  BY DEF Layout, Placed
<1>4. /\ \A k \in 1..l : ccs[u + v + k].type = "AddLearnerNode" /\ ccs[u + v + k].id \in L
      /\ \A id \in L : \E k \in 1..l : ccs[u + v + k].id = id
  BY DEF Layout, Placed
<1>5. /\ \A k \in 1..m : ccs[u + v + l + k].type = "AddLearnerNode" /\ ccs[u + v + l + k].id \in N
      /\ \A id \in N : \E k \in 1..m : ccs[u + v + l + k].id = id
  BY DEF Layout, Placed
<1>6. ASSUME NEW k \in Nat, k >= u PROVE O \subseteq Ids(ccs, k, "RemoveNode")
  <2>1. SUFFICES ASSUME NEW id \in O PROVE id \in Ids(ccs, k, "RemoveNode")
    OBVIOUS
  <2>2. PICK i \in 1..u : ccs[i].id = id
    BY <1>2
  <2>3. i \in 1..k
    BY <1>6
  <2>. QED
    BY <1>2, <2>2, <2>3 DEF Ids
<1>7. ASSUME NEW k \in Nat, k >= u + v PROVE V \subseteq Ids(ccs, k, "AddNode")
  <2>1. SUFFICES ASSUME NEW id \in V PROVE id \in Ids(ccs, k, "AddNode")
    OBVIOUS
  <2>2. PICK i \in 1..v : ccs[u + i].id = id
    BY <1>3
  <2>3. u + i \in 1..k
    BY <1>7
  <2>. QED
    BY <1>3, <2>2, <2>3 DEF Ids
<1>8. L \cup N \subseteq Ids(ccs, Len(ccs), "AddLearnerNode")
  <2>1. ASSUME NEW id \in L PROVE id \in Ids(ccs, Len(ccs), "AddLearnerNode")
    <3>1. PICK i \in 1..l : ccs[u + v + i].id = id
      BY <1>4
    <3>2. u + v + i \in 1..Len(ccs)
      BY <1>1
    <3>. QED
      BY <1>4, <3>1, <3>2 DEF Ids
  <2>2. ASSUME NEW id \in N PROVE id \in Ids(ccs, Len(ccs), "AddLearnerNode")
    <3>1. PICK i \in 1..m : ccs[u + v + l + i].id = id
      BY <1>5
    <3>2. u + v + l + i \in 1..Len(ccs)
      BY <1>1
    <3>. QED
      BY <1>5, <2>2, <3>1, <3>2 DEF Ids
  <2>. QED
    BY <2>1, <2>2
<1>9. ASSUME NEW k \in 1..Len(ccs)
      PROVE  \/ /\ ccs[k].type = "RemoveNode" /\ ccs[k].id \in O
                /\ \A j \in 1..k : ccs[j].type = "RemoveNode"
             \/ /\ ccs[k].type = "AddNode" /\ ccs[k].id \in V
                /\ O \subseteq Ids(ccs, k - 1, "RemoveNode")
             \/ /\ ccs[k].type = "AddLearnerNode" /\ ccs[k].id \in L \cup N
                /\ O \subseteq Ids(ccs, k - 1, "RemoveNode")
                /\ V \subseteq Ids(ccs, k - 1, "AddNode")
  <2>1. k \in Nat /\ k >= 1 /\ k <= u + v + l + m
    BY <1>1
  <2>2. CASE k <= u
    <3>1. k \in 1..u /\ \A j \in 1..k : j \in 1..u
      BY <2>1, <2>2
    <3>. QED
      BY <1>2, <3>1
  <2>3. k > u => O \subseteq Ids(ccs, k - 1, "RemoveNode")
    BY <1>6, <2>1
  <2>4. k > u + v => k > u /\ V \subseteq Ids(ccs, k - 1, "AddNode")
    BY <1>7, <2>1
  <2>5. CASE k > u /\ k <= u + v
    <3>1. PICK i \in 1..v : k = u + i
      <4>1. k - u \in 1..v /\ k = u + (k - u)
        BY <2>1, <2>5
      <4>. QED
        BY <4>1
    <3>. QED
      BY <1>3, <2>3, <2>5, <3>1
  <2>6. CASE k > u + v /\ k <= u + v + l
    <3>1. PICK i \in 1..l : k = u + v + i
      <4>1. k - (u + v) \in 1..l /\ k = u + v + (k - (u + v))
        BY <2>1, <2>6
      <4>. QED
        BY <4>1
    <3>. QED
      BY <1>4, <2>3, <2>4, <2>6, <3>1
  <2>7. CASE k > u + v + l
    <3>1. PICK i \in 1..m : k = u + v + l + i
      <4>1. k - (u + v + l) \in 1..m /\ k = u + v + l + (k - (u + v + l))
        BY <2>1, <2>7
      <4>. QED
        BY <4>1
    <3>2. k > u + v
      BY <2>1, <2>7
    <3>. QED
      BY <1>5, <2>3, <2>4, <3>1, <3>2
  <2>. QED
    BY <2>1, <2>2, <2>5, <2>6, <2>7
<1>10. Orderly(O, V, L, N, ccs)
  BY <1>9 DEF Orderly
<1>11. Len(ccs) \in Nat /\ Len(ccs) >= u /\ Len(ccs) >= u + v
  BY <1>1
<1>12. /\ Ids(ccs, Len(ccs), "RemoveNode") \subseteq O /\ Ids(ccs, Len(ccs), "AddNode") \subseteq V
       /\ Ids(ccs, Len(ccs), "AddLearnerNode") \subseteq L \cup N
  <2>1. PICK n \in Nat : n = Len(ccs) /\ n <= Len(ccs)
    BY <1>11
  <2>2. /\ Ids(ccs, n, "RemoveNode") \subseteq O /\ Ids(ccs, n, "AddNode") \subseteq V
        /\ Ids(ccs, n, "AddLearnerNode") \subseteq L \cup N
    BY <1>10, <2>1, IdsBound
  <2>. QED
    BY <2>1, <2>2
<1>13. O \subseteq Ids(ccs, Len(ccs), "RemoveNode") /\ V \subseteq Ids(ccs, Len(ccs), "AddNode")
  BY <1>6, <1>7, <1>11
<1>. QED
  BY <1>8, <1>10, <1>12, <1>13

\* The changes that lead to the outgoing half only add voters.
LEMMA AddedIs ==
    ASSUME NEW S \in SUBSET Node, IsFiniteSet(S), NEW ccs, ccs = Each("AddNode", S)
    PROVE  /\ ccs \in Seq(Change) /\ Orderly({}, S, {}, {}, ccs)
           /\ Ids(ccs, Len(ccs), "RemoveNode") = {} /\ Ids(ccs, Len(ccs), "AddNode") = S
           /\ Ids(ccs, Len(ccs), "AddLearnerNode") = {}
<1>1. PICK s : s = ccs
  OBVIOUS
<1>2. s \in Seq(Change) /\ Len(s) \in Nat /\ Placed(s, "AddNode", S, 0, Len(s))
  <2>1. "AddNode" \in ChangeType
    BY DEF ChangeType
  <2>. QED
    BY <1>1, <2>1, EachIs
<1>3. PICK z \in Nat, v \in Nat : z = 0 /\ v = Len(s)
  BY <1>2
<1>4. PICK E \in SUBSET Node : E = {}
  OBVIOUS
<1>5. \A t, i : Placed(s, t, E, i, z)
  BY <1>3, <1>4 DEF Placed
<1>6. Layout(s, E, S, E, E, z, v, z, z)
  <2>1. z + v = v /\ Len(s) = z + v + z + z
    BY <1>3
  <2>. QED
    BY <1>2, <1>3, <1>5, <2>1 DEF Layout
<1>7. S \cap (E \cup E) = {} /\ E \cap E = {} /\ E \subseteq E
  BY <1>4
<1>8. /\ Orderly(E, S, E, E, s)
      /\ Ids(s, Len(s), "RemoveNode") = E /\ Ids(s, Len(s), "AddNode") = S
      /\ Ids(s, Len(s), "AddLearnerNode") = E \cup E
  BY <1>2, <1>6, <1>7, LayoutIsOrderly
<1>. QED
  BY <1>1, <1>2, <1>4, <1>8

\* Two configurations with the same members in the same roles.
Alike(c, d) ==
    /\ d.Voters[1] = c.Voters[1] /\ d.Voters[2] = c.Voters[2]
    /\ d.Learners = c.Learners /\ d.LearnersNext = c.LearnersNext
    /\ d.AutoLeave = c.AutoLeave

\* Its parts make the changes that Restore carries out.
LEMMA IncomingIs ==
    ASSUME NEW c, WellFormed(c), NEW ccs, ccs = IncomingChanges(ConfState(c))
    PROVE  /\ ccs \in Seq(Change)
           /\ Orderly(c.Voters[2], c.Voters[1], c.Learners, c.LearnersNext, ccs)
           /\ Ids(ccs, Len(ccs), "RemoveNode") = c.Voters[2]
           /\ Ids(ccs, Len(ccs), "AddNode") = c.Voters[1]
           /\ Ids(ccs, Len(ccs), "AddLearnerNode") = c.Learners \cup c.LearnersNext
<1>1. PICK V, O, L, N, s : /\ V = c.Voters[1] /\ O = c.Voters[2] /\ L = c.Learners
                           /\ N = c.LearnersNext /\ s = ccs
  OBVIOUS
<1>2. /\ V \in SUBSET Node /\ O \in SUBSET Node /\ L \in SUBSET Node /\ N \in SUBSET Node
  BY <1>1, ConfigParts DEF WellFormed
<1>3. V \cap (L \cup N) = {} /\ L \cap O = {} /\ N \subseteq O
  BY <1>1 DEF WellFormed, JointIDs
<1>4. IsFiniteSet(V) /\ IsFiniteSet(O) /\ IsFiniteSet(L) /\ IsFiniteSet(N)
  <2>1. IsFiniteSet(Members(c))
    BY DEF WellFormed
  <2>2. /\ V \subseteq Members(c) /\ O \subseteq Members(c) /\ L \subseteq Members(c)
        /\ N \subseteq Members(c)
    BY <1>1 DEF WellFormed, JointIDs
  <2>. QED
    BY <2>1, <2>2, FS_Subset
<1>5. s = Each("RemoveNode", O) \o Each("AddNode", V)
            \o Each("AddLearnerNode", L) \o Each("AddLearnerNode", N)
  BY <1>1 DEF IncomingChanges, ConfState
<1>6. s \in Seq(Change) /\ \E u, v, l, m \in Nat : Layout(s, O, V, L, N, u, v, l, m)
  BY <1>2, <1>4, <1>5, ChangesLaidOut
<1>7. PICK u \in Nat, v \in Nat, l \in Nat, m \in Nat : Layout(s, O, V, L, N, u, v, l, m)
  BY <1>6
<1>8. /\ Orderly(O, V, L, N, s)
      /\ Ids(s, Len(s), "RemoveNode") = O /\ Ids(s, Len(s), "AddNode") = V
      /\ Ids(s, Len(s), "AddLearnerNode") = L \cup N
  BY <1>2, <1>3, <1>6, <1>7, LayoutIsOrderly
<1>. QED
  BY <1>1, <1>6, <1>8

\* Restore finds the configuration that the ConfState was taken from.
LEMMA RestoreIs ==
    ASSUME NEW c, ConfOK(c), c.Voters[1] # {}, NEW d, d = Restore(ConfState(c))
    PROVE  Ok(d) /\ ConfOK(d) /\ Alike(c, d)
<1>1. PICK ccs : ccs = IncomingChanges(ConfState(c))
  OBVIOUS
<1>2. PICK V, O, L, N : V = c.Voters[1] /\ O = c.Voters[2] /\ L = c.Learners /\ N = c.LearnersNext
  OBVIOUS
<1>3. WellFormed(c) /\ c.AutoLeave \in BOOLEAN /\ O \in SUBSET Node
  BY <1>2, ConfigParts DEF ConfOK, WellFormed
<1>4. /\ ccs \in Seq(Change) /\ Orderly(O, V, L, N, ccs)
      /\ Ids(ccs, Len(ccs), "RemoveNode") = O /\ Ids(ccs, Len(ccs), "AddNode") = V
      /\ Ids(ccs, Len(ccs), "AddLearnerNode") = L \cup N
  BY <1>1, <1>2, <1>3, IncomingIs
<1>5. L \cap O = {} /\ N \subseteq O /\ V # {}
  BY <1>2, <1>3 DEF WellFormed, JointIDs
<1>6. /\ ConfState(c).VotersOutgoing = O /\ ConfState(c).AutoLeave = c.AutoLeave
  BY <1>2 DEF ConfState
<1>7. CASE O = {}
  <2>1. d = OneByOne(EmptyConfig, ccs)
    BY <1>1, <1>6, <1>7 DEF Restore
  <2>2. Orderly({}, V, L, {}, ccs) /\ N = {}
    BY <1>4, <1>5, <1>7
  <2>3. ConfOK(d) /\ Ok(d) /\ ~joint(d) /\ At({}, ccs, Len(ccs), d)
    BY <1>4, <1>5, <2>1, <2>2, OneByOneLeadsTo
  <2>4. d.Voters[1] = V /\ d.Voters[2] = O /\ d.Learners = L /\ d.LearnersNext = N
    BY <1>4, <1>7, <2>2, <2>3 DEF At
  <2>5. ~c.AutoLeave /\ ~d.AutoLeave /\ d.AutoLeave \in BOOLEAN
    <3>1. ~joint(c)
      BY <1>2, <1>7 DEF joint
    <3>2. d \in Config
      BY <2>3 DEF ConfOK, WellFormed
    <3>. QED
      BY <2>3, <3>1, <3>2, ConfigParts DEF ConfOK
  <2>. QED
    BY <1>2, <1>3, <2>3, <2>4, <2>5 DEF Alike
<1>8. CASE O # {}
  <2>1. PICK out, before : /\ out = Each("AddNode", O)
                           /\ before = OneByOne(EmptyConfig, out)
    OBVIOUS
  <2>2. IsFiniteSet(O)
    <3>1. O \subseteq Members(c) /\ IsFiniteSet(Members(c))
      BY <1>2, <1>3 DEF WellFormed, JointIDs
    <3>. QED
      BY <3>1, FS_Subset
  <2>3. /\ out \in Seq(Change) /\ Orderly({}, O, {}, {}, out)
        /\ Ids(out, Len(out), "RemoveNode") = {} /\ Ids(out, Len(out), "AddNode") = O
        /\ Ids(out, Len(out), "AddLearnerNode") = {}
    BY <1>3, <2>1, <2>2, AddedIs
  <2>4. ConfOK(before) /\ Ok(before) /\ ~joint(before) /\ At({}, out, Len(out), before)
    BY <1>8, <2>1, <2>3, OneByOneLeadsTo
  <2>5. /\ before.Voters[1] = O /\ before.Learners = {} /\ before.LearnersNext = {}
    BY <2>3, <2>4 DEF At
  <2>6. PICK b \in BOOLEAN : b = c.AutoLeave
    BY <1>3
  <2>7. d = EnterJoint(before, b, ccs)
    <3>1. OutgoingChanges(ConfState(c)) = out
      BY <1>6, <2>1 DEF OutgoingChanges
    <3>. QED
      BY <1>1, <1>6, <1>8, <2>1, <2>4, <2>6, <3>1 DEF Restore
  <2>8. PICK e, n : e = [before EXCEPT !.Voters[2] = before.Voters[1]] /\ n = apply(e, ccs)
    OBVIOUS
  <2>9. /\ WellFormed(e) /\ e.Voters[1] = O /\ e.Voters[2] = O
        /\ e.Learners = {} /\ e.LearnersNext = {}
    BY <2>4, <2>5, <2>8, DoubledIs
  <2>10. At(O, ccs, 0, e)
    BY <2>9, IdsNone DEF At
  <2>11. Ok(n) /\ WellFormed(n) /\ At(O, ccs, Len(ccs), n)
    BY <1>4, <1>5, <2>8, <2>9, <2>10, ApplyLeadsTo
  <2>12. d = [n EXCEPT !.AutoLeave = b] /\ ConfOK(d) /\ Ok(d)
    BY <1>4, <1>8, <2>4, <2>5, <2>7, <2>8, <2>11, EnterJointIs
  <2>13. n \in Config
    BY <2>11 DEF WellFormed
  <2>14. /\ d.Voters = n.Voters /\ d.Learners = n.Learners /\ d.LearnersNext = n.LearnersNext
         /\ d.AutoLeave = b
    BY <2>12, <2>13 DEF Config
  <2>15. /\ n.Voters[1] = V /\ n.Voters[2] = O /\ n.Learners = L /\ n.LearnersNext = N
    BY <1>4, <1>5, <2>11 DEF At
  <2>. QED
    BY <1>2, <2>6, <2>12, <2>14, <2>15 DEF Alike
<1>. QED
  BY <1>7, <1>8

\* Members in the same roles give the same shape.
LEMMA ShapeIs ==
    ASSUME NEW c, WellFormed(c), NEW d, WellFormed(d), Alike(c, d)
    PROVE  Shape(d) = Shape(c) /\ d.Voters = c.Voters /\ Members(d) = Members(c)
<1>1. /\ c \in Config /\ c.Voters \in [1..2 -> SUBSET Node] /\ c.Progress \in [Members(c) -> Track]
      /\ d \in Config /\ d.Voters \in [1..2 -> SUBSET Node] /\ d.Progress \in [Members(d) -> Track]
  BY ConfigParts DEF WellFormed
<1>2. d.Voters = c.Voters
  <2>1. \A k \in 1..2 : k = 1 \/ k = 2
    OBVIOUS
  <2>2. \A k \in 1..2 : d.Voters[k] = c.Voters[k]
    BY <2>1 DEF Alike
  <2>. QED
    BY <1>1, <2>2
<1>3. Members(d) = Members(c)
  BY <1>2 DEF WellFormed, Alike
<1>4. PICK f, g : /\ f = [id \in Members(c) |-> c.Progress[id].IsLearner]
                  /\ g = [id \in Members(d) |-> d.Progress[id].IsLearner]
  OBVIOUS
<1>5. f = g
  <2>1. ASSUME NEW id \in Members(c) PROVE c.Progress[id].IsLearner = d.Progress[id].IsLearner
    <3>1. c.Progress[id] \in Track /\ d.Progress[id] \in Track
      BY <1>1, <1>3
    <3>2. c.Progress[id].IsLearner \in BOOLEAN /\ d.Progress[id].IsLearner \in BOOLEAN
      BY <3>1 DEF Track
    <3>3. c.Progress[id].IsLearner <=> d.Progress[id].IsLearner
      BY <1>3 DEF WellFormed, Alike
    <3>. QED
      BY <3>2, <3>3
  <2>. QED
    BY <1>3, <1>4, <2>1
<1>6. /\ Shape(c) = [c EXCEPT !.Progress = f] /\ Shape(d) = [d EXCEPT !.Progress = g]
  BY <1>4 DEF Shape, Members
<1>7. /\ Shape(c) = [Voters |-> c.Voters, Learners |-> c.Learners, LearnersNext |-> c.LearnersNext,
                     AutoLeave |-> c.AutoLeave, Progress |-> f]
      /\ Shape(d) = [Voters |-> d.Voters, Learners |-> d.Learners, LearnersNext |-> d.LearnersNext,
                     AutoLeave |-> d.AutoLeave, Progress |-> g]
  BY <1>1, <1>6 DEF Config
<1>. QED
  BY <1>2, <1>3, <1>5, <1>7 DEF Alike

-----------------------------------------------------------------------------
(* The steps of the specification.                                         *)

\* What the leader learns of a log changes nothing about the members.
LEMMA AcknowledgedIs ==
    ASSUME NEW c, ConfOK(c), NEW id \in Members(c),
           NEW d, d = [c EXCEPT !.Progress[id].Match = 1]
    PROVE  ConfOK(d) /\ Alike(c, d)
<1>1. /\ c \in Config /\ c.Progress \in [Members(c) -> Track] /\ c.Progress[id] \in Track
      /\ Members(c) \in SUBSET Node /\ c.Voters \in [1..2 -> SUBSET Node]
  BY ConfigParts DEF ConfOK, WellFormed
<1>2. PICK pr, f : pr = [c.Progress[id] EXCEPT !.Match = 1] /\ f = [c.Progress EXCEPT ![id] = pr]
  OBVIOUS
<1>3. pr \in Track /\ pr.IsLearner = c.Progress[id].IsLearner
  BY <1>1, <1>2 DEF Track
<1>4. /\ f \in [Members(c) -> Track] /\ DOMAIN f = Members(c)
      /\ \A j \in Members(c) : f[j].IsLearner = c.Progress[j].IsLearner
  BY <1>1, <1>2, <1>3
<1>5. d = [Voters |-> c.Voters, Learners |-> c.Learners, LearnersNext |-> c.LearnersNext,
           AutoLeave |-> c.AutoLeave, Progress |-> f]
  <2>1. d = [c EXCEPT !.Progress = f]
    BY <1>2
  <2>. QED
    BY <1>1, <2>1 DEF Config
<1>6. f \in UNION {[M -> Track] : M \in SUBSET Node}
  BY <1>1, <1>4
<1>7. d \in Config
  BY <1>1, <1>5, <1>6 DEF Config
<1>8. /\ d.Voters = c.Voters /\ d.Learners = c.Learners /\ d.LearnersNext = c.LearnersNext
      /\ d.AutoLeave = c.AutoLeave /\ d.Progress = f
  BY <1>5
<1>9. Members(d) = Members(c)
  BY <1>4, <1>8 DEF Members
<1>10. WellFormed(d)
  BY <1>4, <1>7, <1>8, <1>9 DEF ConfOK, WellFormed
<1>. QED
  BY <1>8, <1>10 DEF ConfOK, Alike, joint

\* A change that is carried out: the next configuration is in order and keeps a
\* voter, its quorums are tied to the old ones, and the old voters that stay keep
\* their Progress.
Moved(c, d) ==
    /\ ConfOK(d) /\ Ok(d)
    /\ c.Voters[1] # {} => d.Voters[1] # {}
    /\ Neighbours(c.Voters, d.Voters)
    /\ \A id \in JointIDs(c.Voters) \cap Members(d) :
        d.Progress[id].Match = c.Progress[id].Match

\* The incoming voters after the first k changes: those added and not taken away
\* since, and those there were.
Left(V, ccs, k) == {id \in Node :
    \/ id \in V /\ \A j \in 1..k : ~Drops(ccs[j], id)
    \/ \E j \in 1..k : Adds(ccs[j], id) /\ \A i \in (j + 1)..k : ~Drops(ccs[i], id)}

\* Left, one change further.
LEMMA LeftStep ==
    ASSUME NEW V \in SUBSET Node, NEW ccs \in Seq(Change), NEW k \in Nat, k + 1 <= Len(ccs)
    PROVE  Left(V, ccs, k + 1) = NextVoters(Left(V, ccs, k), ccs[k + 1])
<1>1. PICK ch \in Change : ch = ccs[k + 1]
  OBVIOUS
<1>2. ch.type \in ChangeType /\ ch.id \in Node \cup {0} /\ 0 \notin Node
  BY NodeAssumption DEF Change
<1>3. \A j : j \in 1..(k + 1) <=> j \in 1..k \/ j = k + 1
  OBVIOUS
<1>4. \A j \in 1..k : \A i : i \in (j + 1)..(k + 1) <=> i \in (j + 1)..k \/ i = k + 1
  OBVIOUS
<1>5. \A i : i \notin ((k + 1) + 1)..(k + 1)
  OBVIOUS
<1>6. ASSUME NEW id \in Node
      PROVE  id \in Left(V, ccs, k + 1)
               <=> Adds(ch, id) \/ (id \in Left(V, ccs, k) /\ ~Drops(ch, id))
  <2>1. id \in Left(V, ccs, k) <=>
            \/ id \in V /\ \A j \in 1..k : ~Drops(ccs[j], id)
            \/ \E j \in 1..k : Adds(ccs[j], id) /\ \A i \in (j + 1)..k : ~Drops(ccs[i], id)
    BY DEF Left
  <2>2. id \in Left(V, ccs, k + 1) <=>
            \/ id \in V /\ \A j \in 1..(k + 1) : ~Drops(ccs[j], id)
            \/ \E j \in 1..(k + 1) :
                  Adds(ccs[j], id) /\ \A i \in (j + 1)..(k + 1) : ~Drops(ccs[i], id)
    BY DEF Left
  <2>3. (\A j \in 1..(k + 1) : ~Drops(ccs[j], id))
          <=> (\A j \in 1..k : ~Drops(ccs[j], id)) /\ ~Drops(ch, id)
    BY <1>1, <1>3
  <2>4. (\E j \in 1..(k + 1) :
            Adds(ccs[j], id) /\ \A i \in (j + 1)..(k + 1) : ~Drops(ccs[i], id))
          <=> \/ Adds(ch, id)
              \/ /\ \E j \in 1..k : Adds(ccs[j], id) /\ \A i \in (j + 1)..k : ~Drops(ccs[i], id)
                 /\ ~Drops(ch, id)
    <3>1. ASSUME NEW j \in 1..k
          PROVE  (\A i \in (j + 1)..(k + 1) : ~Drops(ccs[i], id))
                   <=> (\A i \in (j + 1)..k : ~Drops(ccs[i], id)) /\ ~Drops(ch, id)
      BY <1>1, <1>4
    <3>2. \A i \in ((k + 1) + 1)..(k + 1) : ~Drops(ccs[i], id)
      BY <1>5
    <3>3. (\E j \in 1..(k + 1) :
              Adds(ccs[j], id) /\ \A i \in (j + 1)..(k + 1) : ~Drops(ccs[i], id))
            <=> \/ Adds(ch, id)
                \/ \E j \in 1..k :
                     Adds(ccs[j], id) /\ \A i \in (j + 1)..(k + 1) : ~Drops(ccs[i], id)
      BY <1>1, <1>3, <3>2
    <3>. QED
      BY <3>1, <3>3
  <2>. QED
    BY <2>1, <2>2, <2>3, <2>4
<1>7. PICK L : L = Left(V, ccs, k) /\ L \subseteq Node
  BY DEF Left
<1>8. Left(V, ccs, k + 1) \subseteq Node
  BY DEF Left
<1>9. \A id \in Node : id \in NextVoters(L, ch) <=> Adds(ch, id) \/ (id \in L /\ ~Drops(ch, id))
  BY <1>2 DEF NextVoters, Adds, Drops, ChangeType
<1>10. NextVoters(L, ch) \subseteq Node
  BY <1>2, <1>7 DEF NextVoters
<1>. QED
  BY <1>1, <1>6, <1>7, <1>8, <1>9, <1>10

\* apply goes through the sets that Left gives.
LEMMA WayLeaves ==
    ASSUME NEW c, WellFormed(c), NEW ccs \in Seq(Change), NEW g, OnTheWay(c, ccs, g)
    PROVE  g[Len(ccs)].Voters[1] = Left(c.Voters[1], ccs, Len(ccs))
<1>. DEFINE S == {n \in Nat : n <= Len(ccs) => g[n].Voters[1] = Left(c.Voters[1], ccs, n)}
<1>0. c.Voters[1] \in SUBSET Node
  BY ConfigParts DEF WellFormed
<1>1. 0 \in S
  <2>1. g[0] = c
    BY DEF OnTheWay
  <2>2. \A j : j \notin 1..0
    OBVIOUS
  <2>3. Left(c.Voters[1], ccs, 0) = c.Voters[1]
    BY <1>0, <2>2 DEF Left
  <2>. QED
    BY <2>1, <2>3
<1>2. ASSUME NEW n \in Nat, n \in S PROVE n + 1 \in S
  <2>1. SUFFICES ASSUME n + 1 <= Len(ccs)
                 PROVE  g[n + 1].Voters[1] = Left(c.Voters[1], ccs, n + 1)
    OBVIOUS
  <2>2. n + 1 \in 1..Len(ccs) /\ (n + 1) - 1 = n /\ n \in 0..Len(ccs)
    BY <2>1
  <2>3. g[n + 1] = Changed(g[n], ccs[n + 1]) /\ ccs[n + 1] \in Change
    BY <2>2 DEF OnTheWay
  <2>4. WellFormed(g[n])
    BY <2>2, WayIsWellFormed
  <2>5. g[n + 1].Voters[1] = NextVoters(g[n].Voters[1], ccs[n + 1])
    BY <2>3, <2>4, ChangedIs
  <2>6. g[n].Voters[1] = Left(c.Voters[1], ccs, n)
    BY <1>2, <2>2
  <2>. QED
    BY <1>0, <2>1, <2>5, <2>6, LeftStep
<1>3. \A n \in Nat : n \in S
  <2>. HIDE DEF S
  <2>. QED
    BY <1>1, <1>2, NatSetInduction
<1>. QED
  BY <1>3

\* Whether apply refuses can be read off the changes.
LEMMA ApplyRefuses ==
    ASSUME NEW c, WellFormed(c), NEW ccs \in Seq(Change)
    PROVE  Ok(apply(c, ccs)) <=> ~RemovesAll(c, ccs)
<1>1. PICK g : /\ OnTheWay(c, ccs, g)
               /\ apply(c, ccs) = IF g[Len(ccs)].Voters[1] = {} THEN Refused ELSE g[Len(ccs)]
  BY ApplyIs
<1>2. g[Len(ccs)].Voters[1] = Left(c.Voters[1], ccs, Len(ccs))
  BY <1>1, WayLeaves
<1>3. WellFormed(g[Len(ccs)])
  <2>1. Len(ccs) \in 0..Len(ccs)
    OBVIOUS
  <2>. QED
    BY <1>1, <2>1, WayIsWellFormed
<1>4. Ok(g[Len(ccs)])
  BY <1>3, ConfigIsOk DEF WellFormed
<1>5. Left(c.Voters[1], ccs, Len(ccs)) = {} <=> RemovesAll(c, ccs)
  <2>1. DOMAIN ccs = 1..Len(ccs)
    OBVIOUS
  <2>. QED
    BY <2>1 DEF Left, RemovesAll
<1>. QED
  BY <1>1, <1>2, <1>4, <1>5 DEF Ok

\* What a change holds.
LEMMA ChangeParts ==
    ASSUME NEW cc \in AllChanges
    PROVE  cc.transition \in Transition /\ cc.changes \in Seq(Change)
<1>1. PICK t \in Transition, ccs \in Changes : cc = V2(t, ccs)
  BY DEF AllChanges
<1>2. PICK n \in 0..MaxChanges : ccs \in [1..n -> {ch \in Change : ch.id # 0 \/ ch.type = "AddNode"}]
  BY DEF Changes
<1>3. n \in Nat
  BY BoundAssumption
<1>4. ccs \in [1..n -> Change]
  BY <1>2
<1>. QED
  BY <1>1, <1>3, <1>4 DEF V2

\* Every change that the leader admits is carried out, but for what it leaves unchecked.
LEMMA ApplyMoves ==
    ASSUME NEW c, ConfOK(c), NEW cc \in AllChanges, Admitted(c, cc), ~Unchecked(c, cc),
           NEW d, d = applyConfChange(c, cc)
    PROVE  Moved(c, d)
<1>1. PICK t \in Transition, ccs \in Seq(Change) : t = cc.transition /\ ccs = cc.changes
  BY ChangeParts
<1>2. cc.transition = t /\ cc.changes = ccs
  BY <1>1
<1>3. ccs \in Seq(Change)
  OBVIOUS
<1>4. PICK e, n : e = [c EXCEPT !.Voters[2] = c.Voters[1]] /\ n = apply(e, ccs)
  OBVIOUS
<1>5. /\ joint(c) <=> ccs = << >>
      /\ joint(c) => t = "Auto"
      /\ ~joint(c) => Ok(n)
      /\ ~joint(c) /\ c.Voters[1] = {} => ~UsesJoint(cc)
  <2>1. ~joint(c) => Ok(n)
    <3>1. ASSUME ~joint(c) PROVE Ok(n)
      <4>1. WellFormed(e) /\ e.Voters[1] = c.Voters[1]
        BY <1>4, <3>1, DoubledIs
      <4>2. ~RemovesAll(c, ccs)
        BY <1>2, <3>1 DEF Unchecked
      <4>3. ~RemovesAll(e, ccs)
        BY <4>1, <4>2 DEF RemovesAll
      <4>. QED
        BY <1>4, <4>1, <4>3, ApplyRefuses
    <3>. QED
      BY <3>1
  <2>. QED
    BY <1>2, <2>1 DEF Admitted, Unchecked
<1>6. c.Voters[1] \subseteq Members(c) /\ IsFiniteSet(Members(c))
  BY DEF ConfOK, WellFormed, JointIDs
<1>7. CASE joint(c)
  <2>1. d = LeaveJoint(c)
    BY <1>2, <1>5, <1>7 DEF applyConfChange, WantsLeave
  <2>2. /\ ConfOK(d) /\ Ok(d) /\ d.Voters[1] = c.Voters[1] /\ d.Voters[2] = {}
        /\ \A j \in Members(d) : d.Progress[j].Match = c.Progress[j].Match
    BY <1>7, <2>1, LeaveJointIs
  <2>3. Neighbours(c.Voters, d.Voters)
    BY <2>2 DEF Neighbours
  <2>. QED
    BY <2>2, <2>3 DEF Moved
<1>8. CASE ~joint(c) /\ UsesJoint(cc)
  <2>1. PICK b \in BOOLEAN : b = LeavesByItself(cc)
    BY DEF LeavesByItself
  <2>2. d = EnterJoint(c, b, ccs)
    <3>1. ~WantsLeave(cc)
      BY <1>2, <1>5, <1>8 DEF WantsLeave
    <3>2. d = EnterJoint(c, LeavesByItself(cc), cc.changes)
      BY <1>8, <3>1, Zenon DEF applyConfChange
    <3>. QED
      BY <1>2, <2>1, <3>2
  <2>3. c.Voters[1] # {}
    BY <1>5, <1>8
  <2>4. /\ ConfOK(d) /\ Ok(d) /\ d.Voters[1] # {} /\ d.Voters[2] = c.Voters[1]
        /\ \A j \in c.Voters[1] : d.Progress[j].Match = c.Progress[j].Match
    BY <1>3, <1>4, <1>5, <1>8, <2>2, <2>3, EnterJointIs
  <2>5. c.Voters[2] = {}
    BY <1>8 DEF joint
  <2>6. Neighbours(c.Voters, d.Voters)
    BY <2>4, <2>5 DEF Neighbours
  <2>. QED
    BY <2>4, <2>5, <2>6 DEF Moved, JointIDs
<1>9. CASE ~joint(c) /\ ~UsesJoint(cc)
  <2>1. t = "Auto" /\ ~(Len(ccs) > 1) /\ ccs # << >> /\ Len(ccs) \in Nat
    <3>1. ~(cc.transition # "Auto" \/ Len(cc.changes) > 1)
      BY <1>9 DEF UsesJoint
    <3>. QED
      BY <1>2, <1>3, <1>5, <1>9, <3>1
  <2>2. Len(ccs) = 1
    <3>1. ccs \in Seq(Change) /\ ccs # << >>
      BY <1>3, <2>1
    <3>2. Len(ccs) # 0
      BY <3>1
    <3>3. \A i \in Nat : ~(i > 1) /\ i # 0 => i = 1
      OBVIOUS
    <3>. QED
      BY <2>1, <3>2, <3>3, Zenon
  <2>3. PICK ch \in Change : ccs = <<ch>>
    <3>1. ccs[1] \in Change /\ ccs = <<ccs[1]>>
      BY <1>3, <2>2
    <3>. QED
      BY <3>1
  <2>4. d = Simple(c, <<ch>>)
    BY <1>2, <1>9, <2>1, <2>3 DEF applyConfChange, WantsLeave
  <2>5. NextVoters(c.Voters[1], ch) # {}
    <3>1. WellFormed(e) /\ e.Voters[1] = c.Voters[1]
      BY <1>4, <1>9, DoubledIs
    <3>2. PICK w : w = Changed(e, ch)
      OBVIOUS
    <3>3. n = IF w.Voters[1] = {} THEN Refused ELSE w
      BY <1>4, <2>3, <3>1, <3>2, ApplyOne
    <3>4. w.Voters[1] = NextVoters(e.Voters[1], ch)
      BY <3>1, <3>2, ChangedIs
    <3>. QED
      BY <1>5, <1>9, <3>1, <3>3, <3>4 DEF Ok
  <2>6. /\ ConfOK(d) /\ Ok(d) /\ ~joint(d) /\ d.Voters[1] # {}
        /\ symdiff(c.Voters[1], d.Voters[1]) <= 1
        /\ \A j \in Members(c) \cap Members(d) : d.Progress[j].Match = c.Progress[j].Match
    BY <1>9, <2>4, <2>5, SimpleIs
  <2>7. c.Voters[2] = {} /\ d.Voters[2] = {}
    BY <1>9, <2>6 DEF joint
  <2>8. Neighbours(c.Voters, d.Voters)
    BY <2>6, <2>7 DEF Neighbours, symdiff
  <2>. QED
    BY <1>6, <2>6, <2>7, <2>8 DEF Moved, JointIDs
<1>. QED
  BY <1>7, <1>8, <1>9

\* What it leaves unchecked is refused.
LEMMA UncheckedIsRefused ==
    ASSUME NEW c, ConfOK(c), NEW cc \in AllChanges, Admitted(c, cc), Unchecked(c, cc)
    PROVE  ~Ok(applyConfChange(c, cc))
<1>1. PICK ccs \in Seq(Change) : ccs = cc.changes
  BY ChangeParts
<1>2. PICK d : d = applyConfChange(c, cc)
  OBVIOUS
<1>3. joint(c) <=> ccs = << >>
  BY <1>1 DEF Admitted
<1>4. PICK b : b = LeavesByItself(cc)
  OBVIOUS
<1>5. CASE joint(c)
  <2>1. ~WantsLeave(cc) /\ UsesJoint(cc)
    BY <1>5 DEF Unchecked, WantsLeave, UsesJoint
  <2>2. d = EnterJoint(c, b, ccs)
    BY <1>1, <1>2, <1>4, <2>1, Zenon DEF applyConfChange
  <2>. QED
    BY <1>2, <1>5, <2>2 DEF EnterJoint, Ok
<1>6. CASE ~joint(c)
  <2>1. ~WantsLeave(cc)
    BY <1>1, <1>3, <1>6 DEF WantsLeave
  <2>2. CASE UsesJoint(cc)
    <3>1. d = EnterJoint(c, b, ccs)
      BY <1>1, <1>2, <1>4, <2>1, <2>2, Zenon DEF applyConfChange
    <3>2. PICK e : e = [c EXCEPT !.Voters[2] = c.Voters[1]]
      OBVIOUS
    <3>3. WellFormed(e) /\ e.Voters[1] = c.Voters[1]
      BY <1>6, <3>2, DoubledIs
    <3>4. RemovesAll(c, ccs) => ~Ok(apply(e, ccs))
      BY <3>3, ApplyRefuses DEF RemovesAll
    <3>5. c.Voters[1] = {} \/ ~Ok(apply(e, ccs))
      BY <1>1, <1>6, <3>4 DEF Unchecked
    <3>. QED
      BY <1>2, <3>1, <3>2, <3>5 DEF EnterJoint, Ok
  <2>3. CASE ~UsesJoint(cc)
    <3>1. d = Simple(c, ccs)
      BY <1>1, <1>2, <2>1, <2>3, Zenon DEF applyConfChange
    <3>2. RemovesAll(c, ccs)
      BY <1>1, <1>6, <2>3 DEF Unchecked
    <3>3. ~Ok(apply(c, ccs))
      BY <3>2, ApplyRefuses DEF ConfOK
    <3>. QED
      BY <1>2, <3>1, <3>3 DEF Simple, Ok
  <2>. QED
    BY <2>2, <2>3
<1>. QED
  BY <1>5, <1>6

\* A step is a panic, a change that is carried out, or one that leaves every member in
\* its role.
LEMMA StepIs ==
    ASSUME ConfOK(conf), ConfNext, Ok(conf')
    PROVE  Moved(conf, conf') \/ (ConfOK(conf') /\ Alike(conf, conf'))
<1>1. CASE \E cc \in AllChanges : Apply(cc)
  <2>1. PICK cc \in AllChanges : Admitted(conf, cc) /\ conf' = applyConfChange(conf, cc)
    BY <1>1 DEF Apply
  <2>2. ~Unchecked(conf, cc)
    BY <2>1, UncheckedIsRefused
  <2>. QED
    BY <2>1, <2>2, ApplyMoves
<1>2. CASE RestartConf
  <2>1. conf.Voters[1] # {} /\ conf' = Restore(ConfState(conf))
    BY <1>2 DEF RestartConf
  <2>. QED
    BY <2>1, RestoreIs
<1>3. CASE \E id \in Node : Acknowledge(id)
  <2>1. PICK id \in Members(conf) : conf' = [conf EXCEPT !.Progress[id].Match = 1]
    BY <1>3 DEF Acknowledge
  <2>. QED
    BY <2>1, AcknowledgedIs
<1>. QED
  BY <1>1, <1>2, <1>3 DEF ConfNext

-----------------------------------------------------------------------------
(* The theorems.                                                           *)

\* Until a panic.
ConfInv == Ok(conf) => ConfOK(conf)

\* Every configuration that is reached is well-formed, and only a joint one is
\* left by itself: what Changer and Restore do keeps it so.
THEOREM ConfInductive == ConfSpec => []ConfInv
<1>1. ConfInit => ConfInv
  <2>1. ~joint(EmptyConfig) /\ ~EmptyConfig.AutoLeave
    BY DEF EmptyConfig, joint
  <2>. QED
    BY <2>1, EmptyIsWellFormed DEF ConfInit, ConfInv, ConfOK
<1>2. ConfInv /\ [ConfNext]_conf => ConfInv'
  <2>1. ASSUME ConfInv, ConfNext, Ok(conf') PROVE ConfOK(conf')
    <3>1. ConfOK(conf)
      BY <2>1 DEF ConfInv, ConfNext
    <3>. QED
      BY <2>1, <3>1, StepIs DEF Moved
  <2>2. ConfInv /\ UNCHANGED conf => ConfInv'
    BY DEF ConfInv
  <2>. QED
    BY <2>1, <2>2 DEF ConfInv
<1>. QED
  BY <1>1, <1>2, PTL DEF ConfSpec

\* Of what stepLeader lets into the log applyConfChange refuses, and panics on, exactly
\* what it leaves unchecked (an empty change that asks for a joint state, a change that
\* leaves no voter, a joint state without voters), and checkInvariants accepts every
\* configuration that is reached.
THEOREM AdmittedStaysApplied == ConfSpec => []AdmittedIsApplied
<1>1. ConfInv => AdmittedIsApplied
  <2>1. SUFFICES ASSUME ConfOK(conf)
                 PROVE  /\ checkInvariants(conf)
                        /\ \A cc \in AllChanges : Admitted(conf, cc) =>
                             (Ok(applyConfChange(conf, cc)) <=> ~Unchecked(conf, cc))
    BY DEF ConfInv, AdmittedIsApplied
  <2>2. checkInvariants(conf)
    BY <2>1, ConfIsChecked
  <2>3. ASSUME NEW cc \in AllChanges, Admitted(conf, cc)
        PROVE  Ok(applyConfChange(conf, cc)) <=> ~Unchecked(conf, cc)
    <3>1. ASSUME ~Unchecked(conf, cc) PROVE Ok(applyConfChange(conf, cc))
      BY <2>1, <2>3, <3>1, ApplyMoves DEF Moved
    <3>2. ASSUME Unchecked(conf, cc) PROVE ~Ok(applyConfChange(conf, cc))
      BY <2>1, <2>3, <3>2, UncheckedIsRefused
    <3>. QED
      BY <3>1, <3>2
  <2>. QED
    BY <2>2, <2>3
<1>. QED
  BY <1>1, ConfInductive, PTL

\* A server that restarts from the ConfState of its configuration has the same
\* members in the same roles again: assertConfStatesEquivalent does not panic.
THEOREM RestoreStaysExact == ConfSpec => []RestoreIsExact
<1>1. ConfInv => RestoreIsExact
  <2>1. SUFFICES ASSUME ConfOK(conf), conf.Voters[1] # {}, NEW c, c = Restore(ConfState(conf))
                 PROVE  Ok(c) /\ Shape(c) = Shape(conf)
    BY DEF RestoreIsExact, ConfInv
  <2>2. Ok(c) /\ ConfOK(c) /\ Alike(conf, c)
    BY <2>1, RestoreIs
  <2>3. WellFormed(conf) /\ WellFormed(c)
    BY <2>1, <2>2 DEF ConfOK
  <2>. QED
    BY <2>2, <2>3, ShapeIs
<1>. QED
  BY <1>1, ConfInductive, PTL

\* A half of the configuration only sees the votes of its own voters.
LEMMA OwnVotes ==
    ASSUME NEW c, c \subseteq Node, NEW P, NEW Q, c \cap P = c \cap Q
    PROVE  IsMajority(c, P) <=> IsMajority(c, Q)
  BY DEF IsMajority

\* The halves of a configuration are finite sets of servers.
LEMMA HalvesAreFinite ==
    ASSUME NEW c, WellFormed(c)
    PROVE  /\ c.Voters[1] \subseteq Node /\ IsFiniteSet(c.Voters[1])
           /\ c.Voters[2] \subseteq Node /\ IsFiniteSet(c.Voters[2])
<1>1. c.Voters[1] \subseteq Node /\ c.Voters[2] \subseteq Node
  BY ConfigParts DEF WellFormed
<1>2. /\ c.Voters[1] \subseteq Members(c) /\ c.Voters[2] \subseteq Members(c)
      /\ IsFiniteSet(Members(c))
  BY DEF WellFormed, JointIDs
<1>. QED
  BY <1>1, <1>2, FS_Subset

\* JointConfig.VoteResult, in every configuration that is reached: won exactly when
\* those who granted are a quorum, lost exactly when they cannot become one.
THEOREM VoteResultStaysExact == ConfSpec => []VoteResultIsExact
<1>1. ConfInv => VoteResultIsExact
  <2>1. SUFFICES ASSUME ConfOK(conf), NEW votes \in [Node -> Ballot],
                        NEW granted, granted = Votes(Node, votes, "granted"),
                        NEW missing, missing = Votes(Node, votes, "missing"),
                        NEW result, result = JointVoteResult(conf.Voters, votes)
                 PROVE  /\ result = "VoteWon" <=> IsJointQuorum(conf.Voters, granted)
                        /\ result = "VoteLost"
                             <=> ~IsJointQuorum(conf.Voters, granted \cup missing)
    BY DEF VoteResultIsExact, ConfInv
  <2>2. PICK vv, V, O : vv = conf.Voters /\ V = vv[1] /\ O = vv[2]
    OBVIOUS
  <2>3. V \subseteq Node /\ IsFiniteSet(V) /\ O \subseteq Node /\ IsFiniteSet(O)
    BY <2>1, <2>2, HalvesAreFinite DEF ConfOK
  <2>4. result = "VoteWon" <=> IsJointQuorum(vv, granted)
    <3>1. result = "VoteWon" <=> /\ IsMajority(V, Votes(V, votes, "granted"))
                                 /\ IsMajority(O, Votes(O, votes, "granted"))
      BY <2>1, <2>2, <2>3, JointWon
    <3>2. /\ V \cap granted = V \cap Votes(V, votes, "granted")
          /\ O \cap granted = O \cap Votes(O, votes, "granted")
      BY <2>1, <2>3 DEF Votes
    <3>3. /\ IsMajority(V, granted) <=> IsMajority(V, Votes(V, votes, "granted"))
          /\ IsMajority(O, granted) <=> IsMajority(O, Votes(O, votes, "granted"))
      BY <2>3, <3>2, OwnVotes
    <3>. QED
      BY <2>2, <3>1, <3>3 DEF IsJointQuorum
  <2>5. result = "VoteLost" <=> ~IsJointQuorum(vv, granted \cup missing)
    <3>1. PICK A : A = {id \in V \cup O : votes[id] # "rejected"}
      OBVIOUS
    <3>2. \A id \in V \cup O : votes[id] \in Ballot
      BY <2>1, <2>3
    <3>3. result = "VoteLost" <=> ~IsJointQuorum(vv, A)
      BY <2>1, <2>2, <2>3, <3>1, <3>2, JointLost DEF JointIDs
    <3>4. V \cap (granted \cup missing) = V \cap A /\ O \cap (granted \cup missing) = O \cap A
      BY <2>1, <2>3, <3>1, <3>2 DEF Votes, Ballot
    <3>5. /\ IsMajority(V, granted \cup missing) <=> IsMajority(V, A)
          /\ IsMajority(O, granted \cup missing) <=> IsMajority(O, A)
      BY <2>3, <3>4, OwnVotes
    <3>. QED
      BY <2>2, <3>3, <3>5 DEF IsJointQuorum
  <2>. QED
    BY <2>2, <2>4, <2>5
<1>. QED
  BY <1>1, ConfInductive, PTL

\* Whatever a quorum decided before a change, every quorum after it knows: the
\* quorums of consecutive configurations share a server.
THEOREM QuorumsAlwaysMeet == ConfSpec => QuorumsMeet
<1>. DEFINE Meet == Ok(conf') /\ conf.Voters[1] # {} =>
                      \A P, Q \in SUBSET Node :
                          IsJointQuorum(conf.Voters, P) /\ IsJointQuorum(conf'.Voters, Q)
                              => P \cap Q # {}
<1>1. ConfInv /\ [ConfNext]_conf => [Meet]_conf
  <2>1. SUFFICES ASSUME ConfOK(conf), ConfNext, Ok(conf'), conf.Voters[1] # {}, NEW P, NEW Q,
                        IsJointQuorum(conf.Voters, P), IsJointQuorum(conf'.Voters, Q)
                 PROVE  P \cap Q # {}
    BY DEF ConfInv, ConfNext
  <2>2. Moved(conf, conf') \/ (ConfOK(conf') /\ Alike(conf, conf'))
    BY <2>1, StepIs
  <2>3. /\ ConfOK(conf') /\ conf'.Voters[1] # {} /\ Neighbours(conf.Voters, conf'.Voters)
    <3>1. CASE Moved(conf, conf')
      BY <2>1, <3>1 DEF Moved
    <3>2. CASE ConfOK(conf') /\ Alike(conf, conf')
      <4>1. conf'.Voters = conf.Voters
        BY <2>1, <3>2, ShapeIs DEF ConfOK
      <4>. QED
        BY <2>1, <3>2, <4>1 DEF Neighbours
    <3>. QED
      BY <2>2, <3>1, <3>2
  <2>4. IsFiniteSet(conf.Voters[1]) /\ IsFiniteSet(conf'.Voters[1])
    BY <2>1, <2>3, HalvesAreFinite DEF ConfOK
  <2>. QED
    BY <2>1, <2>3, <2>4, NeighboursMeet
<1>2. QuorumsMeet <=> [][Meet]_conf
  BY DEF QuorumsMeet
<1>. QED
  BY <1>1, <1>2, ConfInductive, PTL DEF ConfSpec

\* A voter that stays a member keeps its Progress through every change, whether it
\* stays a voter, is demoted, or is removed and added again.
THEOREM VotersAlwaysKeepProgress == ConfSpec => VotersKeepProgress
<1>. DEFINE Kept == Ok(conf') /\ Shape(conf') # Shape(conf) =>
                      \A id \in JointIDs(conf.Voters) \cap Members(conf') :
                          conf'.Progress[id].Match = conf.Progress[id].Match
<1>1. ConfInv /\ [ConfNext]_conf => [Kept]_conf
  <2>1. SUFFICES ASSUME ConfOK(conf), ConfNext, Ok(conf'), Shape(conf') # Shape(conf),
                        NEW id \in JointIDs(conf.Voters) \cap Members(conf')
                 PROVE  conf'.Progress[id].Match = conf.Progress[id].Match
    BY DEF ConfInv, ConfNext
  <2>2. Moved(conf, conf') \/ (ConfOK(conf') /\ Alike(conf, conf'))
    BY <2>1, StepIs
  <2>3. ~(ConfOK(conf') /\ Alike(conf, conf'))
    BY <2>1, ShapeIs DEF ConfOK
  <2>. QED
    BY <2>1, <2>2, <2>3 DEF Moved
<1>2. VotersKeepProgress <=> [][Kept]_conf
  BY DEF VotersKeepProgress
<1>. QED
  BY <1>1, <1>2, ConfInductive, PTL DEF ConfSpec
=============================================================================
