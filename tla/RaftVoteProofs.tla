--------------------------- MODULE RaftVoteProofs ---------------------------
(***************************************************************************)
(* The steps of an election keep ElectionInv of module Raft: a new round, a*)
(* lost round, the majority, a vote that is given and its answer.          *)
(***************************************************************************)
EXTENDS RaftTypeProofs

(* A server that takes a NodeStep stays bound to the candidate it voted for*)
LEMMA BoundStep ==
  ASSUME TypeOK, TypeOK', NEW f \in Server, NEW c \in Server, NEW t \in Nat,
         NodeStep(node[f], node'[f]), BoundTo(f, t, c)
  PROVE  BoundTo(f, t, c)'
<1>1. node[f].term \in Nat /\ node'[f].term \in Nat
  BY Zenon DEF TypeOK, Node
<1>2. c # Nil
  BY NilAssumption
<1> QED
  BY <1>1, <1>2 DEF BoundTo, NodeStep

(* f grants candidate c its vote of term t in this step *)
Grants(f, t, c) ==
  /\ f # c
  /\ node[f].term <= t
  /\ node[f].term = t => node[f].votedfor \in {Nil, c}
  /\ node'[f].term = t /\ node'[f].votedfor = c

VotesStep ==
  \/ votes' = votes
  \/ \E f \in Server, c \in Server, t \in Nat :
        Grants(f, t, c) /\ votes' = votes \cup {<<t, f, c>>}

(* Granting a vote respects the votes given and the leaders there were.    *)
LEMMA VotesPreserved ==
  ASSUME TypeOK, TypeOK', VoteInv, \A e \in elected : ElectedInv(e),
         \A s \in Server : NodeStep(node[s], node'[s]), VotesStep, elected' = elected
  PROVE  VoteInv' /\ (\A e \in elected' : ElectedInv(e)')
<1>0. /\ \A s \in Server : node[s].term \in Nat /\ node'[s].term \in Nat
      /\ \A v \in votes : v[1] \in Nat /\ v[2] \in Server /\ v[3] \in Server
      /\ \A e \in elected : e[1] \in Nat /\ e[2] \in Server
      /\ Nil \notin Server
  BY NilAssumption, Zenon DEF TypeOK, Node
<1>1. \A v \in votes : v[2] # v[3] /\ BoundTo(v[2], v[1], v[3])'
  BY <1>0, BoundStep DEF VoteInv
<1>2. \A e \in elected : BoundTo(e[2], e[1], e[2])'
  BY <1>0, BoundStep DEF ElectedInv
<1>3. \A e \in elected : node'[e[2]].term = e[1] => node'[e[2]].state # "CANDIDATE"
  BY <1>0 DEF ElectedInv, NodeStep
<1>4. votes \subseteq votes'
  BY DEF VotesStep
<1>5. \A e \in elected : \E Q \in Quorum : \A g \in Q \ {e[2]} : <<e[1], g, e[2]>> \in votes'
  BY <1>4 DEF ElectedInv
<1>6. CASE votes' = votes
  <2>1. VoteInv'
    BY <1>1, <1>6 DEF VoteInv
  <2>2. \A e \in elected : \A v \in votes' : v[1] = e[1] => v[2] # e[2]
    BY <1>6 DEF ElectedInv
  <2> QED
    BY <1>2, <1>3, <1>5, <2>1, <2>2 DEF ElectedInv, Quorum
<1>7. ASSUME NEW f \in Server, NEW c \in Server, NEW t \in Nat,
             Grants(f, t, c), votes' = votes \cup {<<t, f, c>>}
      PROVE  VoteInv' /\ (\A e \in elected' : ElectedInv(e)')
  <2>1. \A v \in votes' : v[2] # v[3] /\ BoundTo(v[2], v[1], v[3])'
    <3>1. BoundTo(f, t, c)' /\ f # c
      BY <1>7 DEF Grants, BoundTo
    <3> QED
      BY <1>1, <1>7, <3>1
  <2>2. \A v \in votes : v[1] = t /\ v[2] = f => v[3] = c
    <3>1. SUFFICES ASSUME NEW v \in votes, v[1] = t, v[2] = f PROVE v[3] = c
      OBVIOUS
    <3>2. BoundTo(f, t, v[3])
      BY <3>1 DEF VoteInv
    <3> QED
      BY <1>0, <1>7, <3>1, <3>2 DEF Grants, BoundTo
  <2>3. VoteInv'
    <3>1. \A v1, v2 \in votes' : v1[1] = v2[1] /\ v1[2] = v2[2] => v1[3] = v2[3]
      BY <1>7, <2>2 DEF VoteInv
    <3> QED
      BY <2>1, <3>1 DEF VoteInv
  <2>4. ASSUME NEW e \in elected PROVE \A v \in votes' : v[1] = e[1] => v[2] # e[2]
    <3>1. ~(e[1] = t /\ e[2] = f)
      <4>1. BoundTo(e[2], e[1], e[2])
        BY DEF ElectedInv
      <4> QED
        BY <1>0, <1>7, <4>1 DEF Grants, BoundTo
    <3>2. \A v \in votes : v[1] = e[1] => v[2] # e[2]
      BY DEF ElectedInv
    <3> QED
      BY <1>7, <3>1, <3>2
  <2> QED
    BY <1>2, <1>3, <1>5, <2>3, <2>4 DEF ElectedInv, Quorum
<1> QED
  BY <1>6, <1>7 DEF VotesStep

(* A candidate whose timer thread does not move keeps its claim.           *)
LEMMA CandidatePreserved ==
  ASSUME TypeOK, TypeOK', NEW s \in Server, CandidateInv(s), votes \subseteq votes',
         NodeStep(node[s], node'[s]), elect'[s] = elect[s], vcall'[s] = vcall[s]
  PROVE  CandidateInv(s)'
<1>1. Nil # s
  BY NilAssumption
<1>2. CASE elect[s].pc = "ask" /\ node'[s].state = "CANDIDATE"
  <2>1. node[s].state = "CANDIDATE" /\ node'[s].term = node[s].term
    BY <1>2 DEF NodeStep
  <2>2. node[s].votedfor = s
    BY <1>2, <2>1 DEF CandidateInv
  <2>3. node'[s].votedfor = s
    BY <1>1, <2>1, <2>2 DEF NodeStep
  <2> QED
    BY <1>2, <2>1, <2>3 DEF CandidateInv
<1>3. CASE ~(elect[s].pc = "ask" /\ node'[s].state = "CANDIDATE")
  BY <1>3 DEF CandidateInv
<1> QED
  BY <1>2, <1>3

(* A step that moves no timer thread but perhaps that of s, and takes every*)
(* server by a NodeStep.                                                   *)
LEMMA TimerStep ==
  ASSUME TypeOK, TypeOK', ElectionInv, NEW s \in Server,
         \A f \in Server : NodeStep(node[f], node'[f]), VotesStep, elected' = elected,
         \A f \in Server \ {s} : elect'[f] = elect[f] /\ vcall'[f] = vcall[f],
         CandidateInv(s)', LateInv'
  PROVE  ElectionInv'
<1>1. VoteInv' /\ (\A e \in elected' : ElectedInv(e)')
  BY VotesPreserved DEF ElectionInv
<1>2. votes \subseteq votes'
  BY DEF VotesStep
<1>3. \A f \in Server \ {s} : CandidateInv(f)'
  BY <1>2, CandidatePreserved DEF ElectionInv
<1> QED
  BY <1>1, <1>3 DEF ElectionInv

(* A step that moves no timer thread at all. *)
LEMMA QuietStep ==
  ASSUME TypeOK, TypeOK', ElectionInv, \A f \in Server : NodeStep(node[f], node'[f]),
         VotesStep, elected' = elected, elect' = elect, vcall' = vcall, LateInv'
  PROVE  ElectionInv'
<1>1. VoteInv' /\ (\A e \in elected' : ElectedInv(e)')
  BY VotesPreserved DEF ElectionInv
<1>2. votes \subseteq votes'
  BY DEF VotesStep
<1>3. \A f \in Server : CandidateInv(f)'
  BY <1>2, CandidatePreserved DEF ElectionInv
<1> QED
  BY <1>1, <1>3 DEF ElectionInv

(* To stay as it is, is a NodeStep. *)
LEMMA NoNodeStep ==
  ASSUME TypeOK
  PROVE  \A f \in Server : NodeStep(node[f], node[f])
<1>1. \A f \in Server : node[f] \in Node
  BY Zenon DEF TypeOK
<1>2. \A f \in Server : node[f].term \in Nat
  BY <1>1 DEF Node
<1> QED
  BY <1>2 DEF NodeStep

(* Nothing happens to a server, or to all but one. *)
LEMMA SameNode ==
  ASSUME TypeOK, NEW s, NEW r, s \in Server => NodeStep(node[s], r),
         node' = node \/ node' = [node EXCEPT ![s] = r]
  PROVE  \A f \in Server : NodeStep(node[f], node'[f])
<1>1. node \in [Server -> Node]
  BY Zenon DEF TypeOK
<1>2. ASSUME NEW f \in Server PROVE NodeStep(node[f], node'[f])
  <2>1. node'[f] = node[f] \/ (f = s /\ node'[f] = r)
    BY <1>1
  <2> QED
    BY <2>1, NoNodeStep
<1> QED
  BY <1>2

(* A round starts in a term the server has not voted in. *)
LEMMA StartRoundElection ==
  ASSUME TypeOK, TypeOK', ElectionInv, NEW s \in Server,
         elect[s].pc # "ask", StartRound(s)
  PROVE  ElectionInv'
<1> USE DEF callVars, leaderVars, history, counters
<1>1. /\ node'[s].state = "CANDIDATE" /\ node'[s].term = node[s].term + 1
      /\ node'[s].votedfor = s
      /\ \A f \in Server \ {s} : node'[f] = node[f]
      /\ UNCHANGED <<vcall, late, elected, votes>>
      /\ elect'[s].granted = {} /\ elect'[s].pc = "ask"
      /\ \A f \in Server \ {s} : elect'[f] = elect[f]
  BY DEF StartRound, TypeOK, Node
<1>2. /\ \A f \in Server : node[f].term \in Nat
      /\ \A v \in votes : v[1] \in Nat /\ v[2] \in Server /\ v[3] \in Server
      /\ \A e \in elected : e[1] \in Nat /\ e[2] \in Server
  BY Zenon DEF TypeOK, Node
<1>3. \A f \in Server, t \in Nat, c \in Server : BoundTo(f, t, c) => BoundTo(f, t, c)'
  BY <1>1, <1>2 DEF BoundTo
<1>4. VoteInv'
  BY <1>1, <1>2, <1>3 DEF VoteInv, ElectionInv
<1>5. ASSUME NEW e \in elected PROVE ElectedInv(e)'
  <2>1. ElectedInv(e) /\ e[1] \in Nat /\ e[2] \in Server
    BY <1>2 DEF ElectionInv
  <2>2. BoundTo(e[2], e[1], e[2])'
    BY <2>1, <1>3 DEF ElectedInv
  <2>3. node'[e[2]].term = e[1] => node'[e[2]].state # "CANDIDATE"
    BY <2>1, <1>1, <1>2 DEF ElectedInv, BoundTo
  <2> QED
    BY <1>1, <2>1, <2>2, <2>3 DEF ElectedInv, Quorum
<1>6. CandidateInv(s)'
  <2>1. vcall[s].st = "idle"
    BY Zenon DEF ElectionInv, CandidateInv
  <2> QED
    BY <1>1, <2>1 DEF CandidateInv
<1>7. \A f \in Server \ {s} : CandidateInv(f)'
  BY <1>1 DEF ElectionInv, CandidateInv
<1> QED
  BY <1>1, <1>4, <1>5, <1>6, <1>7 DEF ElectionInv, LateInv

(* A candidate has given its vote of the term to nobody else, and has not  *)
(* been elected in it.                                                     *)
LEMMA CandidateIsFree ==
  ASSUME TypeOK, ElectionInv, NEW s \in Server,
         elect[s].pc = "ask", node[s].state = "CANDIDATE"
  PROVE  /\ \A v \in votes : v[2] = s => v[1] < node[s].term
         /\ \A e \in elected : e[2] = s => e[1] < node[s].term
         /\ node[s].votedfor = s
<1>1. /\ node[s].term \in Nat
      /\ \A v \in votes : v[1] \in Nat
      /\ \A e \in elected : e[1] \in Nat
  BY DEF TypeOK, Node
<1>2. node[s].votedfor = s
  BY Zenon DEF ElectionInv, CandidateInv
<1>3. \A v \in votes : v[2] = s => v[1] < node[s].term
  BY <1>1, <1>2 DEF ElectionInv, VoteInv, BoundTo
<1>4. \A e \in elected : e[2] = s => e[1] < node[s].term
  BY <1>1 DEF ElectionInv, ElectedInv, BoundTo
<1> QED
  BY <1>2, <1>3, <1>4

(* Forgetting the vote for oneself after a lost round frees no vote. *)
LEMMA LoseRoundElection ==
  ASSUME TypeOK, TypeOK', ElectionInv, NEW s \in Server, LoseRound(s)
  PROVE  ElectionInv'
<1> USE DEF callVars, leaderVars, history, counters
<1>1. CASE node[s].state = "CANDIDATE"
  <2>1. elect[s].pc = "ask" /\ vcall[s].st = "idle"
    BY DEF LoseRound
  <2>2. /\ node'[s].term = node[s].term /\ node'[s].state = "CANDIDATE"
        /\ \A f \in Server \ {s} : node'[f] = node[f]
        /\ UNCHANGED <<vcall, late, elected, votes>>
        /\ elect'[s].pc = "sleep"
        /\ \A f \in Server \ {s} : elect'[f] = elect[f]
    <3>1. /\ node' = [node EXCEPT ![s].votedfor = Nil]
          /\ elect' = [elect EXCEPT ![s].pc = "sleep"]
          /\ UNCHANGED <<vcall, late, elected, votes>>
      BY <1>1 DEF LoseRound
    <3>2. node'[s] = [node[s] EXCEPT !.votedfor = Nil] /\ elect'[s] = [elect[s] EXCEPT !.pc = "sleep"]
      BY <3>1 DEF TypeOK
    <3>3. node[s] \in Node /\ elect[s] \in Election
      BY DEF TypeOK
    <3>4. node'[s].term = node[s].term /\ node'[s].state = "CANDIDATE"
      BY <1>1, <3>2, <3>3 DEF Node
    <3>5. elect'[s].pc = "sleep"
      BY <2>1, <3>2, <3>3 DEF Election, NoElection
    <3> QED
      BY <3>1, <3>4, <3>5 DEF TypeOK
  <2>3. /\ \A v \in votes : v[2] = s => v[1] < node[s].term
        /\ \A e \in elected : e[2] = s => e[1] < node[s].term
    BY <1>1, <2>1, CandidateIsFree
  <2>4. /\ \A f \in Server : node[f].term \in Nat
        /\ \A v \in votes : v[1] \in Nat /\ v[2] \in Server /\ v[3] \in Server
        /\ \A e \in elected : e[1] \in Nat /\ e[2] \in Server
    BY Zenon DEF TypeOK, Node
  <2>5. \A v \in votes : BoundTo(v[2], v[1], v[3])'
    BY <2>2, <2>3, <2>4 DEF ElectionInv, VoteInv, BoundTo
  <2>6. VoteInv'
    BY <2>2, <2>5 DEF ElectionInv, VoteInv
  <2>7. ASSUME NEW e \in elected PROVE ElectedInv(e)'
    <3>1. ElectedInv(e) /\ e[1] \in Nat /\ e[2] \in Server
      BY <2>4 DEF ElectionInv
    <3>2. BoundTo(e[2], e[1], e[2])' /\ (node'[e[2]].term = e[1] => node'[e[2]].state # "CANDIDATE")
      BY <3>1, <2>2, <2>3, <2>4 DEF ElectedInv, BoundTo
    <3> QED
      BY <2>2, <3>1, <3>2 DEF ElectedInv, Quorum
  <2>8. \A f \in Server : CandidateInv(f)'
    BY <2>1, <2>2 DEF ElectionInv, CandidateInv
  <2> QED
    BY <2>2, <2>6, <2>7, <2>8 DEF ElectionInv, LateInv
<1>2. CASE node[s].state # "CANDIDATE"
  <2>1. /\ elect' = [elect EXCEPT ![s] = NoElection] /\ vcall[s].st = "idle"
        /\ UNCHANGED <<node, vcall, late, elected, votes>>
    BY <1>2 DEF LoseRound
  <2>2. \A f \in Server : NodeStep(node[f], node'[f])
    BY <2>1, NoNodeStep, Zenon
  <2>3. CandidateInv(s)'
    BY <2>1 DEF CandidateInv, NoElection, TypeOK
  <2>4. LateInv' /\ VotesStep /\ \A f \in Server \ {s} : elect'[f] = elect[f] /\ vcall'[f] = vcall[f]
    BY <2>1 DEF ElectionInv, LateInv, VotesStep, TypeOK
  <2> QED
    BY <2>1, <2>2, <2>3, <2>4, TimerStep
<1> QED
  BY <1>1, <1>2

(* The votes that are enough and the candidate's own are a majority.       *)
LEMMA EnoughIsQuorum ==
  ASSUME NEW s \in Server, NEW G \in SUBSET Server, s \notin G, EnoughVotes(G)
  PROVE  G \cup {s} \in Quorum
<1>1. IsFiniteSet(G) /\ Cardinality(G) \in Nat /\ Cardinality(Server) \in Nat
  BY ServerAssumption, FS_Subset, FS_CardinalityType
<1>2. Cardinality(G \cup {s}) = Cardinality(G) + 1
  BY <1>1, FS_AddElement, Zenon
<1>3. 2 * (Cardinality(G) + 1) > Cardinality(Server)
  BY <1>1 DEF EnoughVotes
<1> QED
  BY <1>2, <1>3 DEF Quorum

(* RaftManager::leader: the new leader has the votes of a majority. *)
LEMMA BecomeLeaderElection ==
  ASSUME TypeOK, TypeOK', ElectionInv, NEW s \in Server, BecomeLeader(s)
  PROVE  ElectionInv'
<1> USE DEF callVars, leaderVars, history, counters
<1> DEFINE t == node[s].term
           G == elect[s].granted
           new == <<t, s>>
<1>1. /\ elect[s].pc = "ask" /\ vcall[s].st = "idle" /\ node[s].state = "CANDIDATE"
      /\ EnoughVotes(G)
      /\ elect' = [elect EXCEPT ![s] = NoElection]
      /\ elected' = elected \cup {new}
      /\ UNCHANGED <<vcall, late, votes>>
  BY DEF BecomeLeader
<1>2. /\ node'[s].term = t /\ node'[s].votedfor = node[s].votedfor /\ node'[s].state = "LEADER"
      /\ \A f \in Server \ {s} : node'[f] = node[f]
  BY DEF BecomeLeader, TypeOK, Node
<1>3. /\ \A f \in Server : node[f].term \in Nat
      /\ \A v \in votes : v[1] \in Nat /\ v[2] \in Server /\ v[3] \in Server
      /\ \A e \in elected : e[1] \in Nat /\ e[2] \in Server
      /\ G \in SUBSET Server
  <2>1. elect[s] \in Election
    BY DEF TypeOK
  <2>2. G \in SUBSET Server
    BY <1>1, <2>1 DEF Election, NoElection
  <2> QED
    BY <2>2, Zenon DEF TypeOK, Node
<1>4. \A f \in Server \ {s} : NodeStep(node[f], node'[f])
  BY <1>2, <1>3 DEF NodeStep
<1>5. \A f \in Server, u \in Nat, c \in Server : BoundTo(f, u, c) => BoundTo(f, u, c)'
  BY <1>2 DEF BoundTo
<1>6. VoteInv'
  BY <1>1, <1>3, <1>5, SMTT(30) DEF ElectionInv, VoteInv
<1>7. ASSUME NEW e \in elected PROVE ElectedInv(e)'
  <2>1. ElectedInv(e) /\ e[1] \in Nat /\ e[2] \in Server
    BY <1>3 DEF ElectionInv
  <2>2. BoundTo(e[2], e[1], e[2])' /\ (node'[e[2]].term = e[1] => node'[e[2]].state # "CANDIDATE")
    BY <2>1, <1>2, <1>5 DEF ElectedInv
  <2> QED
    BY <1>1, <2>1, <2>2 DEF ElectedInv, Quorum
<1>8. ASSUME NEW e, e = new PROVE ElectedInv(e)'
  <2>1. /\ node[s].votedfor = s
        /\ \A v \in votes : v[2] = s => v[1] < t
    BY <1>1, CandidateIsFree
  <2>2. s \notin G /\ \A f \in G : <<t, f, s>> \in votes
    BY <1>1, Zenon DEF ElectionInv, CandidateInv
  <2>3. G \cup {s} \in Quorum
    BY <1>1, <1>3, <2>2, EnoughIsQuorum
  <2>4. \E Q \in Quorum : \A f \in Q \ {s} : <<t, f, s>> \in votes
    BY <2>2, <2>3
  <2>5. e[1] = t /\ e[2] = s
    BY <1>8
  <2>7. \A v \in votes : v[1] = t => v[2] # s
    BY <1>3, <2>1
  <2>8. BoundTo(e[2], e[1], e[2])'
    BY <1>2, <2>1, <2>5 DEF BoundTo
  <2>9. \E Q \in Quorum : \A f \in Q \ {e[2]} : <<e[1], f, e[2]>> \in votes
    BY <2>4, <2>5
  <2> QED
    BY <1>1, <1>2, <2>5, <2>7, <2>8, <2>9 DEF ElectedInv, Quorum
<1>9. \A f \in Server : CandidateInv(f)'
  <2>1. CandidateInv(s)'
    BY <1>1, SMTT(30) DEF CandidateInv, NoElection, TypeOK
  <2>2. \A f \in Server \ {s} : CandidateInv(f)'
    BY <1>1, <1>4, CandidatePreserved, SMTT(30) DEF ElectionInv, TypeOK
  <2> QED
    BY <2>1, <2>2, SMTT(30)
<1>10. \A e \in elected' : ElectedInv(e)'
  BY <1>1, <1>7, <1>8
<1>11. LateInv'
  BY <1>1 DEF ElectionInv, LateInv
<1> QED
  BY <1>6, <1>9, <1>10, <1>11 DEF ElectionInv

(* The timer thread of s gives up its election and nothing else changes.   *)
LEMMA StopElection ==
  ASSUME TypeOK, TypeOK', ElectionInv, NEW s \in Server, vcall'[s] = NoCall,
         \A f \in Server : NodeStep(node[f], node'[f]),
         elect'[s] = NoElection, UNCHANGED <<elected, votes, late>>,
         \A f \in Server \ {s} : elect'[f] = elect[f] /\ vcall'[f] = vcall[f]
  PROVE  ElectionInv'
<1>1. CandidateInv(s)'
  BY DEF CandidateInv, NoElection, NoCall
<1>2. VotesStep /\ LateInv'
  BY DEF VotesStep, ElectionInv, LateInv
<1> QED
  BY <1>1, <1>2, TimerStep

(* VoteType for the answer o of the handler. *)
LEMMA VoteOutcome ==
  ASSUME NEW r \in Node, NEW m \in VoteReq, NEW o, o = Vote(r, m)
  PROVE  /\ o.ok \in BOOLEAN
         /\ NodeStep(r, o.node)
         /\ o.ok => /\ o.node.term = m.term
                    /\ o.node.votedfor = m.cand
                    /\ r.term <= m.term
                    /\ r.term = m.term => r.votedfor \in {Nil, m.cand}
<1>1. o.ok \in BOOLEAN /\ NodeStep(r, o.node)
  BY VoteType, Zenon
<1>2. o.ok = TRUE => /\ o.node.term = m.term
                     /\ o.node.votedfor = m.cand
                     /\ r.term <= m.term
                     /\ r.term = m.term => r.votedfor \in {Nil, m.cand}
  BY VoteType, Zenon
<1> QED
  BY <1>1, <1>2

(* ZoneAPI::vote on behalf of a caller that still waits. *)
LEMMA HandleVoteElection ==
  ASSUME TypeOK, TypeOK', ElectionInv, NEW s \in Server, HandleVote(s)
  PROVE  ElectionInv'
<1> USE DEF callVars, leaderVars, history, counters
<1> DEFINE f == vcall[s].to
           m == vcall[s].req
           o == Vote(node[f], m)
<1>1. /\ vcall[s].st = "sent" /\ vcall[s] \in VoteCall /\ CandidateInv(s)
  BY DEF HandleVote, TypeOK, ElectionInv
<1>2. f \in Server /\ m \in VoteReq /\ m.term \in Nat /\ m.cand = s /\ f # s
  BY <1>1, SMTT(30) DEF VoteCall, NoCall, CandidateInv, VoteReq
<1>3. node[f] \in Node
  BY <1>2 DEF TypeOK
<1>4. /\ o.ok \in BOOLEAN /\ NodeStep(node[f], o.node)
      /\ o.ok => /\ o.node.term = m.term /\ o.node.votedfor = s
                 /\ node[f].term <= m.term
                 /\ node[f].term = m.term => node[f].votedfor \in {Nil, s}
  <2> HIDE DEF m, f
  <2>1. /\ o.ok \in BOOLEAN /\ NodeStep(node[f], o.node)
        /\ o.ok => /\ o.node.term = m.term /\ o.node.votedfor = m.cand
                   /\ node[f].term <= m.term
                   /\ node[f].term = m.term => node[f].votedfor \in {Nil, m.cand}
    <3>1. m \in VoteReq
      BY <1>2
    <3> HIDE DEF o
    <3>2. o = Vote(node[f], m)
      BY SMTT(30) DEF o
    <3> QED
      BY <1>3, <3>1, <3>2, VoteOutcome, Zenon
  <2> HIDE DEF o
  <2> QED
    BY <1>2, <2>1
<1>5. /\ node' = [node EXCEPT ![f] = o.node]
      /\ vcall' = [vcall EXCEPT ![s] = IF o.ok THEN [st |-> "granted", to |-> f]
                                       ELSE [st |-> "refused", fterm |-> o.fterm]]
      /\ votes' = IF o.ok THEN votes \cup {<<m.term, f, s>>} ELSE votes
      /\ UNCHANGED <<elect, late, elected>>
  BY <1>2 DEF HandleVote, RecordVote
<1> HIDE DEF o, f, m
<1>6. \A g \in Server : NodeStep(node[g], node'[g])
  BY <1>4, <1>5, SameNode, Zenon
<1>7. VotesStep
  <2>1. node'[f] = o.node
    BY <1>2, <1>5 DEF TypeOK
  <2>2. o.ok => Grants(f, m.term, s)
    BY <1>2, <1>4, <2>1, SMTT(30) DEF Grants
  <2> QED
    BY <1>2, <1>4, <1>5, <2>2 DEF VotesStep
<1>8. CandidateInv(s)'
  <2>1. elect'[s].pc = "ask"
    BY <1>1, <1>5, Zenon DEF CandidateInv
  <2>2. vcall'[s] = IF o.ok THEN [st |-> "granted", to |-> f]
                            ELSE [st |-> "refused", fterm |-> o.fterm]
    BY <1>5, Zenon DEF TypeOK
  <2>3. vcall'[s].st # "sent" /\ (vcall'[s].st = "granted" => o.ok /\ vcall'[s].to = f)
    <3>1. CASE o.ok
      <4>1. vcall'[s] = [st |-> "granted", to |-> f]
        BY <2>2, <3>1, Zenon
      <4> QED
        BY <3>1, <4>1
    <3>2. CASE ~o.ok
      <4>1. vcall'[s] = [st |-> "refused", fterm |-> o.fterm]
        BY <2>2, <3>2, Zenon
      <4> QED
        BY <4>1
    <3> QED
      BY <3>1, <3>2
  <2>4. node'[s] = node[s]
    <3>1. node \in [Server -> Node]
      BY Zenon DEF TypeOK
    <3> QED
      BY <1>2, <1>5, <3>1, Zenon
  <2>5. node[s].state = "CANDIDATE" => m.term = node[s].term
    BY <1>1, <1>5, <2>1 DEF CandidateInv, m
  <2>6. votes \subseteq votes' /\ (o.ok => <<m.term, f, s>> \in votes')
    BY <1>5, SMTT(30)
  <2> QED
    BY <1>1, <1>2, <1>5, <2>1, <2>3, <2>4, <2>5, <2>6 DEF CandidateInv
<1>9. \A g \in Server \ {s} : elect'[g] = elect[g] /\ vcall'[g] = vcall[g]
  BY <1>5 DEF TypeOK
<1>10. LateInv'
  BY <1>5 DEF ElectionInv, LateInv
<1> QED
  BY <1>5, <1>6, <1>7, <1>8, <1>9, <1>10, TimerStep


(* request_vote takes the answer. *)
LEMMA ReceiveVoteElection ==
  ASSUME TypeOK, TypeOK', ElectionInv, NEW s \in Server, ReceiveVote(s)
  PROVE  ElectionInv'
<1> USE DEF callVars, leaderVars, history, counters
<1>1. /\ vcall[s] \in VoteCall /\ elect[s] \in Election /\ node[s] \in Node
      /\ CandidateInv(s) /\ vcall[s].st \in {"granted", "refused"}
      /\ vcall' = [vcall EXCEPT ![s] = NoCall]
      /\ UNCHANGED <<late, elected, votes>>
  BY DEF ReceiveVote, TypeOK, ElectionInv
<1>2. vcall'[s].st = "idle" /\ vcall'[s] = NoCall /\ \A g \in Server \ {s} : vcall'[g] = vcall[g]
  BY <1>1 DEF TypeOK, NoCall
<1>3. VotesStep /\ LateInv'
  BY <1>1 DEF VotesStep, ElectionInv, LateInv
<1>4. elect[s].pc = "ask"
  BY <1>1 DEF CandidateInv
<1>5. CASE vcall[s].st = "granted"
  <2>1. elect' = [elect EXCEPT ![s].granted = @ \cup {vcall[s].to}] /\ node' = node
    BY <1>5 DEF ReceiveVote
  <2>2. /\ elect'[s].pc = "ask" /\ elect'[s].granted = elect[s].granted \cup {vcall[s].to}
        /\ \A g \in Server \ {s} : elect'[g] = elect[g]
    <3>1. elect'[s] = [elect[s] EXCEPT !.granted = @ \cup {vcall[s].to}]
      BY <2>1 DEF TypeOK
    <3>2. elect'[s].pc = "ask" /\ elect'[s].granted = elect[s].granted \cup {vcall[s].to}
      BY <1>1, <1>4, <3>1 DEF Election, NoElection
    <3> QED
      BY <2>1, <3>2 DEF TypeOK
  <2>3. CandidateInv(s)'
    BY <1>1, <1>2, <1>4, <1>5, <2>1, <2>2 DEF CandidateInv
  <2>4. \A g \in Server : NodeStep(node[g], node'[g])
    BY <2>1, NoNodeStep, Zenon
  <2> QED
    BY <1>1, <1>2, <1>3, <2>2, <2>3, <2>4, TimerStep
<1>6. CASE vcall[s].st = "refused" /\ NewerTerm(vcall[s].fterm, elect[s].term)
  <2>1. /\ node' = [node EXCEPT ![s] = Follower(node[s], vcall[s].fterm)]
        /\ elect' = [elect EXCEPT ![s] = NoElection]
    BY <1>6 DEF ReceiveVote
  <2>2. vcall[s].fterm \in Nat
    BY <1>1, <1>6, SMTT(30) DEF VoteCall, NoCall
  <2>3. NodeStep(node[s], Follower(node[s], vcall[s].fterm))
    BY <1>1, <2>2, FollowerType
  <2>4. \A g \in Server : NodeStep(node[g], node'[g])
    BY <2>1, <2>3, SameNode, Zenon
  <2>5. elect'[s] = NoElection /\ \A g \in Server \ {s} : elect'[g] = elect[g]
    BY <2>1 DEF TypeOK
  <2> QED
    BY <1>1, <1>2, <2>4, <2>5, StopElection
<1>7. CASE vcall[s].st = "refused" /\ ~NewerTerm(vcall[s].fterm, elect[s].term)
  <2>1. node' = node /\ elect' = elect
    BY <1>7 DEF ReceiveVote
  <2>2. CandidateInv(s)'
    BY <1>1, <1>2, <2>1 DEF CandidateInv
  <2>3. \A g \in Server : NodeStep(node[g], node'[g])
    BY <2>1, NoNodeStep, Zenon
  <2> QED
    BY <1>1, <1>2, <1>3, <2>1, <2>2, <2>3, TimerStep
<1> QED
  BY <1>1, <1>5, <1>6, <1>7

(* The steps of one server. *)
LEMMA ServerNextElection ==
  ASSUME TypeOK, TypeOK', ElectionInv, NEW s \in Server, ServerNext(s)
  PROVE  ElectionInv'
<1> USE DEF callVars, leaderVars, history, counters
<1>0. node[s] \in Node /\ CandidateInv(s) /\ vcall[s] \in VoteCall
  BY DEF TypeOK, ElectionInv
<1>a. \A f \in Server : NodeStep(node[f], node[f])
  BY NoNodeStep
<1>b. vcall[s].st = "idle" => vcall[s] = NoCall
  BY <1>0 DEF VoteCall, NoCall
<1>1. CASE ElectionTimeout(s)
  BY <1>1, StartRoundElection DEF ElectionTimeout
<1>2. CASE NextRound(s)
  <2>1. CASE StartRound(s)
    BY <1>2, <2>1, StartRoundElection DEF NextRound
  <2>2. CASE ~StartRound(s)
    <3>1. /\ elect' = [elect EXCEPT ![s] = NoElection]
          /\ UNCHANGED <<node, vcall, late, elected, votes>> /\ vcall[s].st = "idle"
      BY <1>0, <1>2, <2>2 DEF NextRound, CandidateInv
    <3>2. elect'[s] = NoElection /\ \A f \in Server \ {s} : elect'[f] = elect[f]
      BY <3>1 DEF TypeOK
    <3> QED
      BY <1>a, <1>b, <3>1, <3>2, StopElection
  <2> QED
    BY <2>1, <2>2
<1>3. CASE HandleVote(s)
  BY <1>3, HandleVoteElection
<1>4. CASE ReceiveVote(s)
  BY <1>4, ReceiveVoteElection
<1>5. CASE TimeoutVote(s)
  <2>1. /\ vcall' = [vcall EXCEPT ![s] = NoCall] /\ Abandon(vcall[s])
        /\ UNCHANGED <<node, elect, elected, votes>>
    BY <1>5 DEF TimeoutVote
  <2>2. LateInv'
    <3>1. \/ late' = late
          \/ vcall[s].st = "sent" /\ late' = late \cup {[to |-> vcall[s].to, req |-> vcall[s].req]}
      BY <2>1 DEF Abandon
    <3> QED
      BY <1>0, <3>1, SMTT(30) DEF LateInv, ElectionInv, CandidateInv
  <2>3. vcall'[s] = NoCall /\ \A f \in Server \ {s} : vcall'[f] = vcall[f]
    BY <2>1 DEF TypeOK
  <2>4. CandidateInv(s)'
    <3>1. node'[s] = node[s] /\ elect'[s] = elect[s] /\ votes' = votes /\ CandidateInv(s)
      BY <1>0, <2>1, Zenon DEF ElectionInv
    <3>2. vcall'[s].st = "idle"
      BY <2>3 DEF NoCall
    <3> QED
      BY <3>1, <3>2 DEF CandidateInv
  <2> QED
    BY <1>a, <2>1, <2>2, <2>3, <2>4, TimerStep DEF VotesStep
<1>6. CASE LoseRound(s)
  BY <1>6, LoseRoundElection
<1>7. CASE BecomeLeader(s)
  BY <1>7, BecomeLeaderElection
<1>8. CASE LateMajority(s)
  <2> DEFINE r == [node[s] EXCEPT !.last_applied = MaxApplied(node[s].log)]
  <2>1. /\ elect' = [elect EXCEPT ![s] = NoElection] /\ vcall[s].st = "idle"
        /\ node' = [node EXCEPT ![s] = r]
        /\ UNCHANGED <<vcall, late, elected, votes>>
    BY <1>8 DEF LateMajority
  <2>2. elect'[s] = NoElection /\ \A f \in Server \ {s} : elect'[f] = elect[f]
    BY <2>1 DEF TypeOK
  <2>3. NodeStep(node[s], r)
    BY <1>0 DEF NodeStep, Node
  <2>4. \A f \in Server : NodeStep(node[f], node'[f])
    BY <2>1, <2>3, SameNode, Zenon
  <2> QED
    BY <1>b, <2>1, <2>2, <2>4, StopElection
<1>9. CASE Crash(s)
  <2>1. /\ elect' = [elect EXCEPT ![s] = NoElection]
        /\ vcall' = [vcall EXCEPT ![s] = NoCall]
        /\ UNCHANGED <<late, elected, votes>>
        /\ node' = [node EXCEPT ![s] = Restarted(node[s])]
    BY <1>9 DEF Crash
  <2>3. NodeStep(node[s], Restarted(node[s]))
    BY <1>0 DEF NodeStep, Restarted, Node
  <2>4. \A f \in Server : NodeStep(node[f], node'[f])
    BY <2>1, <2>3, SameNode, Zenon
  <2>5. /\ elect'[s] = NoElection /\ vcall'[s] = NoCall
        /\ \A f \in Server \ {s} : elect'[f] = elect[f] /\ vcall'[f] = vcall[f]
    BY <2>1 DEF TypeOK
  <2> QED
    BY <2>1, <2>4, <2>5, StopElection
<1>10. CASE \E w \in Writer : Write(w, s)
  <2>1. PICK w \in Writer : Write(w, s)
    BY <1>10
  <2> DEFINE r == [node[s] EXCEPT !.log =
                     Append(@, [term |-> node[s].term, sql |-> w, applied |-> FALSE])]
  <2>2. node' = [node EXCEPT ![s] = r] /\ UNCHANGED <<elect, vcall, late, elected, votes>>
    BY <2>1 DEF Write, TypeOK
  <2>3. NodeStep(node[s], r)
    BY <1>0 DEF NodeStep, Node
  <2>4. \A f \in Server : NodeStep(node[f], node'[f])
    BY <2>2, <2>3, SameNode, Zenon
  <2>5. LateInv' /\ VotesStep
    BY <2>2 DEF LateInv, ElectionInv, VotesStep
  <2> QED
    BY <2>2, <2>4, <2>5, QuietStep, Zenon
<1> QED
  BY <1>1, <1>2, <1>3, <1>4, <1>5, <1>6, <1>7, <1>8, <1>9, <1>10 DEF ServerNext
=============================================================================
