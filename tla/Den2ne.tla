------------------------------- MODULE Den2ne -------------------------------
(***************************************************************************)
(* The load exchange of den2ne on top of the HLMAC assignment              *)
(* (iotorii-csma.c, broadcast build).  When its statistic timer fires, a   *)
(* node counts its children; a node without children sends LOAD and SHARE  *)
(* to its parent, the others send when all their children have; the root   *)
(* declares convergence when all of its children have.                     *)
(*                                                                         *)
(* LOAD and SHARE are unicast: queued in order and acknowledged, and still *)
(* lost when the retransmissions or the queues give out, or taken twice    *)
(* (LinkLayer shows how).  The load a LOAD carries is only printed, so it  *)
(* is left out.                                                            *)
(***************************************************************************)
EXTENDS Assignment, SequencesExt

CONSTANTS
  Loads,    \* the loads random_rand() % 200 may give a node
  Lossy,    \* TRUE: any frame may be lost, a unicast one also repeated
  MaxUnicast,  \* bound: a message is not repeated into a queue of this length
  Timely    \* TRUE: frames do not overlap, a statistic timer outlasts the
            \* SetHLMACs around its node, a round ends before the next begins;
            \* FALSE: the delays of messages and timers are unrelated

\* Every payload fits, so an accepted address always makes a node entry.
ASSUME Den2neAssumption ==
  /\ Loads # {} /\ Loads \subseteq 0 .. 199
  /\ Lossy \in BOOLEAN /\ Timely \in BOOLEAN /\ MaxUnicast \in Nat
  /\ \A mac \in MacPayloads : EntriesThatFit(Cardinality(Nodes), mac) > 0

VARIABLES
  load,              \* [n]: load of the head of node_list, 0 before it exists
  edge,              \* [n]: found itself without children
  sent_load, sent_share,         \* [n]: done in this round
  n_hijos_load, n_hijos_share,   \* [n]: children that have not sent theirs
  has_converged,     \* of the root
  statistic_timer,   \* [n]: TRUE iff that ctimer is armed
  in_out,            \* [n][m]: load that flowed in from (or out to) m
  unicast,           \* [n][m]: LOADs and SHAREs on their way from n to m
  ledger             \* history: loads drawn, less those of former rounds and
                     \* the shares lost or ignored, plus those repeated

loadVars ==
  <<load, edge, sent_load, sent_share, n_hijos_load, n_hijos_share,
    has_converged, statistic_timer, in_out, unicast, ledger>>

vars == <<assignmentVars, loadVars>>

CommonNodes == Nodes \ {Root}

Init ==
  /\ AssignmentInit
  /\ load = [n \in Nodes |-> 0]
  /\ edge = [n \in Nodes |-> FALSE]
  /\ sent_load = [n \in Nodes |-> FALSE]
  /\ sent_share = [n \in Nodes |-> FALSE]
  /\ n_hijos_load = [n \in Nodes |-> 0]
  /\ n_hijos_share = [n \in Nodes |-> 0]
  /\ has_converged = FALSE
  /\ statistic_timer = [n \in Nodes |-> FALSE]
  /\ in_out = [n \in Nodes |-> [m \in Nodes |-> 0]]
  /\ unicast = [n \in Nodes |-> [m \in Nodes |-> << >>]]
  /\ ledger = 0

-----------------------------------------------------------------------------
NotParents(n) == {m \in Nbr[n] : flag[n][m] # 1}   \* mutant: all but parents

Children(n) == {m \in Nbr[n] : flag[n][m] = 0}

\* Messages with the given contents queued for each parent.
SentToParents(n, msgs) ==
  [m \in Nodes |->
     IF m \in Parents(n) THEN unicast[n][m] \o msgs ELSE unicast[n][m]]

Load == [kind |-> "LOAD", extra |-> 0]

ShareSurplusOnly(held) ==   \* mutant: what is missing is not asked for
  [kind |-> "SHARE", extra |-> IF held > 100 THEN held - 100 ELSE 0]

ShareUnsigned(held) ==   \* mutant: the sign is dropped
  [kind |-> "SHARE", extra |-> IF held > 100 THEN held - 100 ELSE 100 - held]

\* iotorii_handle_share_upstream_timer of a common node that holds the given
\* load: what is above 100, or the negative of what is missing, goes to each
\* parent, and the node is left with 100.
Share(held) == [kind |-> "SHARE", extra |-> held - 100]

FlowsInwards(n, held, flows) ==   \* mutant: the sign of an inflow
  [m \in Nodes |-> IF m \in Parents(n) THEN held - 100 ELSE flows[m]]

FlowsAfterShare(n, held, flows) ==
  [m \in Nodes |-> IF m \in Parents(n) THEN 100 - held ELSE flows[m]]

CheckLoadsOnly(n) ==   \* mutant: the shares are not waited for
  has_converged' = (has_converged \/ (n = Root /\ n_hijos_load'[n] = 0))

\* The test with which the root ends the handlers below.
CheckConvergence(n) ==
  has_converged' = (has_converged \/
    (n = Root /\ n_hijos_load'[n] = 0 /\ n_hijos_share'[n] = 0))

\* What Timely means.
NetworkQuiet ==
  /\ offers = {}
  /\ \A n \in Nodes : payload_entry_list[n] = << >> /\ ~statistic_timer[n]
  /\ \A n, m \in Nodes : unicast[n][m] = << >>

NoFrameInTheAir == offers = {}

SurroundingsQuiet(n) ==
  /\ \A o \in offers : n \notin {o.from, o.to}
  /\ payload_entry_list[n] = << >>
  /\ \A m \in Nbr[n] :
       \A i \in DOMAIN payload_entry_list[m] : n \notin payload_entry_list[m][i].to
  /\ \A p \in Parents(n) : ~statistic_timer[p]

-----------------------------------------------------------------------------
\* A new entry at the head of node_list draws a load; one behind it has none
\* that is ever used.
DrawLoad(n, isHead) ==
  \/ /\ isHead
     /\ \E l \in Loads : /\ load' = [load EXCEPT ![n] = l]
                         /\ ledger' = ledger + l - load[n]
  \/ ~isHead /\ UNCHANGED <<load, ledger>>

BeginRoundConverged ==   \* mutant: the flag of the last round stays
  /\ Timely => NetworkQuiet
  /\ StartRound
  /\ DrawLoad(Root, hlmac_table[Root] = << >>)
  /\ statistic_timer' = [statistic_timer EXCEPT ![Root] = TRUE]
  /\ UNCHANGED <<edge, sent_load, sent_share, n_hijos_load, n_hijos_share,
                 has_converged, in_out, unicast>>

\* The root keeps its node entries, hence its load, from round to round.
BeginRound ==
  /\ Timely => NetworkQuiet
  /\ StartRound
  /\ DrawLoad(Root, hlmac_table[Root] = << >>)
  /\ has_converged' = FALSE
  /\ statistic_timer' = [statistic_timer EXCEPT ![Root] = TRUE]
  /\ UNCHANGED <<edge, sent_load, sent_share, n_hijos_load, n_hijos_share,
                 in_out, unicast>>

BroadcastSetHlmac(n) ==
  /\ Timely => NoFrameInTheAir
  /\ SendMessage(n)
  /\ UNCHANGED loadVars

\* A new round resets what was sent, but neither edge nor the numbers of
\* children nor the flows.
TakeAddress(o) ==
  LET n == o.to IN
  /\ AcceptOffer(o)
  /\ DrawLoad(n, NewRound(o))
  /\ sent_load' = [sent_load EXCEPT ![n] = @ /\ ~NewRound(o)]
  /\ sent_share' = [sent_share EXCEPT ![n] = @ /\ ~NewRound(o)]
  /\ statistic_timer' = [statistic_timer EXCEPT ![n] = TRUE]
  /\ UNCHANGED <<edge, n_hijos_load, n_hijos_share, in_out, unicast>>
  /\ CheckConvergence(n)

LeaveAddress(o) ==
  /\ RefuseOffer(o) \/ DisregardOffer(o)
  /\ UNCHANGED <<load, edge, sent_load, sent_share, n_hijos_load,
                 n_hijos_share, statistic_timer, in_out, unicast, ledger>>
  /\ CheckConvergence(o.to)

(***************************************************************************)
(* iotorii_handle_statistic_timer: children are the neighbours no SetHLMAC *)
(* came from.  A common node that has none sends its LOAD and SHARE.       *)
(***************************************************************************)
HandleStatisticTimer(n) ==
  LET isEdge == n # Root /\ number_of_neighbours_flag[n] = 0
      hijos  == Cardinality(Children(n))
  IN
  /\ statistic_timer[n]
  /\ Timely => SurroundingsQuiet(n)
  /\ statistic_timer' = [statistic_timer EXCEPT ![n] = FALSE]
  /\ edge' = [edge EXCEPT ![n] = isEdge]
  /\ n_hijos_load' = [n_hijos_load EXCEPT ![n] = hijos]
  /\ n_hijos_share' = [n_hijos_share EXCEPT ![n] = hijos]
  /\ sent_load' = [sent_load EXCEPT ![n] = @ \/ isEdge]
  /\ sent_share' = [sent_share EXCEPT ![n] = @ \/ isEdge]
  /\ \/ /\ isEdge
        /\ load' = [load EXCEPT ![n] = 100]
        /\ in_out' = [in_out EXCEPT ![n] =
             FlowsAfterShare(n, load[n], in_out[n])]
        /\ unicast' = [unicast EXCEPT ![n] =
             SentToParents(n, <<Load, Share(load[n])>>)]
     \/ ~isEdge /\ UNCHANGED <<load, in_out, unicast>>
  /\ UNCHANGED <<assignmentVars, has_converged, ledger>>

CountsPastZero(s, n, awaited) == s \in Children(n) /\ ~edge[n]   \* mutant

\* A message from s counts when n takes s for a child and still waits for one.
Counts(s, n, awaited) == s \in Children(n) /\ ~edge[n] /\ awaited[n] # 0

Popped(s, n) == [unicast EXCEPT ![s][n] = Tail(@)]

(***************************************************************************)
(* The LOAD branch of iotorii_handle_incoming_sethlmac_or_load: the last   *)
(* child's LOAD makes a common node send its own.  A LOAD of a node that   *)
(* is not in the table is ignored.                                         *)
(***************************************************************************)
ReceiveLoad(s, n) ==
  LET left  == n_hijos_load[n] - (IF Counts(s, n, n_hijos_load) THEN 1 ELSE 0)
      sends == /\ n # Root /\ s \in Nbr[n]
               /\ ~edge[n] /\ ~sent_load[n] /\ left = 0
  IN
  /\ unicast[s][n] # << >> /\ Head(unicast[s][n]).kind = "LOAD"
  /\ n_hijos_load' = [n_hijos_load EXCEPT ![n] = left]
  /\ sent_load' = [sent_load EXCEPT ![n] = @ \/ sends]
  /\ unicast' = [Popped(s, n) EXCEPT ![n] =
       IF sends THEN SentToParents(n, <<Load>>) ELSE @]
  /\ UNCHANGED <<assignmentVars, load, edge, sent_share, n_hijos_share,
                 statistic_timer, in_out, ledger>>
  /\ IF s \in Nbr[n] THEN CheckConvergence(n) ELSE UNCHANGED has_converged

\* The flow from s is recorded if none was, whether the SHARE counts or not.
FlowsAfterReceipt(s, n, extra) ==
  [m \in Nodes |-> IF m = s /\ m \in Nbr[n] /\ in_out[n][m] = 0
                   THEN extra ELSE in_out[n][m]]

(***************************************************************************)
(* The SHARE branch: the share of a child is added to the load, the last   *)
(* child's one makes a common node share upstream what it now has.         *)
(***************************************************************************)
ShareCounts(s, n, extra) ==
  LET held  == load[n] + extra
      flows == FlowsAfterReceipt(s, n, extra)
      sends == n # Root /\ n_hijos_share[n] = 1 /\ ~sent_share[n]
  IN
  /\ Counts(s, n, n_hijos_share)
  /\ n_hijos_share' = [n_hijos_share EXCEPT ![n] = @ - 1]
  /\ sent_share' = [sent_share EXCEPT ![n] = @ \/ sends]
  /\ \/ /\ sends
        /\ load' = [load EXCEPT ![n] = 100]
        /\ in_out' = [in_out EXCEPT ![n] = FlowsAfterShare(n, held, flows)]
        /\ unicast' = [Popped(s, n) EXCEPT ![n] =
             SentToParents(n, <<Share(held)>>)]
     \/ /\ ~sends
        /\ load' = [load EXCEPT ![n] = held]
        /\ in_out' = [in_out EXCEPT ![n] = flows]
        /\ unicast' = Popped(s, n)
  /\ UNCHANGED <<n_hijos_load, ledger>>
  /\ CheckConvergence(n)

ShareIgnored(s, n, extra) ==
  /\ ~Counts(s, n, n_hijos_share)
  /\ in_out' = [in_out EXCEPT ![n] = FlowsAfterReceipt(s, n, extra)]
  /\ unicast' = Popped(s, n)
  /\ ledger' = ledger - extra
  /\ UNCHANGED <<n_hijos_load, n_hijos_share, load, sent_share, has_converged>>

ReceiveShare(s, n) ==
  /\ unicast[s][n] # << >> /\ Head(unicast[s][n]).kind = "SHARE"
  /\ LET extra == Head(unicast[s][n]).extra
     IN  ShareCounts(s, n, extra) \/ ShareIgnored(s, n, extra)
  /\ UNCHANGED <<assignmentVars, edge, sent_load, statistic_timer>>

\* The last retransmission fails, or there was no queue for it.
LoseMessage(s, n) ==
  /\ Lossy
  /\ \E i \in DOMAIN unicast[s][n] :
       /\ unicast' = [unicast EXCEPT ![s][n] = RemoveAt(@, i)]
       /\ ledger' = ledger - unicast[s][n][i].extra
  /\ UNCHANGED <<assignmentVars, load, edge, sent_load, sent_share,
                 n_hijos_load, n_hijos_share, has_converged, statistic_timer,
                 in_out>>

\* The receiver takes the message and will take it once more: its
\* acknowledgement was lost, and a broadcast has replaced the sequence number
\* the duplicate filter remembers.
RepeatMessage(s, n) ==
  /\ Lossy
  /\ unicast[s][n] # << >> /\ Len(unicast[s][n]) < MaxUnicast
  /\ unicast' = [unicast EXCEPT ![s][n] = <<Head(@)>> \o @]
  /\ ledger' = ledger + Head(unicast[s][n]).extra
  /\ UNCHANGED <<assignmentVars, load, edge, sent_load, sent_share,
                 n_hijos_load, n_hijos_share, has_converged, statistic_timer,
                 in_out>>

LoseFrame(o) ==
  /\ Lossy
  /\ LoseOffer(o)
  /\ UNCHANGED loadVars

HandleOffer(o) == TakeAddress(o) \/ LeaveAddress(o)
HandleMessage(s, n) == ReceiveLoad(s, n) \/ ReceiveShare(s, n)

Next ==
  \/ BeginRound
  \/ \E n \in Nodes : BroadcastSetHlmac(n) \/ HandleStatisticTimer(n)
  \/ \E o \in offers : HandleOffer(o) \/ LoseFrame(o)
  \/ \E s, n \in Nodes : HandleMessage(s, n) \/ LoseMessage(s, n) \/ RepeatMessage(s, n)

Spec == Init /\ [][Next]_vars

\* Timers that are armed fire and what is on its way arrives.  The root need
\* not start another round.
Fairness ==
  /\ \A n \in Nodes : WF_vars(BroadcastSetHlmac(n)) /\ WF_vars(HandleStatisticTimer(n))
  /\ WF_vars(\E o \in offers : HandleOffer(o))
  /\ WF_vars(\E s, n \in Nodes : HandleMessage(s, n))

FairSpec == Spec /\ Fairness
-----------------------------------------------------------------------------
\* Shape of the state; a node awaits at most its neighbours.
TypeOK ==
  /\ AssignmentTypeOK
  /\ load \in [Nodes -> Int] /\ in_out \in [Nodes -> [Nodes -> Int]]
  /\ ledger \in Int /\ has_converged \in BOOLEAN
  /\ \A n \in Nodes :
       /\ {edge[n], sent_load[n], sent_share[n], statistic_timer[n]} \subseteq BOOLEAN
       /\ {n_hijos_load[n], n_hijos_share[n]} \subseteq 0 .. number_of_neighbours(n)
  /\ \A n, m \in Nodes : \A i \in DOMAIN unicast[n][m] :
       unicast[n][m][i].kind \in {"LOAD", "SHARE"}

ExtraOf(queue) == SumFunction([i \in DOMAIN queue |-> queue[i].extra])

InFlight(n) == SumFunction([m \in Nodes |-> ExtraOf(unicast[n][m])])

\* A SHARE moves load, it neither makes nor destroys any: what the nodes hold
\* and what is on its way adds up to what was drawn less what was dropped, in
\* spite of losses, repeated shares and rounds that overlap.  It takes one
\* address per node (with more parents the same surplus goes to each) and
\* tables that know each other (the SetHLMAC of a stranger makes no parent).
LoadConserved ==
  MaxHlmac = 1 /\ MutualNeighbours =>
    SumFunction(load) + SumFunction([n \in Nodes |-> InFlight(n)]) = ledger

\* Every node is reached from the root, over however many others.
Connected ==
  \A S \in SUBSET Nodes :
    Root \in S /\ (\A n \in S : Nbr[n] \subseteq S) => S = Nodes

\* A SetHLMAC has room for all the neighbours of its sender.
EveryNeighbourFits ==
  \A n \in Nodes, mac \in MacPayloads, len \in 1 .. Cardinality(Nodes) :
    number_of_neighbours(n) <= EntriesThatFit(len, mac)

\* The conditions under which the exchange keeps its promises.
Ideal ==
  /\ Timely /\ ~Lossy /\ MaxHlmac = 1
  /\ MutualNeighbours /\ Connected /\ EveryNeighbourFits

\* "SI LLEGA AL ROOT HA TERMINADO EL INTERCAMBIO DE DATOS": when the root has
\* converged, every common node has shared in the root's round and no message
\* is on its way.
ExchangeComplete ==
  has_converged =>
    /\ \A n \in CommonNodes :
         /\ hlmac_table[n] # << >> /\ last_timestamp[n] = timestamp
         /\ sent_share[n]
    /\ \A n, m \in Nodes : unicast[n][m] = << >>

\* The purpose of the exchange: at convergence every common node is left with
\* 100 and all that the nodes had more, or lacked, is at the root.
SurplusAtRoot ==
  has_converged =>
    /\ \A n \in CommonNodes : load[n] = 100
    /\ load[Root] = ledger - 100 * Cardinality(CommonNodes)

\* Parent and child have recorded the same flow between them, with opposite
\* signs.
FlowsMatch ==
  has_converged =>
    \A n \in CommonNodes : \A p \in Parents(n) : in_out[n][p] = -in_out[p][n]

\* ... in the first round: later ones find the flows of the former ones.
FirstFlowsMatch == timestamp = 0 => FlowsMatch

\* The nodes that have shared in the round the root is in.
Shared ==
  {n \in CommonNodes :
     sent_share[n] /\ hlmac_table[n] # << >> /\ last_timestamp[n] = timestamp}

Detection ==
  INSTANCE ConvergenceDetection
    WITH round <- timestamp, done <- Shared, detected <- has_converged

\* Without losses and with ideal timing the exchange implements the detection of its end.
DetectsConvergence == Detection!Spec

\* Every round that is begun converges.
Converges ==
  \A t \in 0 .. MaxRound :
    timestamp = t ~> (timestamp = t /\ has_converged)
=============================================================================
