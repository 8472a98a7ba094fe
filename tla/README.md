# den2ne on Contiki-NG: a verification project

`src/4.8/examples/den2ne-def` is a MAC driver for Contiki-NG 4.8 (`iotorii_csma_driver`) that
builds a tree over a wireless network by giving every node a hierarchical address (HLMAC) and then
moves loads (energy, in the application the authors have in mind) along that tree to its root. This
directory holds TLA+ models of it, the TLC runs that check them on small networks and TLAPS proofs
for networks of any size.

The models follow the default build: broadcast SetHLMAC (`IOTORII_HLMAC_CAST == 1`), no IPv6, one
address per node (`HLMAC_MAX_HLMAC == 1`) unless a run says otherwise. File names without a directory are
those of `src/4.8/examples/den2ne-def`.

## 1. The system

A Contiki-NG node is one process: packet reception and callback timers (`ctimer`) are run one after
the other and none is interrupted by another. Every action of the models is therefore one whole
handler; what interleaves is the handlers of different nodes, the messages between them and the
timers.

| Component | State | Operations | Interacts with |
|---|---|---|---|
| Neighbour discovery (`iotorii-csma.c` 1028-1110, 1469-1546) | `neighbour_table_entry_list`, `number_of_neighbours`, `number_of_hello_messages`, `hello_timer` | `iotorii_handle_hello_timer`, `iotorii_check_neighbours_hello`, `iotorii_handle_incoming_hello` | broadcasts and receives Hellos (empty frames); its table is read by everything below; on the root the Hello timer arms the SetHLMAC timer |
| HLMAC addresses and table (`hlmacaddr.c`, `hlmac-table.c`) | `hlmac_table_entry_list`, `number_of_hlmac_addresses` | create, extend, shorten, compare; add, clean, longest prefix, loop test | called by the assignment |
| HLMAC assignment (`iotorii-csma.c` 636-751, 1048-1054, 1113-1461, 1770-1973, 1996-2050) | `last_timestamp`, neighbour `flag`s, `number_of_neighbours_flag`, `payload_entry_list`, `send_sethlmac_timer`, the root's `timestamp` | `iotorii_handle_sethlmac_timer` (root), `iotorii_send_sethlmac`, `iotorii_handle_send_message_timer`, the SetHLMAC branch of `iotorii_handle_incoming_sethlmac_or_load` | broadcasts SetHLMACs; arms the statistic timer |
| Load exchange (`iotorii-csma.c` 754-1025, 1586-1768, 1946-1967) | `node_list` (the node's load), `edge`, `sent_load`, `sent_share`, `n_hijos_load`, `n_hijos_share`, `in_out` of the neighbours, `has_converged` | `iotorii_handle_statistic_timer`, `iotorii_handle_load_timer`, `iotorii_handle_share_upstream_timer`, the LOAD and SHARE branches of the reception | unicast LOAD and SHARE to the parents the assignment has marked |
| CSMA output (`csma-output.c`) | a queue of packets for each neighbour, the pools of queues, packets, metadata and buffers, backoff timers, `seqno` | `csma_output_packet`, `transmit_from_queue`, `packet_sent` with `tx_done` and `rexmit` | sends everything above; calls its callbacks |
| Frame reception (`iotorii-csma.c`, `os/net/mac/mac-sequence.c`) | the last sequence number of each sender | acknowledgement frames, duplicate filter, dispatch | calls the handlers above |
| Callback timers (`os/sys/ctimer.c`, `etimer.c`, `process.c`, the clock of the simulated node) | `ctimer_list`, `timerlist`, `next_expiration`, the event queue | `ctimer_set`, `ctimer_stop`, the poll of `etimer_process`, delivery of events, the clock tick | everything that is delayed above |
| Unicast build, sending half (`iotorii-csma.c` with `IOTORII_HLMAC_CAST == 0`) | one payload list for all messages, its timer | queueing of a payload for each receiver, `iotorii_handle_send_message_timer` | CSMA output |
| IPv6 build, security, flash log, applications, demo programs, the rest of Contiki-NG | see section 7 | | |

What is hard about it:

* **Several rounds at once.** The root starts a round with every Hello; SetHLMACs of the last round may
  be queued, in the air or lost. Nothing but a timestamp tells rounds apart, and round 0 is special
  because 0 is also the initial value of `last_timestamp`.
* **Counting instead of knowing.** A node takes the neighbours it received no SetHLMAC from for its
  children, counts them once when its statistic timer fires, and counts down with every LOAD and SHARE.
  The timer is set to an estimate of the time SetHLMACs take. Losses, slow frames and rounds that
  overlap all make the count wrong.
* **Freed memory.** The HLMAC table stores a pointer to an address buffer, and all three callers
  free the buffer afterwards; the loop test reads it later.
* **Lists changed while they are walked** (`iotorii_check_neighbours_hello`).
* **Hand-kept counters** next to lists, ids that are counts at the time of addition, full tables.
* **Pools that give out in the middle.** A packet takes blocks of four pools one after the other; each failure
  has to give back what came before, and there are two queues only.
* **Retransmission against a filter of one number.** A lost acknowledgement makes a frame arrive twice; the receiver
  remembers one number of each sender, and a broadcast may come between the two.
* **Timers in two lists and a queue.** An expired callback timer is unlinked from one list, turned into an event, and called
  when the event arrives, if it is still in the other list. It may be set again or stopped in between, and the event queue may be full.

What makes each component correct:

* discovery: count and list agree, ids differ, only silent neighbours are removed and all of them are;
* table: the comparison is an order, the loop test finds exactly the descendants of the node;
* assignment: one address per node and round, all different, parents form a tree, whatever is lost or
  late; the count of neighbours not heard of is right; the queue and its timer agree;
* load exchange: load is neither made nor destroyed, every node ends with 100 and the root
  with the rest, the root declares convergence exactly when this is so, and eventually;
* CSMA output: each packet gets one callback, packets to one neighbour stay in order, pools are not leaked;
* link: an acknowledged unicast was passed on, and none overtakes another;
* callback timers: a timer that is set is called, not before its time, unless it is stopped.

## 2. Modules

| Module | Models | |
|---|---|---|
| `Neighbours` | discovery at one node | the other nodes are the environment |
| `HlmacAddr` | addresses and the table as operators | used by the two next ones |
| `HlmacTable` | the table with its separate count under any sequence of calls | |
| `Assignment` | SetHLMAC rounds in a network | extends `HlmacAddr` |
| `Den2ne` | load exchange on top | extends `Assignment`: each of its actions conjoins one of `Assignment`'s with what the same handler does to the loads |
| `ConvergenceDetection` | what the exchange promises, in four actions | `Den2ne` implements it |
| `CsmaOutput` | the sending side of the MAC of one node | the radio is a free choice of results |
| `PacketService` | what `csma_output_packet` promises its callers | `CsmaOutput` implements it |
| `LinkLayer` | one sender and one of its receivers | extends `CsmaOutput` with the reception |
| `UnicastChannel` | what the load exchange assumes of unicast | `LinkLayer` implements it |
| `UnicastSender` | sending half of the unicast build | extends `CsmaOutput` |
| `CallbackTimers` | callback timers of one node | what every other module takes for granted of its timers |
| `Sublists` | the part of a list that is left when members are unlinked | a recursive function that proofs can expand |
| `NeighboursProofs`, `HlmacTableProofs`, `AssignmentProofs`, `Den2neProofs`, `ConvergenceProofs`, `LinkProofs`, `CallbackTimersProofs` | theorems and proofs | |
| `RecursionProofs` | lemmas about sums, sublists and recursive functions | used by the others |
| `MC*` | instances for TLC | |

The layers meet in two places. `Den2ne` treats a unicast link as a queue whose head may be delivered, repeated or lost, and
`LinkLayer` is shown to implement exactly that (`UnicastChannel`). `Assignment`, `Den2ne` and `LinkLayer` let an armed
timer fire at any time and, where they state fairness, let it fire in the end; `CallbackTimers` shows the second of what Contiki-NG does.

### Neighbours

`HandleHelloTimer` is `iotorii_handle_hello_timer` with the check it ends in; `HandleIncomingHello(p)`
is the reception. `CheckNeighboursHello` removes at most one entry: `list_remove` clears `next` of the
entry it unlinks (`os/lib/list.c`) and the loop continues from there. `Rearms` is the limit of 500
Hellos. The histories `heard`, `missed` and `expired` are not in the code; they say when a peer was
last heard, whether its last Hello met a full table, and whether an entry was ever removed.

### HlmacAddr and HlmacTable

An address is a sequence of ids. `hlmac_cmp` keeps the source's treatment of trailing zeros and its
sign (+1 when the *second* address is larger). The loop test, `hlmactable_add` and the cleaning by a newer timestamp
are operators on a list of `[address, timestamp]`; `HlmacTable` keeps list and count apart as the
code does and shows that the operators describe both.

### Assignment

| Action | Handler |
|---|---|
| `StartRound` | `iotorii_handle_sethlmac_timer` of the root |
| `SendMessage(n)` | `iotorii_handle_send_message_timer` |
| `AcceptOffer`, `RefuseOffer`, `DisregardOffer` | the three ways through the SetHLMAC branch of `iotorii_handle_incoming_sethlmac_or_load` |
| `LoseOffer` | the radio |

`QueueSetHlmac` is `iotorii_send_sethlmac`: the payload, its random choice of recipients when the frame
cannot hold all (`EntriesThatFit` keeps the tests as they are written, the first of which forgets the
timestamp), and the timer, armed only if the list was empty. A frame is broken into one *offer* for each
neighbour it lists, which is what `iotorii_extract_address` makes of it there; a node that is not listed gets an
unspecified address and ignores the frame.

`FreedIntact` says whether the freed buffers in the HLMAC table keep their contents. With FALSE the loop test may
answer anything as soon as the table has an entry, which covers every content the allocator may
leave. `assigned` is a history of all the accepted addresses.

A payload remembers the size of the buffer it was allocated with (`MacPayloads`: what is left of a frame after its header, measured with whatever packet the packetbuf holds at that moment), so
that it can be compared with what was written (`PayloadLength`).

The neighbour tables are constants (`Nbr`, `number_id`): discovery is slow (a Hello in about 60 seconds)
compared to a round.

### Den2ne

`BeginRound`, `BroadcastSetHlmac`, `TakeAddress` and `LeaveAddress` extend the actions of `Assignment`
with the loads; `HandleStatisticTimer`, `ReceiveLoad` and `ReceiveShare` are the other handlers.
`node_list` is reduced to the load of its head, the only part that is ever used. The load
carried by a LOAD is only printed and is left out; its arrival is not. Unicast messages are
queues: `csma-output.c` keeps one queue for each receiver and sends them in order. When `Lossy` the message at the
head may be lost (`LoseMessage`) or arrive and stay there (`RepeatMessage`: its acknowledgement was lost and the duplicate filter has seen
another frame since). `MaxUnicast` bounds repetition: a message is not
repeated into a queue that is that long. The history `ledger` is the sum of the loads drawn
less what was given up: loads of former rounds and shares that were lost or ignored.

`Timely` restricts schedules to those the timer constants aim at: broadcasts do not overlap, the statistic timer of a node
fires after the SetHLMACs around it and after its parent's one, and a round is over when the next
begins. The code does not ensure it: the statistic timer is set to one maximal backoff and
`IOTORII_SETHLMAC_DELAY` ticks (20 ticks at the root), while a SetHLMAC may wait that long in the queue of a neighbour
before its own backoff starts. It is an assumption of the runs named *timely*, and the other runs do
without it.

### CsmaOutput and PacketService

`Output(d)` is `csma_output_packet`: `AcceptPacket` is the way to `list_add`, `RefusePacket` all the others, in which the queue that was
just made is given back and the callback is called at once. `numfree` counts the free blocks of the four pools, each of which may be the first to
give out. `Transmit(d, result)` is the transmit timer of a queue with `transmit_from_queue`, `send_one_packet` and `packet_sent`: the
result is a free choice, and after it the packet is either done (`TxDone`: callback, blocks freed, next packet or end of the queue) or stays at the head
(`Rexmit`). The counters follow the code: a collision counts as an attempt only after `MaxBackoff` others. Delays are left
out. `PacketService` says what remains of it for a caller: one answer for each packet, in order for each destination, and always one.

### LinkLayer and UnicastChannel

`TransmitFrame` joins a transmission with `input_packet` at `Receiver`, one of the neighbours. `HeardOutcomes` says which results go with a frame
that was heard: an acknowledged one was; a unicast with any other result may have been, also one for which the radio reports that an acknowledgement it
waited for itself is missing (`default` case of `send_one_packet`). `IsDuplicate` compares with the single number the
receiver keeps of this sender; broadcasts have a queue of their own at the sender but take numbers from the same counter, and
that is how a repeated unicast passes the filter. `ForgetSeqno` stands for the two ways an entry goes: age, and 16 other senders.
`UnicastChannel` is the queue `Den2ne` works with.

### UnicastSender

In the unicast build a timer takes payloads from one list and hands them to the CSMA output. `HandleSendTimer` keeps the test it then makes:
not whether the packet was taken but whether `transmission_delay`, preset to 1000, was overwritten, which
`schedule_transmission` does for the first packet of a queue only (`Schedules`). What receivers do with the messages is not modelled for
this build.

### CallbackTimers

`SetTimer` and `StopTimer` are `ctimer_set` and `ctimer_stop` with what they call in `etimer.c`; `EtimerPoll` is the body of `etimer_process` for a poll,
`DeliverEvent` the delivery of a timer event to `ctimer_process`, `PostOther` the events of other processes, `Tick` the clock. Times are relative
(`left`), so that nothing grows; differences are taken modulo `ClockRange`, which keeps the unsigned subtraction of
`update_time`: a timer that is late already looks farther away than any other. `MaxLate` is how late the main loop may be.

## 3. Runs

| Run | Configuration | Result |
|---|---|---|
| `node_tables` | discovery: three peers, room for two, 7 Hellos; HLMAC table: ids 0 to 2, addresses up to three ids, two addresses, two rounds | passes: `TypeOK`, `CountMatchesList`, `ExpiryLagBounded`, `IdsDistinctUntilExpiry`, `OnlySilentRemoved`; `CountIsLength`, `AddIsFunctional`, `CmpIsValueOrder`, `LoopIffDescendant` |
| `neighbours_stale` | three peers, room for all | `NoStaleNeighbourLeft` is violated (finding 1) |
| `assignment` | diamond with a cross link (root, two nodes that hear each other, one node behind both), two rounds, all losses and delays, freed buffers arbitrary, frames of three sizes | passes: `AssignmentTypeOK`, `TimerMatchesQueue`, `TreeOrder`, `NoParentCycle`, `AddressesDistinct`, `CountsUnheard`, `SeveralEntriesFit` |
| `assignment_loop` | the same with two addresses per node, buffers intact | `NoLoopAccepted` is violated (finding 2) |
| `assignment_payload` | a chain of 98 nodes with the sizes of the default configuration, one round | `PayloadBelowMaximum` is violated (finding 6) |
| `den2ne_timely` | the diamond, loads 40 and 150, two rounds, no loss, timely, fair timers and deliveries | passes: `ExchangeComplete`, `SurplusAtRoot`, `FirstFlowsMatch`, `DetectsConvergence` (refinement of `ConvergenceDetection`) and `Converges` (liveness) |
| `den2ne_lossy` | a chain of three, two rounds, any loss, repetition and delay, freed buffers arbitrary | passes: `TypeOK`, `LoadConserved` |
| `den2ne_premature` | a triangle, one round, losses | `ExchangeComplete` is violated (finding 3) |
| `den2ne_flows` | the chain, two rounds, no loss, timely | `FlowsMatch` is violated (finding 4) |
| `link` | three packets to a receiver, another neighbour and all; two queues, pools of two; lost frames and acknowledgements; a filter that may forget | passes: `TypeOK`, `PoolsMatchQueues`, `AckedIsDelivered`, `RepeatedAfterAnother`, `ImplementsPacketService` (refinement, with liveness), `ImplementsUnicastChannel` (refinement) |
| `unicast_resend` | two payloads of the unicast build | `OnlyRefusedQueuedAgain` is violated (finding 5) |
| `callback_timers` | two timers set four times with delays 0, 1 or 3 and stopped at any moment, an event queue of two that two foreign events share | passes: `TypeOK`, `ListSound`, `NoTimerLost`, `DueIsPolled`, `NeverEarly`, `EveryTimerCalled` (liveness) |

What some of them say about code that is easy to doubt:

* `SeveralEntriesFit`: the loop that adds entries to a SetHLMAC counts everything that is written, the test for the first entry forgets the
  timestamp (finding 6). If the first entry runs past the buffer there is no room for a second one, so payloads with several entries always fit.
* `AckedIsDelivered`: an acknowledged unicast was passed on, with one exception that the property spells out: sequence numbers that come round
  after 255 packets.
* `RepeatedAfterAnother`: the same frame may be passed on twice, but not twice in a row. `LoadConserved` with `RepeatMessage` shows what this
  does to the loads: what is counted twice is in the ledger, and no count runs below zero.
* `NeverEarly`: a callback timer that is set again while its expiry waits in the event queue is called for the old expiry, before its new
  delay is over. `statistic_timer` is set by each accepted SetHLMAC and may meet this.
* `DueIsPolled`: a late timer makes `update_time` compute a next expiration that is not the earliest; it does no harm because each
  change of the list while timers are late happens with a poll requested.

`node_tables` checks the two tables of a node together. No handler of discovery touches the HLMAC table and no operation of that table touches the
neighbours, so whatever one of them does is the same whatever the other does meanwhile; it is enough that in each behaviour only one of them leaves its
initial state (`NodeNext`), and the states of the two add up instead of multiplying.

**Bounds.** `HelloLimit` stands for 500 and `TableLimit` for 256; three peers with `MaxHelloDiff = 2` (the code's value) let two of
them be stale at once, one expire, its place be taken by the third, and the table be full meanwhile. Two rounds (`MaxRound = 1`)
are what the properties about old and new rounds need: messages are compared by `<`, `=` and `>` of timestamps only, and round 0 is the
one the code treats apart, so rounds 0 and 1 show both cases of `NewRound`. The diamond has
a node with two possible parents, two siblings that offer addresses to each other, and depth two. The three-node
chain has an inner node that must pass on what it gets. One load below 100 and one above
distinguish surplus and deficit. `assignment_payload` needs its length: with 110 bytes, what a frame of 125 leaves
after the 15 bytes of a broadcast header, the test at line 1274 passes too early only for addresses of 97 to 100 ids, and an address has as many ids as its node has
hops to the root, plus one. `MacPayloads` of 104 bytes is `CSMA_MAC_LEN` less the largest header (`CSMA_MAC_MAX_HEADER`), and link addresses have 8 bytes:
with it the other networks fit in one frame; 12 and 24 bytes hold no or one neighbour and two. `MaxUnicast = 2` lets a message be
repeated once behind itself.
In `link`, three destinations share two queues, and three packets share two blocks of each of the other pools, so that every
allocation that a small pool can refuse is refused; `MaxTransmissions = 2` and `MaxBackoff = 1` give each kind of failure one retry; `SeqnoRange = 3` makes
numbers come round (0 is skipped) within three packets. In `callback_timers`, two timers are enough for an order on the
list, and an event queue of two is filled by foreign events; `ClockRange = 16` is larger than any delay, as in the code.

**Deadlock.** The checks of assignment, load exchange, link and unicast sender say `CHECK_DEADLOCK FALSE`: after the last round `MaxRound` or packet
`MaxPackets` allows, all messages are gone and nothing is left to do. The others check for deadlock.

**Fairness.** `Converges` assumes weak fairness of the timers of each node and of the reception of messages on their way. It does not assume that
the root starts another round. With `Lossy = FALSE` and `Timely = TRUE` this is what the
code achieves under the conditions above; with one lost frame it does not converge or converges too early (finding 3).
`LinkLayer` assumes weak fairness of each transmit timer, and of nothing else: a channel that is always busy or never acknowledges still lets
every packet be answered, because retries are bounded. That armed timers fire is `EveryTimerCalled` of `CallbackTimers`, which in turn assumes that the clock
runs and that the main loop (`process_run`) goes on polling and taking events: it is an endless loop over handlers that all return.

## 4. Findings

1. `iotorii_check_neighbours_hello` stops after the first neighbour it removes, because `list_remove`
   clears the pointer the loop goes on with. Its comment promises to remove all stale ones. How late that makes
   an expiry is `ExpiryLagBounded`: one more Hello for each other peer at most.
2. With two addresses per node the root accepts addresses that descend from its own: the root
   never sets its `last_timestamp`, so from the second round on the first half of the condition
   at line 1800 is true and the loop test is not evaluated.
3. The root declares convergence whenever its two counts are zero: also when the nodes it would have
   to wait for never got a SetHLMAC.
4. `in_out` is written only if it is zero (line 1760) and never reset: from the second round on the
   two ends of a link hold different flows.
5. In the unicast build the send timer takes a packet that was accepted behind another one for a refused one, and sends its payload again
   (line 1170).
6. The comment at line 1273 says that a SetHLMAC is queued if its payload is smaller than the largest one. The test below it forgets the four bytes of the
   timestamp, and the buffer is allocated with the largest size: a payload with a single entry may be written up to four bytes past it. With the default sizes
   it takes an address of 97 to 100 ids after a broadcast header (`assignment_payload`), 91 to 94 after the largest one.

## 5. Proofs

All theorems hold for every network (`AssignmentAssumption`: finite set of nodes, any neighbour relation without
self-loops, symmetric or not unless said otherwise, any ids, any frame size), every number of rounds and either value of `FreedIntact`; for
discovery, for any finite set of peers and any limits with `TableLimit <= IdRange` (`NeighboursAssumption`); for the link, for any finite set of
destinations and any sizes of pools, queues, retries and sequence numbers (`CsmaAssumption`, `LinkAssumption`); for callback timers, for any finite set
of timers, any size of the event queue, any delays and lateness that together stay below the range of the clock (`CallbackTimersAssumption`). Each safety invariant that a passing run checks is stated by one of them.

*Recursion.* The proof system has no usable induction rule, so `RecursionProofs` looks at a smallest counterexample instead (`SmallestExists`, from the
well-foundedness of the naturals). It shows that a function defined by recursion along `0 .. n` exists (`RecursionAlongNat`), that the sum over a set does not
depend on the order in which the fold takes its members (`SumByElement`), how a sum changes with one member (`SumUpdated`), and what a
sublist holds (`SublistMembers`, `SublistOfAppend`).

*Neighbours.* `IInv` conjoins `TypeOK`, the count, the lag bound and the fact that
no entry is dated in the future and the timer stops at the limit (`TimerAndAges`). The lag bound is inductive because of the position: entry `i` may lag
`MaxHelloDiff + |Peers| - i`, and when an entry in front of it expires it moves one place forward and gains one Hello.
That a table of distinct addresses fits in `Peers` (`TableFitsPeers`) gives the last entry its slack.
From it: `TypeCorrect`, `CountCorrect`, `LagBounded`. `IdsDistinct` needs that until an expiry an id is the place of its entry (`IdsArePlaces`), and
`OnlySilentAreRemoved` that an entry carries the date of the last Hello of its peer, unless that one met a full table (`HeardIsRecorded`).

*HLMAC table.* `TableInv` is the type of the list and `CountIsLength`. `LoopTestIsCorrect` is about operators only: what `hlmac_cmp` answers is
determined by the first place where two addresses differ (`SmallestExists` picks it by well-founded induction on the naturals), an
address extended to the other's length is equal to it only if it is its prefix, as long as no id is 0. `CmpIsCorrect` compares with values in base
256: up to the first difference the values of the prefixes are equal, there they differ by at least one, and what follows cannot make up for that.

*Assignment: shape.* `ShapeInv` is `AssignmentTypeOK` and `TimerMatchesQueue`; the handler that pops the list needs the second to stay
in the first. From it: `AssignmentTypeCorrect`, `TimerCorrect`. `OverrunIsBounded` adds what each queued payload may take: its
buffer, or, with a single entry, four bytes more (`OverrunBounded`); it rests on the arithmetic of `EntriesThatFit` (`GrantedFit`). `SeveralEntriesFitHolds`
follows from it, and together they say all there is about finding 6.

*Assignment: distinct addresses.* `AddressesDistinct` is not inductive: it must be known where an accepted address comes from.
`AddressInv` says that every record of `assigned` is *derived*, that is, it is the root's address or extends a record of the same
round by the id its parent gave to that node, and that all queued and flying SetHLMACs extend a record. Two records with
equal addresses then have parents with equal addresses: an induction on the length, written as a minimal counterexample
(`SameAddressSameNode`), ends at the root. From it: `AddressesAreDistinct`. It assumes `DistinctIds`, which discovery only
guarantees until an entry expires (`IdsDistinctUntilExpiry`).

*Assignment: tree.* `TreeInv` adds to `TreeOrder` that the root's entry is of the current round, that `last_timestamp` is the head entry's round
at all the other nodes, and that every queued payload and every offer is *covered*: its sender holds a later entry, or the very address in it. Heads
only advance (`HeadsAdvance`), so cover is kept by steps of others. From it: `TreeOrderHolds`. `NoParentCycleHolds` follows without a
further invariant: in any set of nodes take those of the latest round and among them one with the shortest address; its parent is in a later round or
has a shorter address, hence is not in the set.

*Assignment: the count.* A SetHLMAC decrements `number_of_neighbours_flag` without a look at the flag of its sender, so `CountsUnheard` rests on there being
only one from each neighbour in a round. `OnceInv` shows it: a node queues a payload when its head moves to a later round, so rounds
grow along the queue (`QueueGrows`), whatever is in the air is older than what is queued (`OffersBeforeQueue`), and there is one offer of a sender
to a receiver in a round (`OfferedOnce`). `HeardInv` then relates flag, count and what is still to come from each neighbour (`NodeHeard`). From it:
`CountsUnheardHolds`, for tables that know each other (`MutualNeighbours`) and one address per node.

*Load exchange.* `ImplementsAssignment` shows that each of its steps is one of `Assignment` or leaves it alone, so all the theorems above hold while loads
are exchanged; `ExchangeHasNoParentCycle` is the one the LOADs and SHAREs rely on. `ExchangeShape` is the type invariant split by who changes it;
its core is `CountShape`: a count of children is decremented only by a message of one and only when it is positive. From it:
`Den2neTypeCorrect`, the unsigned counts never run below zero. `LoadIsConserved` rests on `Balance`: loads held plus loads travelling equal the ledger. Each handler changes one load
and the queues of one node, so lemmas about sums with one changed member carry it. Not every step of a node would keep it: it
needs that a node which shares has exactly one parent (`OneParent`), hence that whoever awaits messages has joined a round (`JoinedInv`). With two parents the surplus
is sent twice, with none it vanishes; that is why the property is stated for one address and mutual tables. It holds with any loss, repetition and
overlap of rounds.

*Load exchange: convergence* (`ConvergenceProofs`). The code promises completeness of the exchange under conditions only, which `Ideal` names: the intended timing (`Timely`), no
losses, one address per node, tables that know each other, a connected network, and SetHLMACs with room for all neighbours (`EveryNeighbourFits`). The theorems read
`Spec => [](Ideal => ...)`; finding 3 is what happens without. That such networks exist is not left to belief: `MCDen2ne` assumes, and TLC evaluates
in `den2ne_timely` and `den2ne_flows`, that their networks are ideal. The inductive invariant has two parts and one more for the flows.

* `RoundInv`: a round spreads. All that is queued or in the air belongs to the round of the root; whoever has sent its SetHLMAC has reached all its neighbours but its
  parent, or has an offer on the way (`Reached`); a parent has not heard from its child in this round (`ChildrenUnheard`), so its count includes it; addresses are
  as long as their path (`ShortAddresses`), so they always leave room for the neighbours.
* `ExchangeInv`: once the statistic timer of a node has fired, all its neighbours have their address and nothing is on its way from or to it (`Settled`), its parents have fired
  before (`ParentsFirst`), a queue holds one message of each kind, and the two counts are the *cardinalities* of sets of children (`CountInv`): those that have not
  sent, or whose message is still queued. A counter that is decremented by whatever arrives is thereby tied to who sent it. `LeftWith100` says what a node keeps after its SHARE.
* `FlowsInv`: in the first round a parent and its child have recorded opposite flows, or the SHARE that carries the difference is still queued (`PairFlow`).

`ExchangeIsComplete`: when the root's counts are zero, each child of a node that is done is done (`ChildIsDone`: nobody is awaited). Suppose some node of the round
is not done; then neither is its parent, nor the parent of that; but the set of such nodes would have to contain a circle (`NoParentCycle`), so all
are done (`AllAreDone`). A node that is done has neighbours in the round only, and the network is connected. `SurplusReachesRoot` adds `LeftWith100` and
`Balance`: nothing travels any more, so the root holds the difference. `FirstFlowsAgree` reads `FlowsInv` with empty queues.

*Link.* `CsmaInv` conjoins the types, `PoolsMatchQueues`, and that queues hold packets of their destination which nobody has answered. From it:
`PoolsCorrect`. `ImplementsServiceSafely` maps each step to one of `PacketService` or a stutter. `LinkInv` adds what the
receiver's number means: while it is not 0, the last packet delivered has it (`LastHeard`, `HeardWasDelivered`); `NoRepeatInARow` follows, for a duplicate would have the
remembered number. `AcknowledgedIsDelivered` adds that sequence numbers are the packet's number modulo `SeqnoRange - 1`, shifted (`SeqnosRotate`).
`ImplementsChannel` maps the queue for the receiver to the channel and, of what was delivered, the sublist of unicasts to what was taken from it;
a delivery appends one packet to that sublist or none (`SublistOfAppend`).

*Callback timers.* `TimersInv` conjoins the types, the two lists without repetition, `NoTimerLost`, `DueIsPolled`, and two facts that no run needed by name: `next_expiration` is not later
than any timer that is still to come (`WakesInTime`), and an event in the queue belongs to a timer whose time is over unless it was set again
(`EventsInTime`). `DueIsPolled` alone is not inductive: as long as nothing is due, `WakesInTime` says that the tick which makes something due also reaches
`next_expiration`, and when something is due a poll is already requested, so the wrong minimum `update_time` computes from unsigned distances comes to nothing. From it: `TimersTypeCorrect`,
`ListIsSound`, `NoTimerIsLost`, `DueTimersArePolled`, and `NoCallIsEarly`.

What the proofs add to the runs: nothing depends on the bounds, and the freed buffers are shown to be harmless for one address per node, since
every content gives a tree.

**Only model-checked:** everything that is liveness (`Converges`, `EveryTimerCalled`, the fairness half of `ImplementsPacketService`), which is out of the
prover's reach, and `DetectsConvergence`, the refinement of `ConvergenceDetection`. `ExchangeIsComplete` and `SurplusReachesRoot` are its safety core: `Detect` happens in a
complete state only. What is missing is the converse, that the root does not begin another round while an exchange that has finished is undetected. It needs
conditions beyond `Ideal`: freed buffers intact (otherwise a sibling's SetHLMAC may be disregarded as a loop; its flag stays
0 and it is awaited for ever), distinct positive ids, and at least one common node (a lone root never receives anything and never converges).

## 6. Assumptions of the models

* Neighbour tables do not change during a round, except in `Neighbours` itself.
* A payload always fits for the addresses of the network in `Den2ne` (`Den2neAssumption`): otherwise the node would have no
  `node_list` entry and its statistic timer would do nothing.
* The bytes behind a LOAD or SHARE, which `iotorii_extract_address` reads as a prefix length, do not matter: the loop over the
  listed neighbours ends at once because the frame is shorter than its header.
* Addresses stay shorter than 255 ids, timestamps below 2^32.
* `LoadConserved` is stated for one address per node and symmetric tables: a node without a parent, or with two, sends its surplus nowhere, or twice. Both conditions
  are part of the property.
* What holds at convergence is stated for ideal conditions (`Ideal`, section 5), of which `Timely` is the one the code aims at but does not ensure.
* An acknowledgement carries no address: one that answers another sender's frame with the same number could be taken for the awaited one. `LinkLayer`
  excludes this; it observes one receiver and one sender.
* The clock wraps only as an unsigned difference: delays are far below half its range.
* The clock of `CallbackTimers` is that of the simulated nodes (Cooja), the platform the simulations of the repository use.

## 7. Not modelled

Of the lines under `src/` nearly all are a copy of Contiki-NG: drivers, network stacks, file systems, examples, most of which the nodes
do not even link. The program itself is about 4000 lines in `den2ne-def`, with copies of it in the other `den2ne-*` directories. The models cover it
and those parts of Contiki-NG that decide what it does (lists, timers, events, the duplicate filter); a larger share of the lines would say nothing more about this system.

* **IPv6 build and the other `den2ne-*` directories**: the same handlers on another transport or board.
* **Receiving half of the unicast build**: the branches are those of the broadcast build.
* **Changes of the neighbour table within a round**: a neighbour added between the count (line 1517) and the
  next SetHLMAC is listed as a hazard without a property.
* **`hlmactable_chop`**: no callers, and `get_addr_index_value` only printing ones. **`ctimer_reset`, `ctimer_restart`**: none in this program.
* **Link-layer security, flash log, printing, applications, demo programs**: unchanged from Contiki-NG and disabled, or pure output.
* **Start of a node and of its processes**: the models begin when `init` has returned.

## 8. Plan

Done: discovery, table, assignment, load exchange, CSMA output, link, sending half of the unicast build, callback timers, and the proofs of
section 5.

1. `DetectsConvergence` for every network, under the conditions named in section 5: after a node has sent, each of its neighbours that is neither its parent nor its
   child has heard of it, or is about to; a node that awaits nobody has sent; the root that awaits nobody has converged.
2. `Neighbours` and `Assignment` joined: tables that change while a round is under way.
3. `Assignment` with two addresses per node and no loss: which of the properties about trees survive.
4. The receiving half of the unicast build.
