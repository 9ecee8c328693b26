---------------------------- MODULE MCThreadDivider ----------------------------
(* Instances of ThreadDivider: the events that each question needs. *)
EXTENDS ThreadDivider

Event(kind)           == [kind |-> kind]
From(kind, peer)      == [kind |-> kind, peer |-> peer]
Begin(rooted)         == [kind |-> "begin", rooted |-> rooted]
Message(peer, direct, hook) ==
  [kind |-> "msg", peer |-> peer, direct |-> direct, hook |-> hook]
Voucher(banks)        == [kind |-> "voucher", banks |-> banks]

\* Blocks, waits, timers and MIG services; a timer created by another process.
BlockInputs ==
  {Event("general"), Begin(TRUE), Begin(FALSE), Event("wait"), Event("mig"),
   Event("fake"), From("callout", "a")}

\* Ties to the processes a and b, by messages, vouchers and other events.
PeerInputs ==
  {From("general", "a"), From("general", "b"), From("cancel", "b"), Begin(FALSE),
   From("fake", "b"), Event("wait"), Voucher({"b"}),
   Message("a", FALSE, TRUE), Message("b", FALSE, FALSE), Message(NoPeer, TRUE, TRUE)}

\* A run loop: rounds, items, application events, dispatched blocks.
LoopInputs ==
  {Event("general"), Event("events_begin"), Event("events_end"), Event("item_begin"),
   Event("item_end"), Event("nsapp"), Begin(TRUE), Begin(FALSE)}

\* Enough for a wait in a broken block, and for a block that ends in another group.
StackInputs == {Begin(TRUE), Begin(FALSE), Event("wait")}
LoopWaitInputs == StackInputs \cup {Event("item_begin"), Event("item_end")}

Thread(runLoop, lossy, inputs, blockEnds, max) ==
  [runLoop |-> runLoop, lossy |-> lossy, inputs |-> inputs, blockEnds |-> blockEnds, max |-> max]

MCThreads ==
  { Thread(FALSE, FALSE, BlockInputs, TRUE, 5), Thread(FALSE, FALSE, PeerInputs, FALSE, 5),
    Thread(TRUE, TRUE, LoopInputs, TRUE, 5), Thread(FALSE, TRUE, StackInputs, TRUE, 6),
    Thread(TRUE, FALSE, LoopWaitInputs, TRUE, 6) }
=============================================================================
