------------------------------ MODULE LiveLoop -------------------------------
(* The helper's sample path with an RTL-SDR: the device fills USB transfers,  *)
(* the callback thread tags what it is handed with the current generation and *)
(* coalesces it into the blocks of a ring, and the DSP thread's LiveLoop      *)
(* meets the commands with the blocks.  A unit stands for a run of samples    *)
(* and is named by the tune it was captured under.                            *)
EXTENDS Integers, Sequences, FiniteSets, Functions

CONSTANTS
  Transfer,        \* units in one USB transfer            (RTL_BUF_LEN)
  Block,           \* units in a full block                (block_bytes_)
  RingBlocks,      \* blocks the ring holds                (IQ_RING_BLOCKS)
  Settle,          \* units discarded after a retune       (settle_samples_)
  Pll,             \* units the device takes to settle on a new center
  Backlog,         \* transfers complete and not yet handed to the callback
  CmdQueue,        \* commands the queue holds             (CMD_QUEUE)
  MaxTunes,        \* bound: tunes sent
  MaxKnown,        \* bound: lists sent by themselves
  MaxDropped       \* bound: units dropped between two looks of the DSP thread

ASSUME SizesOK ==
  /\ {Transfer, Block, RingBlocks, Backlog, CmdQueue} \subseteq Nat \ {0}
  /\ {Settle, Pll, MaxTunes, MaxKnown, MaxDropped} \subseteq Nat

\* What is captured before the device has settled: the transfers waiting for the
\* callback, the one being filled and the device's own time fit in the settle.
ASSUME SettleCovers == Backlog * Transfer + (Transfer - 1) + Pll <= Settle

VARIABLES
  cmds,     \* cmds_: commands from the stdin reader
  sent,     \* tunes and lists sent so far
  device,   \* the center the device is on, and the units until it settles
  alive,    \* the device still delivers
  filling,  \* the transfer being filled
  usb,      \* transfers complete, the oldest first
  gen,      \* gen_
  acc,      \* acc_ and acc_n_: the block being coalesced
  ring,     \* ring_
  dropped,  \* dropped_
  pc,       \* where the DSP thread is in LiveLoop::step
  pending, wantGen, settleLeft,  \* LiveLoop's own
  engine,   \* the engine's window and its list of known frequencies
  latest,   \* history: the last list given by any command
  heard,    \* history: where the units last demodulated were captured
  due       \* units handed to the callback that the engine's clock has not counted

device_ == <<device, alive, filling>>
source_ == <<usb, gen, acc, ring, dropped>>
loop_   == <<pc, pending, wantGen, settleLeft, engine, latest, heard>>
vars    == <<cmds, sent, device, alive, filling, usb, gen, acc, ring, dropped,
             pc, pending, wantGen, settleLeft, engine, latest, heard, due>>

-----------------------------------------------------------------------------
Moving  == -1                  \* the name of a unit captured while the device settles
NoList  == 0                   \* the engine's list before any command
Stamp   == sent.tunes + sent.known + 1   \* a list is named by the command that gives it
NoTune  == [id |-> 0, known |-> NoList]
Waiting == pending # NoTune
TuneCmd(n, k) == [cmd |-> "tune", id |-> n, known |-> k]
KnownCmd(k)   == [cmd |-> "known", id |-> 0, known |-> k]

\* A block's units in order, cut from the coalescing buffer.
FullBlocks(units) == [i \in 1..(Len(units) \div Block) |-> SubSeq(units, (i - 1) * Block + 1, i * Block)]
Rest(units) == SubSeq(units, (Len(units) \div Block) * Block + 1, Len(units))

\* publish_acc(): each block goes into the ring or, when it is full, only into the count.
AllFit(blocks)  == blocks
Fitting(blocks) == SubSeq(blocks, 1, IF Len(blocks) <= RingBlocks - Len(ring)
                                     THEN Len(blocks) ELSE RingBlocks - Len(ring))
UnitsIn(blocks) ==
  LET upTo[n \in 0 .. Len(blocks)] == IF n = 0 THEN 0 ELSE upTo[n - 1] + Len(blocks[n].units)
  IN  upTo[Len(blocks)]

Init ==
  /\ cmds = <<>> /\ sent = [tunes |-> 0, known |-> 0]
  /\ device = [center |-> 0, moving |-> 0] /\ alive = TRUE
  /\ filling = <<>> /\ usb = <<>>
  /\ gen = 0 /\ acc = [gen |-> 0, units |-> <<>>] /\ ring = <<>> /\ dropped = 0
  /\ pc = "drain" /\ pending = NoTune /\ wantGen = 0 /\ settleLeft = 0
  /\ engine = [window |-> 0, known |-> NoList]
  /\ latest = NoList /\ heard = {} /\ due = 0

-----------------------------------------------------------------------------
\* The stdin reader queues a command; one that finds the queue full is dropped and changes nothing.
SendTune ==
  /\ Len(cmds) < CmdQueue /\ sent.tunes < MaxTunes
  /\ sent' = [sent EXCEPT !.tunes = @ + 1]
  /\ cmds' = Append(cmds, TuneCmd(sent.tunes + 1, Stamp))
  /\ UNCHANGED <<device_, source_, loop_, due>>

SendKnown ==
  /\ Len(cmds) < CmdQueue /\ sent.known < MaxKnown
  /\ sent' = [sent EXCEPT !.known = @ + 1]
  /\ cmds' = Append(cmds, KnownCmd(Stamp))
  /\ UNCHANGED <<device_, source_, loop_, due>>

-----------------------------------------------------------------------------
\* The device captures one unit; a transfer that is full waits for the callback.
Capture ==
  /\ alive
  /\ LET unit == IF device.moving > 0 THEN Moving ELSE device.center
         got  == Append(filling, unit)
     IN IF Len(got) < Transfer THEN filling' = got /\ usb' = usb
        ELSE Len(usb) < Backlog /\ filling' = <<>> /\ usb' = Append(usb, got)
  /\ device' = [device EXCEPT !.moving = IF @ > 0 THEN @ - 1 ELSE 0]
  /\ UNCHANGED <<cmds, sent, alive, gen, acc, ring, dropped, loop_, due>>

\* The radio is unplugged.
DeviceLost ==
  /\ alive
  /\ alive' = FALSE
  /\ UNCHANGED <<cmds, sent, device, filling, source_, loop_, due>>

\* on_samples(): the units belong to the generation current now; a partial block of an older
\* one is published first.  Publishing the blocks of one call is one step here: nothing is
\* freed in the ring between them.
OnSamples ==
  /\ usb # <<>> /\ dropped <= MaxDropped
  /\ LET stale  == acc.units # <<>> /\ acc.gen # gen
         early  == IF stale THEN <<acc>> ELSE <<>>
         units  == (IF stale THEN <<>> ELSE acc.units) \o Head(usb)
         full   == FullBlocks(units)
         blocks == early \o [i \in DOMAIN full |-> [gen |-> gen, units |-> full[i]]]
     IN /\ ring' = ring \o Fitting(blocks)
        /\ dropped' = dropped + UnitsIn(blocks) - UnitsIn(Fitting(blocks))
        /\ acc' = [gen |-> gen, units |-> Rest(units)]
  /\ usb' = Tail(usb)
  /\ due' = due + Transfer
  /\ UNCHANGED <<cmds, sent, device_, gen, loop_>>

-----------------------------------------------------------------------------
Draining(what) == pc = "drain" /\ cmds # <<>> /\ Head(cmds).cmd = what

\* step(): a tune is popped and set_center moves the device ...
SetCenter ==
  /\ Draining("tune") /\ alive
  /\ device' = [center |-> Head(cmds).id, moving |-> Pll]
  /\ pc' = "bump"
  /\ UNCHANGED <<cmds, sent, alive, filling, source_, pending, wantGen, settleLeft,
                 engine, latest, heard, due>>

\* The settle a retune starts.
MarginOnly    == Settle - Transfer
SettleSamples == Settle

\* ... and only then counts the generation up; the tune waits for its samples.
Bump ==
  /\ pc = "bump"
  /\ gen' = gen + 1
  /\ wantGen' = gen + 1
  /\ pending' = [id |-> Head(cmds).id, known |-> Head(cmds).known]
  /\ settleLeft' = SettleSamples
  /\ latest' = Head(cmds).known
  /\ cmds' = Tail(cmds)
  /\ pc' = "drain"
  /\ UNCHANGED <<sent, device_, usb, acc, ring, dropped, engine, heard, due>>

\* Every try of set_center is refused: the loop fails and the helper exits.
Refused ==
  /\ Draining("tune")
  /\ pc' = "failed"
  /\ UNCHANGED <<cmds, sent, device_, source_, pending, wantGen, settleLeft, engine,
                 latest, heard, due>>

\* The tune that is waiting, given a newer list.
Unfolded(k) == pending
Folded(k)   == IF Waiting THEN [pending EXCEPT !.known = k] ELSE pending

\* A known list reaches the engine, and the tune that is waiting as well.
Known ==
  /\ Draining("known")
  /\ LET k == Head(cmds).known
     IN /\ engine' = [engine EXCEPT !.known = k]
        /\ pending' = Folded(k)
        /\ latest' = k
  /\ cmds' = Tail(cmds)
  /\ UNCHANGED <<sent, device_, source_, pc, wantGen, settleLeft, heard, due>>

\* No command is left: what the ring had no room for is noted as a gap.
Drained ==
  /\ pc = "drain" /\ cmds = <<>>
  /\ due' = due - dropped
  /\ dropped' = 0
  /\ pc' = "take"
  /\ UNCHANGED <<cmds, sent, device_, usb, gen, acc, ring, pending, wantGen, settleLeft,
                 engine, latest, heard>>

-----------------------------------------------------------------------------
\* What becomes of a block: thrown away as the old center's or as still settling, or pushed.
Skipped(b)  == Waiting /\ b.gen < wantGen
Settling(b) == Waiting /\ b.gen >= wantGen /\ settleLeft > 0
Arrives(b)  == Waiting /\ b.gen >= wantGen /\ settleLeft <= 0

\* note_gap() and push_u8() both move the engine's clock on by the block.
Unnoted(b) == due' = due
Noted(b)  == due' = due - Len(b.units)
Pushed(b) == due' = due - Len(b.units)
Heard(b)  == heard' = Range(b.units)

Discard(b) ==
  /\ Skipped(b)
  /\ Noted(b)
  /\ UNCHANGED <<pending, settleLeft, engine, heard>>

Again(b)     == Settle
LeftAfter(b) == settleLeft - Len(b.units)

SettleOn(b) ==
  /\ Settling(b)
  /\ settleLeft' = LeftAfter(b)
  /\ Noted(b)
  /\ UNCHANGED <<pending, engine, heard>>

\* The awaited window is the engine's from this block on.
Apply(b) ==
  /\ Arrives(b)
  /\ engine' = [window |-> pending.id, known |-> pending.known]
  /\ pending' = NoTune
  /\ Pushed(b) /\ Heard(b)
  /\ UNCHANGED settleLeft

\* An engine that was never tuned only counts the samples.
Push(b) ==
  /\ ~Waiting
  /\ Pushed(b)
  /\ IF engine.window # 0 THEN Heard(b) ELSE UNCHANGED heard
  /\ UNCHANGED <<pending, settleLeft, engine>>

TakeBlock ==
  /\ pc = "take" /\ ring # <<>>
  /\ LET b == Head(ring) IN Discard(b) \/ SettleOn(b) \/ Apply(b) \/ Push(b)
  /\ ring' = Tail(ring)
  /\ pc' = "drain"
  /\ UNCHANGED <<cmds, sent, device_, usb, gen, acc, dropped, wantGen, latest>>

\* Nothing in the ring: step() returns false, and the helper looks again ...
TakeNothing ==
  /\ pc = "take" /\ ring = <<>>
  /\ pc' = "drain"
  /\ UNCHANGED <<cmds, sent, device_, source_, pending, wantGen, settleLeft, engine,
                 latest, heard, due>>

\* ... or, when the device has been silent past the stall limit, exits.
Stalled ==
  /\ pc = "take" /\ ring = <<>> /\ ~alive /\ usb = <<>>
  /\ pc' = "gone"
  /\ UNCHANGED <<cmds, sent, device_, source_, pending, wantGen, settleLeft, engine,
                 latest, heard, due>>

-----------------------------------------------------------------------------
Reader == SendTune \/ SendKnown
Radio  == Capture \/ DeviceLost \/ OnSamples
Loop   == SetCenter \/ Bump \/ Refused \/ Known \/ Drained \/ TakeBlock \/ TakeNothing \/ Stalled
Next   == Reader \/ Radio \/ Loop

Spec == Init /\ [][Next]_vars

\* The threads run and a live device delivers; nobody owes another command, and a helper
\* whose device stays silent does pass the stall limit.
FairSpec ==
  /\ Spec
  /\ WF_vars(Capture) /\ WF_vars(OnSamples)
  /\ WF_vars(Loop) /\ SF_vars(Stalled)

-----------------------------------------------------------------------------
Units  == 0..MaxTunes \cup {Moving}
Blocks == [gen : 0..MaxTunes, units : Seq(Units)]
Lists  == 1..(MaxTunes + MaxKnown)
AnyList == Lists \cup {NoList}

\* The state keeps its types and the buffers their sizes.
TypeOK ==
  /\ cmds \in Seq([cmd : {"tune", "known"}, id : 0..MaxTunes, known : Lists]) /\ Len(cmds) <= CmdQueue
  /\ sent \in [tunes : 0..MaxTunes, known : 0..MaxKnown]
  /\ device \in [center : 0..MaxTunes, moving : 0..Pll] /\ alive \in BOOLEAN
  /\ filling \in Seq(Units) /\ Len(filling) < Transfer
  /\ usb \in Seq(Seq(Units)) /\ Len(usb) <= Backlog
  /\ gen \in 0..MaxTunes /\ wantGen \in 0..MaxTunes
  /\ acc \in Blocks /\ Len(acc.units) < Block
  /\ ring \in Seq(Blocks) /\ Len(ring) <= RingBlocks
  /\ dropped \in Nat /\ due \in Nat /\ settleLeft \in Int
  /\ pc \in {"drain", "bump", "take", "failed", "gone"}
  /\ pending \in [id : 0..MaxTunes, known : AnyList]
  /\ engine \in [window : 0..MaxTunes, known : AnyList]
  /\ latest \in AnyList /\ heard \subseteq Units

\* What the engine demodulated was captured, settled, under the window it runs: no sample of
\* another center passes a retune, however the commands, the transfers and the blocks fall
\* (live.cpp:43-56, rtl_source.cpp:84-100).
CleanWindow == heard \subseteq {engine.window}

\* The engine's clock loses nothing: what it has not counted yet is in the ring, in the
\* block being coalesced or in the drop count, whatever was discarded or dropped on the way
\* (live.cpp:41-51; its timers and the speaker's feed run on that clock).
ClockExact == due = UnitsIn(ring) + Len(acc.units) + dropped

\* Across a retune the engine hears nothing that is not its window's, and misses no time.
LoopSound == CleanWindow /\ ClockExact

\* The sample path is a feed of tuned windows: see TunedFeed.
Feed == INSTANCE TunedFeed WITH
  wanted <- IF Waiting THEN pending.id ELSE engine.window,
  window <- engine.window,
  known  <- engine.known
FeedHolds == Feed!Spec

\* A tune that waits for its samples is applied, or a later one in its place, unless the
\* helper exits: the discards of a retune never go on for ever (live.cpp:49-54).
WindowArrives == Waiting ~> (~Waiting \/ pc \in {"failed", "gone"})
=============================================================================
