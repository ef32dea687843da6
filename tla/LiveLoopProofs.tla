---------------------------- MODULE LiveLoopProofs ----------------------------
(***************************************************************************)
(* Proofs about the helper's sample path: whatever the sizes of transfers,   *)
(* blocks and ring, no sample of another center is demodulated, the clock    *)
(* counts every sample, and the loop implements the feed of tuned windows.   *)
(***************************************************************************)
EXTENDS LiveLoop, SequenceTheorems, WellFoundedInduction, TLAPS

\* The window asked for last.
Wanted == IF Waiting THEN pending.id ELSE engine.window

-----------------------------------------------------------------------------
(* Commands: the tunes that wait are the next ones, in order.               *)

CmdType == [cmd : {"tune", "known"}, id : 0..MaxTunes, known : Lists]

\* count[i] is the window asked for once i commands of the queue have been taken.
Counted(count, queue, first, last) ==
  /\ count[0] = first /\ count[Len(queue)] = last
  /\ \A i \in 1 .. Len(queue) :
       /\ queue[i].cmd = "tune"  => queue[i].id = count[i] /\ count[i] = count[i - 1] + 1
       /\ queue[i].cmd = "known" => count[i] = count[i - 1]

CmdsInOrder == \E count \in [0 .. Len(cmds) -> Nat] : Counted(count, cmds, Wanted, sent.tunes)

\* What is asked for is waited for, and nothing else.
TuneKnown ==
  /\ Waiting => pending.id \in 1 .. MaxTunes /\ engine.window < pending.id /\ pending.known = latest
  /\ pc = "bump" => cmds # <<>> /\ Head(cmds).cmd = "tune" /\ device.center = Head(cmds).id
  /\ pc # "bump" => device.center = Wanted
  /\ wantGen = gen

-----------------------------------------------------------------------------
(* Samples: behind what is still to be discarded all are of the window.      *)

\* Units from the left-th on are of the window asked for.
Clean(units, skip) == \A j \in 1 .. Len(units) : j > skip => units[j] = Wanted

BlockType == [gen : Nat, units : Seq(Units)]

LoopTypes ==
  /\ cmds \in Seq(CmdType)
  /\ sent \in [tunes : 0..MaxTunes, known : 0..MaxKnown]
  /\ device \in [center : 0..MaxTunes, moving : 0..Pll]
  /\ filling \in Seq(Units) /\ Len(filling) < Transfer
  /\ usb \in Seq(Seq(Units)) /\ Len(usb) <= Backlog
  /\ \A t \in 1 .. Len(usb) : Len(usb[t]) = Transfer
  /\ gen \in Nat
  /\ acc \in BlockType /\ Len(acc.units) < Block
  /\ ring \in Seq(BlockType) /\ Len(ring) <= RingBlocks
  /\ \A i \in 1 .. Len(ring) : ring[i].units # <<>>
  /\ settleLeft \in Int /\ latest \in AnyList
  /\ pending \in [id : 0..MaxTunes, known : AnyList]
  /\ engine \in [window : 0..MaxTunes, known : AnyList]

\* Generations come in order; with no tune awaited there is one only.
GensInOrder ==
  /\ \A i \in 1 .. Len(ring) : ring[i].gen <= acc.gen
  /\ \A i, j \in 1 .. Len(ring) : i <= j => ring[i].gen <= ring[j].gen
  /\ acc.gen <= gen
  /\ ~Waiting => acc.gen = gen /\ \A i \in 1 .. Len(ring) : ring[i].gen = gen

\* skip[i] is how many units are still to be discarded when the i-th block is taken, and the last
\* of them when the coalescing buffer is.
Skips(skip) ==
  /\ skip[1] <= IF Waiting THEN settleLeft ELSE 0
  /\ \A i \in 1 .. Len(ring) :
       IF ring[i].gen = gen
       THEN Clean(ring[i].units, skip[i]) /\ skip[i + 1] <= skip[i] - Len(ring[i].units)
       ELSE skip[i + 1] <= skip[i]

\* The rest of the way: buffer, transfers, the one being filled, the device.
Uncoalesced(skip) == IF acc.gen = gen THEN skip - Len(acc.units) ELSE skip
Ahead(left) ==
  /\ \A t \in 1 .. Len(usb) : Clean(usb[t], left - (t - 1) * Transfer)
  /\ Clean(filling, left - Len(usb) * Transfer)
  /\ device.moving = 0 \/ Len(usb) * Transfer + Len(filling) + device.moving <= left
CleanAhead(skip) == (acc.gen = gen => Clean(acc.units, skip)) /\ Ahead(Uncoalesced(skip))

CleanBehind == \E skip \in [1 .. Len(ring) + 1 -> Int] : Skips(skip) /\ CleanAhead(skip[Len(ring) + 1])

LoopInv ==
  /\ LoopTypes /\ CmdsInOrder /\ TuneKnown /\ GensInOrder
  /\ pc # "bump" => CleanBehind
  /\ CleanWindow

\* The sizes are numbers, and the settle covers what was captured before.
LEMMA Sizes ==
  /\ Transfer \in Nat \ {0} /\ Block \in Nat \ {0} /\ RingBlocks \in Nat \ {0} /\ Backlog \in Nat \ {0}
  /\ Settle \in Nat /\ Pll \in Nat /\ MaxTunes \in Nat /\ MaxKnown \in Nat
  /\ Backlog * Transfer + (Transfer - 1) + Pll <= Settle
BY SizesOK, SettleCovers DEF SizesOK, SettleCovers

\* Multiples of a size, one more and in order.
LEMMA Times ==
  ASSUME NEW n \in Nat, NEW m \in Nat, NEW size \in Nat
  PROVE  /\ n * size \in Nat /\ (n + 1) * size = n * size + size
         /\ m <= n => m * size <= n * size
<1>1. n * size \in Nat /\ (n + 1) * size = n * size + size
  BY SMT
<1>2. ASSUME m <= n PROVE m * size <= n * size
  <2>1. PICK d \in Nat : n = m + d
    BY <1>2
  <2>2. n * size = m * size + d * size /\ d * size >= 0 /\ m * size \in Nat
    BY <2>1, SMT
  <2> QED BY <2>2
<1> QED BY <1>1, <1>2

-----------------------------------------------------------------------------
\* Nothing was asked for and nothing was captured.
LEMMA InitLoop == Init => LoopInv
<1> SUFFICES ASSUME Init PROVE LoopInv
  OBVIOUS
<1> USE Sizes DEF Init, NoTune, NoList
<1>1. ~Waiting /\ Wanted = 0
  BY DEF Waiting, Wanted
<1>2. LoopTypes
  BY DEF LoopTypes, BlockType, AnyList
<1>3. CmdsInOrder
  <2> DEFINE c == [i \in 0 .. Len(cmds) |-> 0]
  <2>1. c \in [0 .. Len(cmds) -> Nat] /\ Counted(c, cmds, Wanted, sent.tunes)
    BY <1>1 DEF Counted
  <2> QED BY <2>1 DEF CmdsInOrder
<1>4. TuneKnown /\ GensInOrder /\ CleanWindow
  BY <1>1 DEF TuneKnown, GensInOrder, CleanWindow
<1>5. CleanBehind
  <2> DEFINE s == [i \in 1 .. Len(ring) + 1 |-> 0]
  <2>1. Len(ring) = 0 /\ Len(usb) = 0 /\ Len(acc.units) = 0 /\ Len(filling) = 0
    OBVIOUS
  <2>2. Skips(s)
    BY <1>1, <2>1 DEF Skips
  <2>3. CleanAhead(s[Len(ring) + 1])
    BY <2>1 DEF CleanAhead, Ahead, Uncoalesced, Clean
  <2> QED BY <2>2, <2>3 DEF CleanBehind
<1> QED BY <1>2, <1>3, <1>4, <1>5 DEF LoopInv

-----------------------------------------------------------------------------
(* Commands.                                                                *)

\* A command at the end of the queue counts on from the last.
LEMMA Queued ==
  ASSUME LoopTypes, CmdsInOrder, NEW c \in CmdType, cmds' = Append(cmds, c), Wanted' = Wanted,
         sent'.tunes = IF c.cmd = "tune" THEN sent.tunes + 1 ELSE sent.tunes,
         c.cmd = "tune" => c.id = sent.tunes + 1
  PROVE  CmdsInOrder'
<1> DEFINE n == Len(cmds)
<1>1. cmds \in Seq(CmdType) /\ n \in Nat /\ sent.tunes \in Nat
  BY Sizes DEF LoopTypes
<1>2. PICK count \in [0 .. n -> Nat] : Counted(count, cmds, Wanted, sent.tunes)
  BY DEF CmdsInOrder
<1> DEFINE more == [i \in 0 .. n + 1 |-> IF i <= n THEN count[i] ELSE sent'.tunes]
<1>3. /\ Len(cmds') = n + 1 /\ cmds'[n + 1] = c
      /\ \A i \in 1 .. n : cmds'[i] = cmds[i]
  BY <1>1
<1>4. more \in [0 .. Len(cmds') -> Nat]
  BY <1>1, <1>2, <1>3
<1>5. more[0] = count[0] /\ more[n + 1] = sent'.tunes /\ more[n] = sent.tunes
  BY <1>1, <1>2 DEF Counted
<1>6. Counted(more, cmds', Wanted', sent'.tunes)
  <2>1. more[0] = Wanted' /\ more[Len(cmds')] = sent'.tunes
    BY <1>2, <1>3, <1>5 DEF Counted
  <2>2. ASSUME NEW i \in 1 .. n
        PROVE  /\ cmds'[i].cmd = "tune"  => cmds'[i].id = more[i] /\ more[i] = more[i - 1] + 1
               /\ cmds'[i].cmd = "known" => more[i] = more[i - 1]
    BY <1>1, <1>2, <1>3 DEF Counted
  <2>3. /\ c.cmd = "tune"  => c.id = more[n + 1] /\ more[n + 1] = more[n] + 1
        /\ c.cmd = "known" => more[n + 1] = more[n]
    BY <1>5
  <2>4. ASSUME NEW i \in 1 .. Len(cmds')
        PROVE  /\ cmds'[i].cmd = "tune"  => cmds'[i].id = more[i] /\ more[i] = more[i - 1] + 1
               /\ cmds'[i].cmd = "known" => more[i] = more[i - 1]
    <3>1. CASE i = n + 1
      BY <1>1, <1>3, <2>3, <3>1
    <3>2. CASE i # n + 1
      <4>1. i \in 1 .. n
        BY <1>1, <1>3, <3>2
      <4> QED BY <2>2, <4>1
    <3> QED BY <3>1, <3>2
  <2> HIDE DEF more
  <2> QED BY <2>1, <2>4 DEF Counted
<1> QED BY <1>4, <1>6 DEF CmdsInOrder

\* A command taken leaves the others in order.
LEMMA Taken ==
  ASSUME LoopTypes, CmdsInOrder, cmds # <<>>, cmds' = Tail(cmds), sent' = sent,
         Head(cmds).cmd = "tune"  => Wanted' = Head(cmds).id,
         Head(cmds).cmd = "known" => Wanted' = Wanted
  PROVE  CmdsInOrder'
<1> DEFINE n == Len(cmds)
<1>1. cmds \in Seq(CmdType) /\ n \in Nat \ {0} /\ Head(cmds) = cmds[1] /\ cmds[1] \in CmdType
  BY DEF LoopTypes
<1>2. PICK count \in [0 .. n -> Nat] : Counted(count, cmds, Wanted, sent.tunes)
  BY DEF CmdsInOrder
<1> DEFINE rest == [i \in 0 .. n - 1 |-> count[i + 1]]
<1>3. Len(cmds') = n - 1 /\ \A i \in 1 .. n - 1 : cmds'[i] = cmds[i + 1]
  BY <1>1
<1>4. rest \in [0 .. Len(cmds') -> Nat]
  BY <1>1, <1>2, <1>3
<1>5. rest[0] = Wanted'
  BY <1>1, <1>2 DEF Counted, CmdType
<1>6. rest[n - 1] = sent'.tunes
  BY <1>1, <1>2 DEF Counted
<1>7. ASSUME NEW i \in 1 .. n - 1
      PROVE  /\ cmds'[i].cmd = "tune"  => cmds'[i].id = rest[i] /\ rest[i] = rest[i - 1] + 1
             /\ cmds'[i].cmd = "known" => rest[i] = rest[i - 1]
  <2>1. i + 1 \in 1 .. n /\ i - 1 \in 0 .. n - 1 /\ i \in 0 .. n - 1
    BY <1>1
  <2>2. rest[i] = count[i + 1] /\ rest[i - 1] = count[i] /\ (i + 1) - 1 = i
    BY <2>1
  <2> HIDE DEF rest
  <2> QED BY <1>2, <1>3, <2>1, <2>2 DEF Counted
<1>8. Counted(rest, cmds', Wanted', sent'.tunes)
  <2> HIDE DEF rest
  <2> QED BY <1>3, <1>5, <1>6, <1>7 DEF Counted
<1> QED BY <1>4, <1>8 DEF CmdsInOrder

\* The tune that is next in the queue is for the next window.
LEMMA NextTune ==
  ASSUME LoopTypes, CmdsInOrder, cmds # <<>>, Head(cmds).cmd = "tune"
  PROVE  Head(cmds).id = Wanted + 1 /\ Wanted \in Nat
<1>1. PICK count \in [0 .. Len(cmds) -> Nat] : Counted(count, cmds, Wanted, sent.tunes)
  BY DEF CmdsInOrder
<1>2. Len(cmds) \in Nat \ {0} /\ Head(cmds) = cmds[1]
  BY DEF LoopTypes
<1> QED BY <1>1, <1>2 DEF Counted

-----------------------------------------------------------------------------
(* Samples.                                                                 *)

\* What moves no sample leaves them clean.
LEMMA SameStream ==
  ASSUME CleanBehind, UNCHANGED <<ring, acc, gen, usb, filling, device>>, Wanted' = Wanted,
         (IF Waiting THEN settleLeft ELSE 0)' = IF Waiting THEN settleLeft ELSE 0
  PROVE  CleanBehind'
<1>1. PICK skip \in [1 .. Len(ring) + 1 -> Int] : Skips(skip) /\ CleanAhead(skip[Len(ring) + 1])
  BY DEF CleanBehind
<1>2. Skips(skip)'
  BY <1>1 DEF Skips, Clean
<1>3. CleanAhead(skip[Len(ring) + 1])'
  BY <1>1 DEF CleanAhead, Ahead, Uncoalesced, Clean
<1> QED BY <1>1, <1>2, <1>3 DEF CleanBehind

\* One unit more is of the window, or still to be discarded.
LEMMA CleanAppend ==
  ASSUME NEW units \in Seq(Units), NEW skip \in Int, NEW u, Clean(units, skip),
         u = Wanted \/ Len(units) + 1 <= skip
  PROVE  Clean(Append(units, u), skip)
<1> DEFINE more == Append(units, u)
<1>1. /\ Len(more) = Len(units) + 1 /\ Len(units) \in Nat /\ more[Len(units) + 1] = u
      /\ \A j \in 1 .. Len(units) : more[j] = units[j]
  OBVIOUS
<1> HIDE DEF more
<1>2. ASSUME NEW j \in 1 .. Len(more), j > skip PROVE more[j] = Wanted
  <2>1. CASE j = Len(units) + 1
    BY <1>1, <1>2, <2>1
  <2>2. CASE j # Len(units) + 1
    BY <1>1, <1>2, <2>2 DEF Clean
  <2> QED BY <2>1, <2>2
<1>3. Clean(more, skip)
  BY <1>2 DEF Clean
<1> QED BY <1>3 DEF more

\* A unit captured while the device settles is one of those to be discarded.
LEMMA CapturedAhead ==
  ASSUME LoopTypes, Capture, NEW left \in Int, Ahead(left), device.center = Wanted
  PROVE  Ahead(left)'
<1> USE Sizes
<1> DEFINE unit == IF device.moving > 0 THEN Moving ELSE device.center
           got == Append(filling, unit)
<1>0. PICK n \in Nat : n = Len(usb)
  BY DEF LoopTypes
<1>1. /\ Len(filling) \in Nat /\ device.moving \in Nat /\ n * Transfer \in Int
      /\ filling \in Seq(Units) /\ usb \in Seq(Seq(Units)) /\ unit \in Units
  BY Times DEF LoopTypes, Units
<1>2. /\ \A t \in 1 .. n : Clean(usb[t], left - (t - 1) * Transfer)
      /\ Clean(filling, left - n * Transfer)
      /\ device.moving = 0 \/ n * Transfer + Len(filling) + device.moving <= left
  BY <1>0 DEF Ahead
<1>3. device'.moving = IF device.moving > 0 THEN device.moving - 1 ELSE 0
  BY DEF Capture, LoopTypes
<1>4. Wanted' = Wanted
  BY DEF Capture, loop_, Wanted, Waiting
<1>5. Clean(got, left - n * Transfer) /\ Len(got) = Len(filling) + 1
  <2>1. unit = Wanted \/ Len(filling) + 1 <= left - n * Transfer
    <3>1. CASE device.moving > 0
      <4>1. n * Transfer + Len(filling) + 1 <= left
        BY <1>1, <1>2, <3>1
      <4> QED BY <1>1, <4>1
    <3>2. CASE ~(device.moving > 0)
      BY <3>2
    <3> QED BY <3>1, <3>2
  <2>2. left - n * Transfer \in Int
    BY <1>1
  <2> HIDE DEF unit
  <2> QED BY <1>1, <1>2, <2>1, <2>2, CleanAppend
<1>6. CASE Len(got) < Transfer
  <2>1. filling' = got /\ usb' = usb
    BY <1>6 DEF Capture
  <2>2. \A t \in 1 .. Len(usb') : Clean(usb[t], left - (t - 1) * Transfer)'
    BY <1>0, <1>2, <1>4, <2>1 DEF Clean
  <2>3. Clean(filling, left - Len(usb) * Transfer)'
    BY <1>0, <1>4, <1>5, <2>1 DEF Clean
  <2>4. device'.moving = 0 \/ Len(usb') * Transfer + Len(filling') + device'.moving <= left
    <3>1. Len(usb') = n /\ Len(filling') = Len(filling) + 1
      BY <1>0, <1>5, <2>1
    <3> HIDE DEF got
    <3> QED BY SMTT(60), <1>1, <1>2, <1>3, <3>1
  <2> QED BY <2>2, <2>3, <2>4 DEF Ahead
<1>7. CASE ~(Len(got) < Transfer)
  <2>1. filling' = <<>> /\ usb' = Append(usb, got) /\ Len(got) = Transfer
    <3>1. filling' = <<>> /\ usb' = Append(usb, got)
      BY <1>7 DEF Capture
    <3>2. Len(filling) < Transfer
      BY DEF LoopTypes
    <3> QED BY <1>1, <1>5, <1>7, <3>1, <3>2
  <2>2. /\ Len(usb') = n + 1 /\ usb'[n + 1] = got
        /\ \A t \in 1 .. n : usb'[t] = usb[t]
    <3> HIDE DEF got
    <3> QED BY <1>0, <1>1, <2>1
  <2>3. ASSUME NEW t \in 1 .. Len(usb') PROVE Clean(usb[t], left - (t - 1) * Transfer)'
    <3>1. CASE t = n + 1
      <4>1. Clean(usb'[t], left - (t - 1) * Transfer)
        <5>1. (n + 1) - 1 = n
          OBVIOUS
        <5> QED BY <1>5, <2>2, <3>1, <5>1
      <4> QED BY <1>4, <4>1 DEF Clean
    <3>2. CASE t # n + 1
      <4>1. t \in 1 .. n
        BY <2>2, <3>2
      <4>2. Clean(usb'[t], left - (t - 1) * Transfer)
        BY <1>2, <2>2, <4>1
      <4> QED BY <1>4, <4>2 DEF Clean
    <3> QED BY <3>1, <3>2
  <2>4. Clean(filling, left - Len(usb) * Transfer)'
    BY <2>1 DEF Clean
  <2>5. device'.moving = 0 \/ Len(usb') * Transfer + Len(filling') + device'.moving <= left
    <3>1. (n + 1) * Transfer = n * Transfer + Transfer /\ Len(filling') = 0 /\ Len(filling) + 1 = Transfer
      BY <1>5, <2>1, Times
    <3> HIDE DEF got
    <3> QED BY SMTT(60), <1>1, <1>2, <1>3, <2>2, <3>1
  <2> QED BY <2>3, <2>4, <2>5 DEF Ahead
<1> QED BY <1>6, <1>7

\* What is published, buffered or waiting stays as it is.
LEMMA Captured ==
  ASSUME LoopTypes, CleanBehind, Capture, device.center = Wanted
  PROVE  CleanBehind'
<1>1. PICK skip \in [1 .. Len(ring) + 1 -> Int] : Skips(skip) /\ CleanAhead(skip[Len(ring) + 1])
  BY DEF CleanBehind
<1>2. UNCHANGED <<ring, acc, gen, settleLeft>> /\ Wanted' = Wanted /\ Waiting' = Waiting
  BY DEF Capture, source_, loop_, Wanted, Waiting
<1>3. PICK last \in Int : last = skip[Len(ring) + 1]
  <2>1. Len(ring) + 1 \in 1 .. Len(ring) + 1
    BY DEF LoopTypes
  <2> QED BY <1>1, <2>1
<1>4. PICK left \in Int : left = Uncoalesced(last)
  BY SMTT(60), <1>3 DEF LoopTypes, BlockType, Uncoalesced
<1>5. Ahead(left)'
  BY <1>1, <1>3, <1>4, CapturedAhead DEF CleanAhead
<1>6. Uncoalesced(last)' = left
  BY <1>2, <1>4 DEF Uncoalesced
<1>7. CleanAhead(last)'
  BY <1>1, <1>2, <1>3, <1>5, <1>6 DEF CleanAhead, Clean
<1>8. Skips(skip)'
  BY <1>1, <1>2 DEF Skips, Clean
<1> QED BY <1>1, <1>2, <1>3, <1>7, <1>8 DEF CleanBehind

-----------------------------------------------------------------------------
(* The callback: what it publishes and what it keeps.                       *)

Stale    == acc.units # <<>> /\ acc.gen # gen
Early    == IF Stale THEN <<acc>> ELSE <<>>
NewUnits == (IF Stale THEN <<>> ELSE acc.units) \o Head(usb)
InBlocks == [i \in DOMAIN FullBlocks(NewUnits) |-> [gen |-> gen, units |-> FullBlocks(NewUnits)[i]]]

\* Division by a size leaves less than one of it.
LEMMA Divided ==
  ASSUME NEW n \in Nat, NEW size \in Nat \ {0}
  PROVE  /\ n \div size \in Nat /\ (n \div size) * size \in Nat
         /\ (n \div size) * size <= n /\ n < (n \div size) * size + size
BY SMTT(30)

\* A part of a sequence, from one place to another.
LEMMA SubSeqFacts ==
  ASSUME NEW S, NEW s \in Seq(S), NEW from \in Nat, NEW n \in Nat, \A i \in from + 1 .. from + n : s[i] \in S
  PROVE  /\ SubSeq(s, from + 1, from + n) \in Seq(S) /\ Len(SubSeq(s, from + 1, from + n)) = n
         /\ \A j \in 1 .. n : SubSeq(s, from + 1, from + n)[j] = s[from + j]
<1> DEFINE part == SubSeq(s, from + 1, from + n)
<1>1. /\ part \in Seq(S) /\ Len(part) = IF from + 1 <= from + n THEN (from + n) - (from + 1) + 1 ELSE 0
      /\ \A j \in 1 .. (from + n) - (from + 1) + 1 : part[j] = s[(from + 1) + j - 1]
  BY SMTT(60), SubSeqProperties
<1>2. Len(part) = n
  BY <1>1
<1>3. \A j \in 1 .. n : part[j] = s[from + j]
  <2> TAKE j \in 1 .. n
  <2>1. j \in 1 .. (from + n) - (from + 1) + 1 /\ (from + 1) + j - 1 = from + j
    OBVIOUS
  <2> HIDE DEF part
  <2> QED BY <1>1, <2>1
<1> QED BY <1>1, <1>2, <1>3

\* Units are cut into full blocks and a rest, each in its place.
LEMMA CutUp ==
  ASSUME NEW units \in Seq(Units), NEW f, f = Len(units) \div Block
  PROVE  /\ f \in Nat /\ f * Block \in Nat /\ f * Block <= Len(units) /\ Len(units) < f * Block + Block
         /\ Len(FullBlocks(units)) = f /\ DOMAIN FullBlocks(units) = 1 .. f
         /\ \A k \in 1 .. f :
              /\ FullBlocks(units)[k] \in Seq(Units) /\ Len(FullBlocks(units)[k]) = Block
              /\ \A j \in 1 .. Block : FullBlocks(units)[k][j] = units[(k - 1) * Block + j]
         /\ Rest(units) \in Seq(Units) /\ Len(Rest(units)) = Len(units) - f * Block
         /\ \A j \in 1 .. Len(units) - f * Block : Rest(units)[j] = units[f * Block + j]
<1> DEFINE n == Len(units)
<1>1. n \in Nat /\ Block \in Nat \ {0}
  BY Sizes
<1>2. f \in Nat /\ f * Block \in Nat /\ f * Block <= n /\ n < f * Block + Block
  BY <1>1, Divided
<1>3. Len(FullBlocks(units)) = f /\ DOMAIN FullBlocks(units) = 1 .. f
  BY <1>2 DEF FullBlocks
<1>4. ASSUME NEW k \in 1 .. f
      PROVE  /\ FullBlocks(units)[k] \in Seq(Units) /\ Len(FullBlocks(units)[k]) = Block
             /\ \A j \in 1 .. Block : FullBlocks(units)[k][j] = units[(k - 1) * Block + j]
  <2>1. PICK from \in Nat : from = (k - 1) * Block /\ from + Block = k * Block /\ k * Block <= f * Block
    <3>1. k - 1 \in Nat /\ k \in Nat /\ k <= f /\ (k - 1) + 1 = k
      BY <1>2
    <3>2. (k - 1) * Block \in Nat /\ k * Block = (k - 1) * Block + Block /\ k * Block <= f * Block
      BY <1>1, <1>2, <3>1, Times
    <3> QED BY <3>2
  <2>2. FullBlocks(units)[k] = SubSeq(units, from + 1, from + Block)
    BY <1>2, <2>1 DEF FullBlocks
  <2>3. from + Block <= n
    BY <1>1, <1>2, <2>1
  <2> HIDE DEF n
  <2>4. \A i \in from + 1 .. from + Block : units[i] \in Units
    BY <1>1, <2>3 DEF n
  <2>5. /\ SubSeq(units, from + 1, from + Block) \in Seq(Units)
        /\ Len(SubSeq(units, from + 1, from + Block)) = Block
        /\ \A j \in 1 .. Block : SubSeq(units, from + 1, from + Block)[j] = units[from + j]
    BY <1>1, <2>1, <2>4, SubSeqFacts
  <2> QED BY <2>1, <2>2, <2>5
<1>5. /\ Rest(units) \in Seq(Units) /\ Len(Rest(units)) = n - f * Block
      /\ \A j \in 1 .. n - f * Block : Rest(units)[j] = units[f * Block + j]
  <2>1. PICK from \in Nat : from = f * Block
    BY <1>2
  <2>2. Rest(units) = SubSeq(units, from + 1, from + (n - from))
    BY SMTT(60), <1>1, <1>2, <2>1 DEF Rest
  <2>3. n - from \in Nat /\ \A i \in from + 1 .. from + (n - from) : units[i] \in Units
    BY <1>1, <1>2, <2>1
  <2> HIDE DEF n
  <2>4. /\ SubSeq(units, from + 1, from + (n - from)) \in Seq(Units)
        /\ Len(SubSeq(units, from + 1, from + (n - from))) = n - from
        /\ \A j \in 1 .. n - from : SubSeq(units, from + 1, from + (n - from))[j] = units[from + j]
    BY <2>1, <2>3, SubSeqFacts
  <2> QED BY <2>1, <2>2, <2>4
<1> QED BY <1>2, <1>3, <1>4, <1>5

\* With what the buffer holds, the units of a transfer are clean behind the same place.
LEMMA NewUnitsClean ==
  ASSUME LoopTypes, usb # <<>>, NEW last \in Int, CleanAhead(last)
  PROVE  /\ NewUnits \in Seq(Units) /\ Clean(NewUnits, last)
         /\ Uncoalesced(last) \in Int /\ Uncoalesced(last) - Transfer = last - Len(NewUnits)
<1> DEFINE got == Head(usb)
<1>1. got \in Seq(Units) /\ got = usb[1] /\ Len(got) = Transfer /\ Len(usb) \in Nat \ {0}
  BY SMTT(60) DEF LoopTypes
<1>2. acc.units \in Seq(Units) /\ Len(acc.units) \in Nat /\ Transfer \in Nat
  BY Sizes DEF LoopTypes, BlockType
<1>3. Uncoalesced(last) \in Int
  BY <1>2 DEF Uncoalesced
<1>4. Clean(got, Uncoalesced(last))
  <2>1. Uncoalesced(last) - (1 - 1) * Transfer = Uncoalesced(last)
    BY <1>2, <1>3
  <2>2. 1 \in 1 .. Len(usb) /\ Clean(usb[1], Uncoalesced(last) - (1 - 1) * Transfer)
    BY <1>1 DEF CleanAhead, Ahead
  <2> QED BY <1>1, <2>1, <2>2
<1> HIDE DEF got
<1>5. CASE Stale \/ acc.gen # gen
  <2>1. NewUnits = got
    <3>1. NewUnits = <<>> \o got
      BY <1>5 DEF NewUnits, Stale, got
    <3> QED BY <1>1, <3>1
  <2>2. Uncoalesced(last) = last
    BY <1>5 DEF Uncoalesced, Stale
  <2> QED BY <1>1, <1>3, <1>4, <2>1, <2>2
<1>6. CASE ~Stale /\ acc.gen = gen
  <2>1. NewUnits = acc.units \o got
    BY <1>6 DEF NewUnits, got
  <2>2. Uncoalesced(last) = last - Len(acc.units) /\ Clean(acc.units, last)
    BY <1>6 DEF Uncoalesced, CleanAhead
  <2>3. /\ NewUnits \in Seq(Units) /\ Len(NewUnits) = Len(acc.units) + Transfer
        /\ \A j \in 1 .. Len(acc.units) : NewUnits[j] = acc.units[j]
        /\ \A j \in Len(acc.units) + 1 .. Len(acc.units) + Transfer : NewUnits[j] = got[j - Len(acc.units)]
    <3>1. /\ acc.units \o got \in Seq(Units) /\ Len(acc.units \o got) = Len(acc.units) + Len(got)
          /\ \A i \in 1 .. Len(acc.units) + Len(got) : (acc.units \o got)[i] =
               IF i <= Len(acc.units) THEN acc.units[i] ELSE got[i - Len(acc.units)]
      BY ZenonT(60), <1>1, <1>2, ConcatProperties
    <3>2. /\ NewUnits \in Seq(Units) /\ Len(NewUnits) = Len(acc.units) + Transfer
          /\ \A i \in 1 .. Len(acc.units) + Transfer : NewUnits[i] =
               IF i <= Len(acc.units) THEN acc.units[i] ELSE got[i - Len(acc.units)]
      BY <1>1, <2>1, <3>1
    <3> QED BY SMTT(60), <1>2, <3>2
  <2>4. ASSUME NEW j \in 1 .. Len(NewUnits), j > last PROVE NewUnits[j] = Wanted
    <3>1. CASE j <= Len(acc.units)
      BY <1>2, <2>2, <2>3, <2>4, <3>1 DEF Clean
    <3>2. CASE ~(j <= Len(acc.units))
      <4>1. PICK i \in 1 .. Len(got) : j = i + Len(acc.units) /\ i > Uncoalesced(last)
        <5>1. j - Len(acc.units) \in 1 .. Len(got)
          BY <1>1, <1>2, <2>3, <3>2
        <5>2. j - Len(acc.units) > Uncoalesced(last) /\ j = (j - Len(acc.units)) + Len(acc.units)
          BY <1>2, <2>2, <2>3, <2>4
        <5> QED BY <5>1, <5>2
      <4>2. NewUnits[j] = got[i]
        <5>1. j - Len(acc.units) = i /\ j \in Len(acc.units) + 1 .. Len(acc.units) + Transfer
          BY <1>1, <1>2, <2>3, <4>1
        <5> QED BY <2>3, <5>1
      <4> QED BY <1>4, <4>1, <4>2 DEF Clean
    <3> QED BY <3>1, <3>2
  <2> QED BY <1>2, <1>3, <2>2, <2>3, <2>4 DEF Clean
<1> QED BY <1>5, <1>6

\* The transfers behind the first one have come nearer by its units.
LEMMA AheadTail ==
  ASSUME LoopTypes, usb # <<>>, NEW left \in Int, Ahead(left), NEW near \in Int, near >= left - Transfer,
         usb' = Tail(usb), UNCHANGED <<filling, device>>, Wanted' = Wanted
  PROVE  Ahead(near)'
<1>1. PICK n \in Nat \ {0} : n = Len(usb)
  <2>1. usb \in Seq(Seq(Units))
    BY DEF LoopTypes
  <2>2. Len(usb) \in Nat \ {0}
    BY <2>1
  <2> QED BY <2>2
<1>2. Len(usb') = n - 1 /\ \A t \in 1 .. n - 1 : usb'[t] = usb[t + 1] /\ Len(usb[t + 1]) = Transfer
  BY <1>1 DEF LoopTypes
<1>3. Transfer \in Nat /\ Len(filling) \in Nat /\ device.moving \in Nat
  BY Sizes DEF LoopTypes
<1>4. \A t \in Nat \ {0} : /\ t * Transfer \in Nat /\ (t - 1) * Transfer \in Nat
                          /\ t * Transfer = (t - 1) * Transfer + Transfer
  <2> TAKE t \in Nat \ {0}
  <2>1. t - 1 \in Nat /\ (t - 1) + 1 = t
    OBVIOUS
  <2> QED BY <1>3, <2>1, Times
<1>5. ASSUME NEW t \in 1 .. Len(usb') PROVE Clean(usb[t], near - (t - 1) * Transfer)'
  <2>1. t \in Nat \ {0} /\ t + 1 \in 1 .. n /\ (t + 1) - 1 = t
    BY <1>2
  <2>2. Clean(usb[t + 1], left - t * Transfer)
    BY <1>1, <2>1 DEF Ahead
  <2>3. /\ near - (t - 1) * Transfer >= left - t * Transfer
        /\ near - (t - 1) * Transfer \in Int /\ left - t * Transfer \in Int
    BY <1>3, <1>4, <2>1
  <2>4. usb'[t] = usb[t + 1] /\ Len(usb[t + 1]) = Transfer
    BY <1>2
  <2>5. ASSUME NEW j \in 1 .. Transfer, j > near - (t - 1) * Transfer PROVE usb'[t][j] = Wanted
    <3>1. j > left - t * Transfer
      BY <1>3, <2>3, <2>5
    <3> QED BY <2>2, <2>4, <3>1 DEF Clean
  <2> QED BY <2>4, <2>5 DEF Clean
<1>6. Clean(filling, near - Len(usb) * Transfer)'
  <2>1. Clean(filling, left - n * Transfer)
    BY <1>1 DEF Ahead
  <2>2. /\ near - (n - 1) * Transfer >= left - n * Transfer
        /\ near - (n - 1) * Transfer \in Int /\ left - n * Transfer \in Int
    BY <1>3, <1>4
  <2>3. ASSUME NEW j \in 1 .. Len(filling), j > near - (n - 1) * Transfer PROVE filling[j] = Wanted
    <3>1. j > left - n * Transfer
      BY <1>3, <2>2, <2>3
    <3> QED BY <2>1, <3>1 DEF Clean
  <2> QED BY <1>2, <2>3 DEF Clean
<1>7. (device.moving = 0 \/ Len(usb) * Transfer + Len(filling) + device.moving <= near)'
  <2>1. device.moving = 0 \/ n * Transfer + Len(filling) + device.moving <= left
    BY <1>1 DEF Ahead
  <2>2. n * Transfer = (n - 1) * Transfer + Transfer /\ n * Transfer \in Nat /\ (n - 1) * Transfer \in Nat
    BY <1>4
  <2>3. device.moving = 0 \/ (n - 1) * Transfer + Len(filling) + device.moving <= near
    BY <1>3, <2>1, <2>2
  <2> QED BY <1>2, <2>3
<1> QED BY <1>5, <1>6, <1>7 DEF Ahead

\* The blocks of one call: at most one of an older generation, then full ones.
LEMMA BlocksOf ==
  ASSUME LoopTypes, usb # <<>>, NEW e, e = (IF Stale THEN 1 ELSE 0), NEW f, f = Len(NewUnits) \div Block
  PROVE  /\ NewUnits \in Seq(Units) /\ f \in Nat /\ e \in {0, 1}
         /\ Early \o InBlocks \in Seq(BlockType) /\ Len(Early \o InBlocks) = e + f
         /\ \A k \in 1 .. e + f :
              IF k <= e THEN (Early \o InBlocks)[k] = acc
              ELSE /\ (Early \o InBlocks)[k].gen = gen
                   /\ (Early \o InBlocks)[k].units = FullBlocks(NewUnits)[k - e]
                   /\ k - e \in 1 .. f
<1>1. Head(usb) \in Seq(Units) /\ acc \in BlockType /\ acc.units \in Seq(Units) /\ gen \in Nat
  <2>1. usb \in Seq(Seq(Units)) /\ acc \in BlockType /\ gen \in Nat
    BY DEF LoopTypes
  <2> QED BY <2>1 DEF BlockType
<1>2. NewUnits \in Seq(Units)
  BY <1>1, ConcatProperties DEF NewUnits
<1>3. /\ f \in Nat /\ DOMAIN FullBlocks(NewUnits) = 1 .. f
      /\ \A k \in 1 .. f : FullBlocks(NewUnits)[k] \in Seq(Units)
  BY <1>2, CutUp
<1>4. /\ InBlocks \in Seq(BlockType) /\ Len(InBlocks) = f
      /\ \A k \in 1 .. f : InBlocks[k].gen = gen /\ InBlocks[k].units = FullBlocks(NewUnits)[k]
  <2>1. InBlocks = [k \in 1 .. f |-> [gen |-> gen, units |-> FullBlocks(NewUnits)[k]]]
    BY <1>3 DEF InBlocks
  <2>2. \A k \in 1 .. f : [gen |-> gen, units |-> FullBlocks(NewUnits)[k]] \in BlockType
    BY <1>1, <1>3 DEF BlockType
  <2>3. InBlocks \in [1 .. f -> BlockType]
    BY <2>1, <2>2
  <2>4. InBlocks \in Seq(BlockType) /\ Len(InBlocks) = f
    BY <1>3, <2>3
  <2> QED BY <2>1, <2>4
<1>5. Early \in Seq(BlockType) /\ Len(Early) = e /\ (e = 1 => Early[1] = acc) /\ e \in {0, 1}
  BY <1>1 DEF Early
<1>6. /\ Early \o InBlocks \in Seq(BlockType) /\ Len(Early \o InBlocks) = e + f
      /\ \A k \in 1 .. e + f : (Early \o InBlocks)[k] = IF k <= e THEN Early[k] ELSE InBlocks[k - e]
  <2>1. /\ Early \o InBlocks \in Seq(BlockType) /\ Len(Early \o InBlocks) = Len(Early) + Len(InBlocks)
        /\ \A k \in 1 .. Len(Early) + Len(InBlocks) :
             (Early \o InBlocks)[k] = IF k <= Len(Early) THEN Early[k] ELSE InBlocks[k - Len(Early)]
    <3>1. InBlocks \in Seq(BlockType) /\ Early \in Seq(BlockType)
      BY <1>4, <1>5
    <3> QED BY <3>1, ConcatProperties
  <2> QED BY <1>4, <1>5, <2>1
<1>7. ASSUME NEW k \in 1 .. e + f
      PROVE  IF k <= e THEN (Early \o InBlocks)[k] = acc
             ELSE /\ (Early \o InBlocks)[k].gen = gen
                  /\ (Early \o InBlocks)[k].units = FullBlocks(NewUnits)[k - e]
                  /\ k - e \in 1 .. f
  <2>1. CASE k <= e
    <3>1. k = 1 /\ e = 1
      BY <1>3, <1>5, <2>1
    <3> QED BY <1>5, <1>6, <3>1
  <2>2. CASE ~(k <= e)
    <3>1. k - e \in 1 .. f
      BY <1>3, <1>5, <2>2
    <3> QED BY <1>4, <1>6, <2>2, <3>1
  <2> QED BY <2>1, <2>2
<1> QED BY <1>2, <1>3, <1>5, <1>6, <1>7

\* The ring after a call: what was in it, then as many of the blocks as it had room for.
LEMMA RingAfter ==
  ASSUME LoopTypes, OnSamples, NEW e, e = (IF Stale THEN 1 ELSE 0), NEW f, f = Len(NewUnits) \div Block
  PROVE  \E m \in 0 .. e + f :
           /\ ring' \in Seq(BlockType) /\ Len(ring') = Len(ring) + m /\ Len(ring') <= RingBlocks
           /\ \A i \in 1 .. Len(ring) : ring'[i] = ring[i]
           /\ \A k \in 1 .. m : ring'[Len(ring) + k] = (Early \o InBlocks)[k]
<1> DEFINE blocks == Early \o InBlocks
           room == RingBlocks - Len(ring)
<1>1. ring' = ring \o Fitting(blocks) /\ usb # <<>>
  BY DEF OnSamples, Early, InBlocks, Stale, NewUnits
<1>2. blocks \in Seq(BlockType) /\ Len(blocks) = e + f /\ e + f \in Nat
  BY <1>1, BlocksOf
<1>3. ring \in Seq(BlockType) /\ Len(ring) \in Nat /\ RingBlocks \in Nat /\ room \in Nat
  <2>1. ring \in Seq(BlockType) /\ Len(ring) <= RingBlocks
    BY DEF LoopTypes
  <2> QED BY <2>1, Sizes
<1> DEFINE m == IF Len(blocks) <= room THEN Len(blocks) ELSE room
<1>4. m \in 0 .. e + f /\ m <= room /\ m \in Nat
  <2> HIDE DEF blocks, room
  <2> QED BY <1>2, <1>3
<1>5. Fitting(blocks) = SubSeq(blocks, 0 + 1, 0 + m)
  BY <1>4 DEF Fitting
<1> HIDE DEF blocks, m
<1>6. \A i \in 0 + 1 .. 0 + m : blocks[i] \in BlockType
  BY <1>2, <1>4
<1>7. /\ Fitting(blocks) \in Seq(BlockType) /\ Len(Fitting(blocks)) = m
      /\ \A k \in 1 .. m : Fitting(blocks)[k] = blocks[0 + k]
  BY <1>2, <1>4, <1>5, <1>6, SubSeqFacts
<1>8. /\ ring' \in Seq(BlockType) /\ Len(ring') = Len(ring) + m
      /\ \A i \in 1 .. Len(ring) + m :
           ring'[i] = IF i <= Len(ring) THEN ring[i] ELSE Fitting(blocks)[i - Len(ring)]
  BY <1>1, <1>3, <1>7, ConcatProperties
<1>9. \A i \in 1 .. Len(ring) : ring'[i] = ring[i]
  BY <1>3, <1>4, <1>8
<1>10. ASSUME NEW k \in 1 .. m PROVE ring'[Len(ring) + k] = blocks[k]
  <2>1. /\ Len(ring) + k \in 1 .. Len(ring) + m /\ ~(Len(ring) + k <= Len(ring))
        /\ (Len(ring) + k) - Len(ring) = k /\ 0 + k = k
    BY <1>3, <1>4
  <2> QED BY <1>7, <1>8, <2>1
<1>11. Len(ring') <= RingBlocks
  BY <1>3, <1>4, <1>8
<1> QED BY <1>4, <1>8, <1>9, <1>10, <1>11 DEF blocks

\* A call keeps the types and the order of generations.
LEMMA PublishTypes ==
  ASSUME LoopTypes, GensInOrder, OnSamples
  PROVE  LoopTypes' /\ GensInOrder'
<1> DEFINE full == FullBlocks(NewUnits)
<1>1. PICK e \in {0, 1}, f \in Nat : e = (IF Stale THEN 1 ELSE 0) /\ f = Len(NewUnits) \div Block
  BY BlocksOf DEF OnSamples
<1>2. PICK m \in 0 .. e + f :
           /\ ring' \in Seq(BlockType) /\ Len(ring') = Len(ring) + m /\ Len(ring') <= RingBlocks
           /\ \A i \in 1 .. Len(ring) : ring'[i] = ring[i]
           /\ \A k \in 1 .. m : ring'[Len(ring) + k] = (Early \o InBlocks)[k]
  BY <1>1, RingAfter
<1>3. /\ usb # <<>> /\ usb' = Tail(usb) /\ acc' = [gen |-> gen, units |-> Rest(NewUnits)]
      /\ UNCHANGED <<cmds, sent, device, filling, gen, pending, settleLeft, engine, latest>>
  BY DEF OnSamples, NewUnits, Stale, device_, loop_
<1>4. /\ NewUnits \in Seq(Units)
      /\ \A k \in 1 .. e + f :
              IF k <= e THEN (Early \o InBlocks)[k] = acc
              ELSE /\ (Early \o InBlocks)[k].gen = gen
                   /\ (Early \o InBlocks)[k].units = full[k - e]
                   /\ k - e \in 1 .. f
  BY <1>1, <1>3, BlocksOf
<1>5. Len(ring) \in Nat /\ gen \in Nat /\ acc.gen \in Nat /\ Block \in Nat \ {0}
  <2>1. ring \in Seq(BlockType) /\ acc \in BlockType /\ gen \in Nat
    BY DEF LoopTypes
  <2> QED BY <2>1, Sizes DEF BlockType
<1>6. e \in Nat /\ m \in Nat /\ m <= e + f
  BY <1>1, <1>2
<1>7. ASSUME NEW i \in 1 .. Len(ring')
      PROVE  \/ i \in 1 .. Len(ring) /\ ring'[i] = ring[i]
             \/ i > Len(ring) /\ e = 1 /\ ring'[i] = acc
             \/ i > Len(ring) /\ ring'[i].gen = gen /\ \E k \in 1 .. f : ring'[i].units = full[k]
  <2>1. CASE i <= Len(ring)
    BY <1>2, <1>5, <2>1
  <2>2. CASE ~(i <= Len(ring))
    <3>1. PICK k \in 1 .. m : i = Len(ring) + k
      <4>1. i - Len(ring) \in 1 .. m /\ i = Len(ring) + (i - Len(ring))
        BY <1>2, <1>5, <2>2
      <4> QED BY <4>1
    <3>2. k \in 1 .. e + f /\ ring'[i] = (Early \o InBlocks)[k]
      <4>1. k \in 1 .. e + f
        BY <1>6, <3>1
      <4> QED BY <1>2, <3>1, <4>1
    <3>3. CASE k <= e
      <4>1. e = 1
        BY <1>1, <3>1, <3>3
      <4>2. i > Len(ring)
        BY <1>5, <3>1
      <4> QED BY <1>4, <3>2, <3>3, <4>1, <4>2
    <3>4. CASE ~(k <= e)
      <4>1. ring'[i].gen = gen /\ ring'[i].units = full[k - e] /\ k - e \in 1 .. f
        BY <1>4, <3>2, <3>4
      <4> QED BY <2>2, <4>1
    <3> QED BY <3>3, <3>4
  <2> QED BY <2>1, <2>2
<1>8. \A i \in 1 .. Len(ring') : \/ ring'[i].gen = gen
                                 \/ ring'[i] = acc
                                 \/ i \in 1 .. Len(ring) /\ ring'[i] = ring[i]
  <2> HIDE DEF full
  <2> QED BY <1>7, Zenon
<1>9. e = 1 => acc.units # <<>> /\ acc.gen # gen
  BY <1>1 DEF Stale
<1>10. \A k \in 1 .. f : full[k] # <<>>
  <2> TAKE k \in 1 .. f
  <2>1. \A j \in 1 .. f : FullBlocks(NewUnits)[j] \in Seq(Units) /\ Len(FullBlocks(NewUnits)[j]) = Block
    <3>1. f = Len(NewUnits) \div Block /\ NewUnits \in Seq(Units)
      BY <1>1, <1>4
    <3> QED BY ONLY <3>1, CutUp, Zenon
  <2>2. full[k] \in Seq(Units) /\ Len(full[k]) = Block
    BY <2>1
  <2> QED BY <1>5, <2>2
<1>11. GensInOrder'
  <2>1. /\ \A i \in 1 .. Len(ring) : ring[i].gen <= acc.gen
        /\ \A i, j \in 1 .. Len(ring) : i <= j => ring[i].gen <= ring[j].gen
        /\ acc.gen <= gen
        /\ ~Waiting => acc.gen = gen /\ \A i \in 1 .. Len(ring) : ring[i].gen = gen
        /\ \A i \in 1 .. Len(ring) : ring[i].gen \in Nat
    <3>1. \A i \in 1 .. Len(ring) : ring[i] \in BlockType
      BY DEF LoopTypes
    <3>2. \A i \in 1 .. Len(ring) : ring[i].gen \in Nat
      BY <3>1 DEF BlockType
    <3> QED BY <3>2 DEF GensInOrder
  <2>2. acc'.gen = gen /\ gen' = gen /\ Waiting' = Waiting
    BY <1>3 DEF Waiting
  <2>3. \A i \in 1 .. Len(ring') : ring'[i].gen <= gen
    BY <1>5, <1>7, <2>1
  <2>4. ASSUME NEW i \in 1 .. Len(ring'), NEW j \in 1 .. Len(ring'), i <= j
        PROVE  ring'[i].gen <= ring'[j].gen
    <3>1. CASE ring'[j].gen = gen
      BY <2>3, <3>1
    <3>2. CASE j \in 1 .. Len(ring) /\ ring'[j] = ring[j]
      <4>1. i \in 1 .. Len(ring) /\ ring'[i] = ring[i]
        BY <1>2, <1>5, <2>4, <3>2
      <4> QED BY <2>1, <2>4, <3>2, <4>1
    <3>3. CASE j > Len(ring) /\ e = 1 /\ ring'[j] = acc /\ ring'[j].gen # gen
      <4>1. ring'[i].gen # gen
        <5>1. CASE i \in 1 .. Len(ring)
          BY <1>2, <1>5, <2>1, <3>3, <5>1
        <5>2. CASE i > Len(ring)
          <6>1. j = Len(ring) + 1
            <7>1. j - Len(ring) \in 1 .. m /\ Len(ring) + (j - Len(ring)) = j
              BY <1>2, <1>5, <3>3
            <7>2. j - Len(ring) \in 1 .. e + f /\ ring'[j] = (Early \o InBlocks)[j - Len(ring)]
              <8>1. j - Len(ring) \in 1 .. e + f
                BY <1>6, <7>1
              <8> QED BY <1>2, <7>1, <8>1
            <7>3. j - Len(ring) <= e
              BY <1>4, <3>3, <7>2
            <7> QED BY <1>5, <3>3, <7>3
          <6>2. i = j
            BY <1>5, <2>4, <5>2, <6>1
          <6> QED BY <3>3, <6>2
        <5> QED BY <1>2, <1>5, <5>1, <5>2
      <4>2. ring'[i] = acc \/ (i \in 1 .. Len(ring) /\ ring'[i] = ring[i])
        BY <1>8, <4>1
      <4>3. CASE ring'[i] = acc
        BY <1>5, <3>3, <4>3
      <4>4. CASE i \in 1 .. Len(ring) /\ ring'[i] = ring[i]
        BY <2>1, <3>3, <4>4
      <4> QED BY <4>2, <4>3, <4>4
    <3> QED BY <1>7, <3>1, <3>2, <3>3
  <2>5. ~Waiting => \A i \in 1 .. Len(ring') : ring'[i].gen = gen
    BY <1>7, <1>9, <2>1
  <2> QED BY <1>5, <2>2, <2>3, <2>4, <2>5 DEF GensInOrder
<1>12. LoopTypes'
  <2>1. acc' \in BlockType /\ Len(acc'.units) < Block
    <3>1. /\ Rest(NewUnits) \in Seq(Units) /\ Len(Rest(NewUnits)) = Len(NewUnits) - f * Block
          /\ Len(NewUnits) < f * Block + Block /\ f * Block \in Nat
      BY <1>1, <1>4, CutUp
    <3>2. Len(NewUnits) \in Nat
      BY <1>4
    <3>3. Len(Rest(NewUnits)) < Block
      BY <1>5, <3>1, <3>2
    <3> QED BY <1>3, <1>5, <3>1, <3>3 DEF BlockType
  <2>2. /\ usb' \in Seq(Seq(Units)) /\ Len(usb') <= Backlog
        /\ \A t \in 1 .. Len(usb') : Len(usb'[t]) = Transfer
    <3>1. usb \in Seq(Seq(Units)) /\ Len(usb) <= Backlog /\ \A t \in 1 .. Len(usb) : Len(usb[t]) = Transfer
      BY DEF LoopTypes
    <3>2. Len(usb) \in Nat \ {0} /\ Backlog \in Nat
      BY <1>3, <3>1, Sizes
    <3>3. /\ usb' \in Seq(Seq(Units)) /\ Len(usb') = Len(usb) - 1
          /\ \A t \in 1 .. Len(usb') : usb'[t] = usb[t + 1]
      BY <1>3, <3>1, HeadTailProperties
    <3>4. ASSUME NEW t \in 1 .. Len(usb') PROVE Len(usb'[t]) = Transfer
      <4>1. t + 1 \in 1 .. Len(usb)
        BY <3>2, <3>3
      <4> QED BY <3>1, <3>3, <4>1
    <3>5. Len(usb') <= Backlog
      BY <3>1, <3>2, <3>3
    <3> QED BY <3>3, <3>4, <3>5
  <2>3. \A i \in 1 .. Len(ring') : ring'[i].units # <<>>
    <3>1. \A i \in 1 .. Len(ring) : ring[i].units # <<>>
      BY DEF LoopTypes
    <3> QED BY <1>7, <1>9, <1>10, <3>1
  <2> QED BY <1>2, <1>3, <2>1, <2>2, <2>3 DEF LoopTypes
<1> QED BY <1>11, <1>12

\* A call leaves the samples clean: each full block is discarded as far as its place requires.
LEMMA PublishClean ==
  ASSUME LoopTypes, OnSamples, CleanBehind
  PROVE  CleanBehind'
<1>1. PICK e \in {0, 1}, f \in Nat : e = (IF Stale THEN 1 ELSE 0) /\ f = Len(NewUnits) \div Block
  BY BlocksOf DEF OnSamples
<1>2. PICK m \in 0 .. e + f :
           /\ ring' \in Seq(BlockType) /\ Len(ring') = Len(ring) + m /\ Len(ring') <= RingBlocks
           /\ \A i \in 1 .. Len(ring) : ring'[i] = ring[i]
           /\ \A k \in 1 .. m : ring'[Len(ring) + k] = (Early \o InBlocks)[k]
  BY <1>1, RingAfter
<1>3. /\ usb # <<>> /\ usb' = Tail(usb) /\ acc' = [gen |-> gen, units |-> Rest(NewUnits)]
      /\ UNCHANGED <<filling, device, gen, settleLeft>> /\ Waiting' = Waiting /\ Wanted' = Wanted
  BY DEF OnSamples, NewUnits, Stale, device_, loop_, Waiting, Wanted
<1>4. /\ NewUnits \in Seq(Units)
      /\ \A k \in 1 .. e + f :
              IF k <= e THEN (Early \o InBlocks)[k] = acc
              ELSE /\ (Early \o InBlocks)[k].gen = gen
                   /\ (Early \o InBlocks)[k].units = FullBlocks(NewUnits)[k - e]
                   /\ k - e \in 1 .. f
  BY <1>1, <1>3, BlocksOf
<1>5. e \in Nat /\ m \in Nat /\ m <= e + f /\ Block \in Nat \ {0} /\ Transfer \in Nat
  BY <1>1, <1>2, Sizes
<1>6. PICK R \in Nat : R = Len(ring)
  BY DEF LoopTypes
<1>7. PICK skip \in [1 .. R + 1 -> Int] : Skips(skip) /\ CleanAhead(skip[R + 1])
  BY <1>6 DEF CleanBehind
<1>8. PICK last \in Int : last = skip[R + 1]
  BY <1>6, <1>7
<1>9. /\ Clean(NewUnits, last) /\ Uncoalesced(last) \in Int
      /\ Uncoalesced(last) - Transfer = last - Len(NewUnits)
  BY <1>3, <1>7, <1>8, NewUnitsClean
<1>10. /\ f * Block \in Nat /\ f * Block <= Len(NewUnits) /\ Len(NewUnits) \in Nat
       /\ \A k \in 1 .. f :
            /\ Len(FullBlocks(NewUnits)[k]) = Block
            /\ \A j \in 1 .. Block : FullBlocks(NewUnits)[k][j] = NewUnits[(k - 1) * Block + j]
            /\ k * Block \in Nat /\ (k - 1) * Block \in Nat /\ k * Block = (k - 1) * Block + Block
            /\ k * Block <= f * Block
       /\ Len(Rest(NewUnits)) = Len(NewUnits) - f * Block
       /\ \A j \in 1 .. Len(NewUnits) - f * Block : Rest(NewUnits)[j] = NewUnits[f * Block + j]
  <2>1. f = Len(NewUnits) \div Block /\ NewUnits \in Seq(Units)
    BY <1>1, <1>4
  <2>2. /\ f * Block \in Nat /\ f * Block <= Len(NewUnits)
        /\ \A k \in 1 .. f :
             /\ Len(FullBlocks(NewUnits)[k]) = Block
             /\ \A j \in 1 .. Block : FullBlocks(NewUnits)[k][j] = NewUnits[(k - 1) * Block + j]
        /\ Len(Rest(NewUnits)) = Len(NewUnits) - f * Block
        /\ \A j \in 1 .. Len(NewUnits) - f * Block : Rest(NewUnits)[j] = NewUnits[f * Block + j]
    <3>1. f * Block \in Nat /\ f * Block <= Len(NewUnits)
      BY <2>1, CutUp
    <3>2. ASSUME NEW k \in 1 .. f PROVE Len(FullBlocks(NewUnits)[k]) = Block
      BY ZenonT(60), <2>1, CutUp
    <3>3. ASSUME NEW k \in 1 .. f, NEW j \in 1 .. Block
          PROVE  FullBlocks(NewUnits)[k][j] = NewUnits[(k - 1) * Block + j]
      BY SMTT(60), <2>1, CutUp
    <3>4. Len(Rest(NewUnits)) = Len(NewUnits) - f * Block
      BY <2>1, CutUp
    <3>5. ASSUME NEW j \in 1 .. Len(NewUnits) - f * Block PROVE Rest(NewUnits)[j] = NewUnits[f * Block + j]
      BY ZenonT(60), <2>1, CutUp
    <3> QED BY <3>1, <3>2, <3>3, <3>4, <3>5
  <2>3. ASSUME NEW k \in 1 .. f
        PROVE  /\ k * Block \in Nat /\ (k - 1) * Block \in Nat /\ k * Block = (k - 1) * Block + Block
               /\ k * Block <= f * Block
    <3>1. k - 1 \in Nat /\ k \in Nat /\ k <= f /\ (k - 1) + 1 = k
      OBVIOUS
    <3> QED BY <1>5, <3>1, Times
  <2>4. Len(NewUnits) \in Nat
    BY <2>1
  <2> QED BY <2>2, <2>3, <2>4
<1>11. /\ f * Block \in Nat /\ f * Block <= Len(NewUnits) /\ Len(NewUnits) \in Nat
       /\ Len(Rest(NewUnits)) = Len(NewUnits) - f * Block
  BY <1>10
\* cut[k] is how many of the units are in the first k blocks of the call.
<1>12. PICK cut \in [0 .. m -> Int] :
         /\ cut[0] = 0 /\ cut[m] <= f * Block
         /\ \A k \in 1 .. m : IF k <= e THEN cut[k] = cut[k - 1]
                              ELSE cut[k - 1] = ((k - e) - 1) * Block /\ cut[k] = cut[k - 1] + Block
  <2> DEFINE c == [k \in 0 .. m |-> IF k <= e THEN 0 ELSE (k - e) * Block]
  <2>1. ASSUME NEW k \in 0 .. m PROVE c[k] \in Int /\ c[k] <= f * Block
    <3>1. CASE k <= e
      BY <1>10, <3>1
    <3>2. CASE ~(k <= e)
      <4>1. k - e \in 1 .. f
        BY <1>1, <1>5, <3>2
      <4> QED BY <1>10, <3>2, <4>1
    <3> QED BY <3>1, <3>2
  <2>2. ASSUME NEW k \in 1 .. m
        PROVE  IF k <= e THEN c[k] = c[k - 1]
               ELSE c[k - 1] = ((k - e) - 1) * Block /\ c[k] = c[k - 1] + Block
    <3>1. k \in 0 .. m /\ k - 1 \in 0 .. m
      BY <1>5
    <3>2. CASE k <= e
      BY <1>5, <3>1, <3>2
    <3>3. CASE ~(k <= e)
      <4>1. k - e \in 1 .. f
        BY <1>1, <1>5, <3>3
      <4>2. c[k] = (k - e) * Block
        BY <3>1, <3>3
      <4>3. c[k - 1] = ((k - e) - 1) * Block
        <5>1. CASE k - 1 <= e
          <6>1. (k - e) - 1 = 0 /\ c[k - 1] = 0 /\ 0 * Block = 0
            BY <1>5, <3>1, <3>3, <5>1
          <6> QED BY <6>1
        <5>2. CASE ~(k - 1 <= e)
          <6>1. c[k - 1] = ((k - 1) - e) * Block /\ (k - 1) - e = (k - e) - 1
            BY <1>5, <3>1, <5>2
          <6> QED BY <6>1
        <5> QED BY <5>1, <5>2
      <4>4. (k - e) * Block = ((k - e) - 1) * Block + Block
        BY <1>10, <4>1
      <4> HIDE DEF c
      <4> QED BY <3>3, <4>2, <4>3, <4>4
    <3> QED BY <3>2, <3>3
  <2>3. c[0] = 0 /\ 0 \in 0 .. m /\ m \in 0 .. m
    BY <1>1, <1>5
  <2>4. c \in [0 .. m -> Int]
    BY <2>1
  <2> HIDE DEF c
  <2>5. c[m] <= f * Block
    BY <2>1, <2>3
  <2> QED BY <2>2, <2>3, <2>4, <2>5
<1>13. PICK ns \in [1 .. R + m + 1 -> Int] :
         /\ \A i \in 1 .. R + 1 : ns[i] = skip[i]
         /\ \A k \in 0 .. m : ns[R + k + 1] = last - cut[k]
  <2> DEFINE s == [i \in 1 .. R + m + 1 |-> IF i <= R + 1 THEN skip[i] ELSE last - cut[i - R - 1]]
  <2>1. s \in [1 .. R + m + 1 -> Int]
    <3> SUFFICES ASSUME NEW i \in 1 .. R + m + 1
                 PROVE  (IF i <= R + 1 THEN skip[i] ELSE last - cut[i - R - 1]) \in Int
      OBVIOUS
    <3>1. CASE i <= R + 1
      BY <1>7, <3>1
    <3>2. CASE ~(i <= R + 1)
      <4>1. i - R - 1 \in 0 .. m
        BY <1>5, <3>2
      <4>2. cut[i - R - 1] \in Int
        BY <1>12, <4>1
      <4> QED BY <3>2, <4>2
    <3> QED BY <3>1, <3>2
  <2>2. \A i \in 1 .. R + 1 : s[i] = skip[i]
    BY <1>5
  <2>3. ASSUME NEW k \in 0 .. m PROVE s[R + k + 1] = last - cut[k]
    <3>1. R + k + 1 \in 1 .. R + m + 1 /\ (R + k + 1) - R - 1 = k
      BY <1>5
    <3>2. CASE k = 0
      BY <1>5, <1>8, <1>12, <2>2, <3>2
    <3>3. CASE k # 0
      <4>1. ~(R + k + 1 <= R + 1)
        BY <1>5, <3>3
      <4> QED BY <3>1, <4>1
    <3> QED BY <3>2, <3>3
  <2> QED BY <2>1, <2>2, <2>3
<1>14. Skips(ns)'
  <2>1. /\ skip[1] <= IF Waiting THEN settleLeft ELSE 0
        /\ \A i \in 1 .. R :
             IF ring[i].gen = gen
             THEN Clean(ring[i].units, skip[i]) /\ skip[i + 1] <= skip[i] - Len(ring[i].units)
             ELSE skip[i + 1] <= skip[i]
    BY <1>6, <1>7 DEF Skips
  <2>2. ns[1] <= IF Waiting' THEN settleLeft' ELSE 0
    <3>1. 1 \in 1 .. R + 1
      BY <1>6
    <3> QED BY <1>3, <1>13, <2>1, <3>1
  <2>3. ASSUME NEW i \in 1 .. R
        PROVE  (IF ring[i].gen = gen
                THEN Clean(ring[i].units, ns[i]) /\ ns[i + 1] <= ns[i] - Len(ring[i].units)
                ELSE ns[i + 1] <= ns[i])'
    <3>1. i \in 1 .. R + 1 /\ i + 1 \in 1 .. R + 1 /\ ring'[i] = ring[i]
      BY <1>2, <1>6
    <3>2. ns[i] = skip[i] /\ ns[i + 1] = skip[i + 1]
      BY <1>13, <3>1
    <3>3. IF ring'[i].gen = gen'
          THEN Clean(ring'[i].units, ns[i]) /\ ns[i + 1] <= ns[i] - Len(ring'[i].units)
          ELSE ns[i + 1] <= ns[i]
      BY <1>3, <2>1, <3>1, <3>2
    <3> QED BY <1>3, <3>3 DEF Clean
  <2>4. ASSUME NEW k \in 1 .. m
        PROVE  (IF ring[R + k].gen = gen
                THEN Clean(ring[R + k].units, ns[R + k]) /\ ns[R + k + 1] <= ns[R + k] - Len(ring[R + k].units)
                ELSE ns[R + k + 1] <= ns[R + k])'
    <3>1. k \in 0 .. m /\ k - 1 \in 0 .. m /\ R + (k - 1) + 1 = R + k /\ k \in 1 .. e + f
      BY <1>5, <1>6
    <3>2. ns[R + k] = last - cut[k - 1] /\ ns[R + k + 1] = last - cut[k] /\ cut[k] \in Int /\ cut[k - 1] \in Int
      BY <1>12, <1>13, <3>1
    <3>3. ring'[R + k] = (Early \o InBlocks)[k]
      BY <1>2, <1>6
    <3>4. CASE k <= e
      <4>1. ring'[R + k] = acc /\ acc.gen # gen
        <5>1. e = 1
          BY <1>1, <3>4
        <5>2. acc.gen # gen
          BY <1>1, <5>1 DEF Stale
        <5>3. (Early \o InBlocks)[k] = acc
          BY <1>4, <3>1, <3>4
        <5> QED BY <3>3, <5>2, <5>3
      <4>2. ns[R + k + 1] <= ns[R + k]
        BY SMTT(60), <1>12, <3>2, <3>4
      <4> QED BY <1>3, <4>1, <4>2
    <3>5. CASE ~(k <= e)
      <4>1. PICK b \in 1 .. f : b = k - e /\ ring'[R + k].units = FullBlocks(NewUnits)[b]
        BY <1>4, <3>1, <3>3, <3>5
      <4>2. ring'[R + k].gen = gen
        BY <1>4, <3>1, <3>3, <3>5
      <4>3. cut[k - 1] = (b - 1) * Block /\ cut[k] = cut[k - 1] + Block /\ Len(ring'[R + k].units) = Block
        BY <1>10, <1>12, <3>5, <4>1
      <4>4. ASSUME NEW j \in 1 .. Block, j > ns[R + k] PROVE ring'[R + k].units[j] = Wanted
        <5>1. PICK at : at = (b - 1) * Block + j
          OBVIOUS
        <5>2. ring'[R + k].units[j] = NewUnits[at]
          BY <1>10, <4>1, <5>1
        <5>3. /\ (b - 1) * Block \in Nat /\ b * Block = (b - 1) * Block + Block
              /\ b * Block <= f * Block /\ f * Block \in Nat
          BY <1>10
        <5>4. at \in 1 .. Len(NewUnits) /\ at > last
          <6>1. PICK from \in Nat, to \in Nat, full \in Nat :
                  from = (b - 1) * Block /\ to = b * Block /\ full = f * Block
            BY <1>5, <5>3
          <6>2. to = from + Block /\ to <= full /\ at = from + j /\ cut[k - 1] = from /\ full <= Len(NewUnits)
            BY <1>11, <4>3, <5>1, <5>3, <6>1
          <6>3. at \in Nat /\ at >= 1 /\ at <= Len(NewUnits)
            <7>1. Len(NewUnits) \in Nat
              BY <1>11
            <7>2. from + j >= 1 /\ from + j <= from + Block /\ from + Block <= Len(NewUnits)
              <8>1. from + Block <= full /\ full <= Len(NewUnits) /\ j >= 1 /\ j <= Block
                BY <1>5, <6>2
              <8> QED BY <1>5, <7>1, <8>1
            <7>3. at = from + j
              BY <6>2
            <7> QED BY <1>5, <7>1, <7>2, <7>3
          <6>4. at > last
            BY <1>5, <3>2, <4>4, <6>1, <6>2
          <6> QED BY <1>11, <6>3, <6>4
        <5> QED BY <1>9, <5>2, <5>4 DEF Clean
      <4>5. ns[R + k + 1] <= ns[R + k] - Block
        BY <1>5, <3>2, <4>3
      <4>6. Clean(ring[R + k].units, ns[R + k])'
        BY <1>3, <4>3, <4>4 DEF Clean
      <4> QED BY <1>3, <4>2, <4>3, <4>5, <4>6
    <3> QED BY <3>4, <3>5
  <2>5. ASSUME NEW i \in 1 .. Len(ring')
        PROVE  (IF ring[i].gen = gen
                THEN Clean(ring[i].units, ns[i]) /\ ns[i + 1] <= ns[i] - Len(ring[i].units)
                ELSE ns[i + 1] <= ns[i])'
    <3>1. CASE i <= R
      <4>1. i \in 1 .. R
        BY <1>6, <3>1
      <4> QED BY <2>3, <4>1
    <3>2. CASE ~(i <= R)
      <4>1. PICK k \in 1 .. m : i = R + k
        <5>1. i - R \in 1 .. m /\ i = R + (i - R)
          BY <1>2, <1>5, <1>6, <3>2
        <5> QED BY <5>1
      <4> QED BY <2>4, <4>1
    <3> QED BY <3>1, <3>2
  <2> QED BY <2>2, <2>5 DEF Skips
<1>15. CleanAhead(ns[R + m + 1])'
  <2>1. PICK final \in Int : final = ns[R + m + 1] /\ final >= last - f * Block
    <3>1. m \in 0 .. m
      BY <1>5
    <3>2. ns[R + m + 1] = last - cut[m] /\ cut[m] \in Int /\ cut[m] <= f * Block
      BY <1>12, <1>13, <3>1
    <3> QED BY SMTT(60), <1>10, <3>2
  <2>2. Clean(acc.units, final)'
    <3>1. ASSUME NEW j \in 1 .. Len(NewUnits) - f * Block, j > final PROVE Rest(NewUnits)[j] = Wanted
      <4>1. f * Block + j \in 1 .. Len(NewUnits) /\ f * Block + j > last
        <5>1. PICK full \in Nat, n \in Nat : full = f * Block /\ n = Len(NewUnits)
          BY <1>11
        <5>2. final >= last - full /\ full <= n /\ j \in 1 .. n - full
          BY <1>11, <2>1, <5>1
        <5>3. full + j \in 1 .. n /\ full + j > last
          BY <3>1, <5>2
        <5> QED BY <5>1, <5>3
      <4>2. Rest(NewUnits)[j] = NewUnits[f * Block + j]
        BY <1>10
      <4> QED BY <1>9, <4>1, <4>2 DEF Clean
    <3>2. acc'.units = Rest(NewUnits)
      BY <1>3
    <3> QED BY <1>3, <1>10, <3>1, <3>2 DEF Clean
  <2>3. PICK near \in Int : near = final - Len(Rest(NewUnits)) /\ near >= Uncoalesced(last) - Transfer
    <3>1. PICK full \in Nat, n \in Nat : full = f * Block /\ n = Len(NewUnits)
      BY <1>11
    <3>2. Len(Rest(NewUnits)) = n - full /\ final >= last - full /\ Uncoalesced(last) - Transfer = last - n
      BY <1>9, <1>11, <2>1, <3>1
    <3> QED BY <3>2
  <2>4. Uncoalesced(final)' = near
    BY <1>3, <2>3 DEF Uncoalesced
  <2>5. Ahead(near)'
    <3>1. PICK left \in Int : left = Uncoalesced(last) /\ Ahead(left)
      BY <1>7, <1>8, <1>9 DEF CleanAhead
    <3>2. near >= left - Transfer
      BY <2>3, <3>1
    <3> QED BY <1>3, <3>1, <3>2, AheadTail
  <2> QED BY <2>1, <2>2, <2>4, <2>5 DEF CleanAhead
<1>16. ns \in [1 .. Len(ring') + 1 -> Int] /\ ns[Len(ring') + 1] = ns[R + m + 1]
  BY <1>2, <1>6, <1>13
<1> QED BY <1>14, <1>15, <1>16 DEF CleanBehind

-----------------------------------------------------------------------------
(* The loop: a retune sets the settle, and blocks are taken one by one.      *)

\* All that was captured before a retune, and while the device settles, is within the settle.
LEMMA BumpClean ==
  ASSUME LoopTypes, CmdsInOrder, TuneKnown, GensInOrder, Bump
  PROVE  CleanBehind' /\ Waiting' /\ Wanted' = Head(cmds).id
<1>1. /\ cmds # <<>> /\ Head(cmds).id = Wanted + 1 /\ Wanted \in Nat
  BY NextTune DEF Bump, TuneKnown
<1>2. Waiting' /\ Wanted' = Head(cmds).id
  <2>1. pending' = [id |-> Head(cmds).id, known |-> Head(cmds).known]
    BY DEF Bump
  <2>2. pending'.id # 0 /\ pending'.id = Head(cmds).id
    BY <1>1, <2>1
  <2> QED BY <2>2 DEF Waiting, Wanted, NoTune
<1>3. gen' = gen + 1 /\ settleLeft' = Settle /\ UNCHANGED <<ring, acc, usb, filling, device>>
  BY DEF Bump, SettleSamples, device_
<1>4. PICK R \in Nat, n \in Nat : R = Len(ring) /\ n = Len(usb)
  <2>1. ring \in Seq(BlockType) /\ usb \in Seq(Seq(Units))
    BY DEF LoopTypes
  <2>2. Len(ring) \in Nat /\ Len(usb) \in Nat
    BY <2>1
  <2> QED BY <2>2
<1>5. /\ acc.gen \in Nat /\ gen \in Nat /\ acc.gen <= gen
      /\ \A i \in 1 .. R : ring[i].gen \in Nat /\ ring[i].gen <= acc.gen
  <2>1. acc \in BlockType /\ gen \in Nat /\ \A i \in 1 .. R : ring[i] \in BlockType
    BY <1>4 DEF LoopTypes
  <2> QED BY <1>4, <2>1 DEF GensInOrder, BlockType
<1>6. /\ n * Transfer + (Transfer - 1) + Pll <= Settle
      /\ n * Transfer \in Nat /\ Transfer \in Nat \ {0} /\ Pll \in Nat /\ Settle \in Nat
  <2>1. n <= Backlog /\ Backlog \in Nat
    BY <1>4, Sizes DEF LoopTypes
  <2>2. n * Transfer <= Backlog * Transfer /\ n * Transfer \in Nat /\ Backlog * Transfer \in Nat
    BY <2>1, Sizes, Times
  <2> QED BY <2>2, Sizes
<1>7. PICK skip \in [1 .. R + 1 -> Int] : \A i \in 1 .. R + 1 : skip[i] = Settle
  <2> DEFINE s == [i \in 1 .. R + 1 |-> Settle]
  <2>1. s \in [1 .. R + 1 -> Int] /\ \A i \in 1 .. R + 1 : s[i] = Settle
    BY <1>6
  <2> QED BY <2>1
<1>8. Skips(skip)'
  <2>1. skip[1] = Settle
    BY <1>7
  <2>2. ASSUME NEW i \in 1 .. R PROVE ring'[i].gen # gen' /\ skip[i + 1] <= skip[i]
    <3>1. i \in 1 .. R + 1 /\ i + 1 \in 1 .. R + 1
      OBVIOUS
    <3>2. skip[i + 1] <= skip[i]
      BY <1>6, <1>7, <3>1
    <3>3. ring[i].gen <= gen /\ ring[i].gen \in Nat
      BY <1>5
    <3> QED BY <1>3, <1>5, <3>2, <3>3
  <2> QED BY <1>2, <1>3, <1>4, <1>6, <2>1, <2>2 DEF Skips
<1>9. Ahead(Settle)'
  <2>1. ASSUME NEW t \in 1 .. n PROVE Clean(usb[t], Settle - (t - 1) * Transfer)'
    <3>1. Len(usb[t]) = Transfer
      BY <1>4 DEF LoopTypes
    <3>2. t - 1 \in Nat /\ t \in Nat /\ (t - 1) + 1 = t /\ t <= n
      OBVIOUS
    <3>3. /\ t * Transfer = (t - 1) * Transfer + Transfer
          /\ t * Transfer <= n * Transfer /\ (t - 1) * Transfer \in Nat
      BY <1>6, <3>2, Times
    <3>4. Transfer <= Settle - (t - 1) * Transfer
      BY <1>6, <3>3
    <3>5. \A j \in 1 .. Transfer : ~(j > Settle - (t - 1) * Transfer)
      BY <1>6, <3>3, <3>4
    <3> QED BY <1>3, <3>1, <3>5 DEF Clean
  <2>2. Clean(filling, Settle - Len(usb) * Transfer)'
    <3>1. Len(filling) < Transfer /\ Len(filling) \in Nat
      BY DEF LoopTypes
    <3>2. \A j \in 1 .. Len(filling) : ~(j > Settle - n * Transfer)
      BY <1>6, <3>1
    <3> QED BY <1>3, <1>4, <3>2 DEF Clean
  <2>3. (Len(usb) * Transfer + Len(filling) + device.moving <= Settle)'
    <3>1. Len(filling) < Transfer /\ Len(filling) \in Nat /\ device.moving \in 0 .. Pll
      BY DEF LoopTypes
    <3> QED BY SMTT(60), <1>3, <1>4, <1>6, <3>1
  <2> QED BY <1>3, <1>4, <2>1, <2>2, <2>3 DEF Ahead
<1>10. CleanAhead(Settle)'
  <2>1. acc'.gen # gen'
    BY <1>3, <1>5
  <2> QED BY <1>9, <2>1 DEF CleanAhead, Uncoalesced
<1>11. skip[Len(ring') + 1] = Settle /\ skip \in [1 .. Len(ring') + 1 -> Int]
  BY <1>3, <1>4, <1>7
<1> QED BY <1>2, <1>8, <1>10, <1>11 DEF CleanBehind

\* Once the first block is taken the others are one place nearer.
LEMMA Shifted ==
  ASSUME LoopTypes, ring # <<>>, ring' = Tail(ring), UNCHANGED <<acc, gen, usb, filling, device>>,
         Wanted' = Wanted, NEW skip \in [1 .. Len(ring) + 1 -> Int], Skips(skip),
         CleanAhead(skip[Len(ring) + 1]), skip[2] <= (IF Waiting THEN settleLeft ELSE 0)'
  PROVE  CleanBehind'
<1>1. PICK R \in Nat \ {0} : R = Len(ring)
  <2>1. ring \in Seq(BlockType)
    BY DEF LoopTypes
  <2>2. Len(ring) \in Nat \ {0}
    BY <2>1
  <2> QED BY <2>2
<1>2. Len(ring') = R - 1 /\ \A i \in 1 .. R - 1 : ring'[i] = ring[i + 1]
  BY <1>1 DEF LoopTypes
<1>3. PICK rest \in [1 .. R -> Int] : \A i \in 1 .. R : rest[i] = skip[i + 1]
  <2> DEFINE s == [i \in 1 .. R |-> skip[i + 1]]
  <2>1. s \in [1 .. R -> Int] /\ \A i \in 1 .. R : s[i] = skip[i + 1]
    BY <1>1
  <2> QED BY <2>1
<1>4. Skips(rest)'
  <2>1. rest[1] = skip[2]
    BY <1>1, <1>3
  <2>2. ASSUME NEW i \in 1 .. R - 1
        PROVE  (IF ring[i].gen = gen
                THEN Clean(ring[i].units, rest[i]) /\ rest[i + 1] <= rest[i] - Len(ring[i].units)
                ELSE rest[i + 1] <= rest[i])'
    <3>1. i \in 1 .. R /\ i + 1 \in 1 .. R /\ ring'[i] = ring[i + 1]
      BY <1>1, <1>2
    <3>2. rest[i] = skip[i + 1] /\ rest[i + 1] = skip[(i + 1) + 1]
      BY <1>3, <3>1
    <3>3. IF ring'[i].gen = gen'
          THEN Clean(ring'[i].units, rest[i]) /\ rest[i + 1] <= rest[i] - Len(ring'[i].units)
          ELSE rest[i + 1] <= rest[i]
      BY <1>1, <3>1, <3>2 DEF Skips
    <3> QED BY <3>3 DEF Clean
  <2> QED BY <1>2, <2>1, <2>2 DEF Skips
<1>5. rest[Len(ring') + 1] = skip[R + 1] /\ rest \in [1 .. Len(ring') + 1 -> Int]
  BY <1>1, <1>2, <1>3
<1>6. PICK last \in Int : last = skip[R + 1]
  BY <1>1
<1>7. CleanAhead(last)'
  <2>1. CleanAhead(last)
    BY <1>1, <1>6
  <2> QED BY <2>1 DEF CleanAhead, Ahead, Uncoalesced, Clean
<1> QED BY <1>4, <1>5, <1>6, <1>7 DEF CleanBehind

\* A block is demodulated only when no unit of it is still to be discarded.
LEMMA BlockTaken ==
  ASSUME LoopTypes, TuneKnown, GensInOrder, CleanBehind, TakeBlock
  PROVE  /\ CleanBehind' /\ GensInOrder' /\ Wanted' = Wanted
         /\ \/ UNCHANGED <<pending, engine, heard>>
            \/ ~Waiting /\ UNCHANGED <<pending, engine>> /\ engine.window # 0 /\ heard' = {engine.window}
            \/ /\ Waiting /\ pending' = NoTune
               /\ engine' = [window |-> pending.id, known |-> pending.known] /\ heard' = {pending.id}
<1> DEFINE b == Head(ring)
<1>1. PICK R \in Nat \ {0} : R = Len(ring) /\ b = ring[1] /\ b \in BlockType /\ b.units # <<>>
  <2>1. ring \in Seq(BlockType) /\ ring # <<>>
    BY DEF LoopTypes, TakeBlock
  <2>2. Len(ring) \in Nat \ {0} /\ b = ring[1] /\ b \in BlockType
    BY <2>1
  <2>3. ring[1].units # <<>>
    BY <2>2 DEF LoopTypes
  <2> QED BY <2>2, <2>3
<1>2. PICK skip \in [1 .. R + 1 -> Int] : Skips(skip) /\ CleanAhead(skip[R + 1])
  BY <1>1 DEF CleanBehind
<1>3. /\ ring # <<>> /\ ring' = Tail(ring)
      /\ UNCHANGED <<acc, gen, usb, filling, device>> /\ wantGen = gen
  BY DEF TakeBlock, device_, TuneKnown
<1>4. /\ skip[1] <= IF Waiting THEN settleLeft ELSE 0
      /\ IF b.gen = gen THEN Clean(b.units, skip[1]) /\ skip[2] <= skip[1] - Len(b.units)
                        ELSE skip[2] <= skip[1]
  <2>1. 1 \in 1 .. R /\ 1 + 1 = 2
    BY <1>1
  <2> QED BY <1>1, <1>2, <2>1 DEF Skips
<1>5. /\ b.gen \in Nat /\ gen \in Nat /\ acc.gen \in Nat /\ settleLeft \in Int /\ b.units \in Seq(Units)
      /\ Len(b.units) \in Nat \ {0} /\ skip[1] \in Int /\ skip[2] \in Int
  <2>1. acc \in BlockType /\ gen \in Nat /\ settleLeft \in Int
    BY DEF LoopTypes
  <2>2. 1 \in 1 .. R + 1 /\ 2 \in 1 .. R + 1
    BY <1>1
  <2> QED BY <1>1, <1>2, <2>1, <2>2 DEF BlockType
<1>6. /\ b.gen <= acc.gen /\ acc.gen <= gen /\ (~Waiting => b.gen = gen)
      /\ \A i \in 1 .. R : b.gen <= ring[i].gen /\ ring[i].gen <= acc.gen /\ ring[i].gen \in Nat
  <2>1. \A i \in 1 .. R : ring[i] \in BlockType
    BY <1>1 DEF LoopTypes
  <2>2. 1 \in 1 .. R
    BY <1>1
  <2> QED BY <1>1, <2>1, <2>2 DEF GensInOrder, BlockType
\* Those behind the block keep their order; when none is awaited they are the current ones.
<1>7. ASSUME Waiting' => Waiting, Waiting /\ ~Waiting' => b.gen = gen PROVE GensInOrder'
  <2>1. Len(ring') = R - 1 /\ \A i \in 1 .. R - 1 : ring'[i] = ring[i + 1] /\ i + 1 \in 1 .. R
    BY <1>1, <1>3, SMTT(30) DEF LoopTypes
  <2>2. \A i, j \in 1 .. R : i <= j => ring[i].gen <= ring[j].gen
    BY <1>1 DEF GensInOrder
  <2>3. \A i \in 1 .. R - 1 : ring'[i].gen <= acc.gen
    BY <1>6, <2>1
  <2>4. ASSUME NEW i \in 1 .. R - 1, NEW j \in 1 .. R - 1, i <= j PROVE ring'[i].gen <= ring'[j].gen
    <3>1. i + 1 <= j + 1
      BY <1>1, <2>4
    <3> QED BY <2>1, <2>2, <3>1
  <2>5. ~Waiting' => b.gen = gen
    BY <1>6, <1>7
  <2>6. ~Waiting' => acc.gen = gen /\ \A i \in 1 .. R - 1 : ring'[i].gen = gen
    <3> SUFFICES ASSUME ~Waiting' PROVE acc.gen = gen /\ \A i \in 1 .. R - 1 : ring'[i].gen = gen
      OBVIOUS
    <3>1. b.gen = gen
      BY <2>5
    <3>2. acc.gen = gen
      BY <1>5, <1>6, <3>1
    <3>3. ASSUME NEW i \in 1 .. R - 1 PROVE ring'[i].gen = gen
      <4>1. ring'[i] = ring[i + 1] /\ i + 1 \in 1 .. R
        BY <2>1
      <4>2. b.gen <= ring[i + 1].gen /\ ring[i + 1].gen <= acc.gen /\ ring[i + 1].gen \in Nat
        BY <1>6, <4>1
      <4> HIDE DEF b
      <4> QED BY <1>5, <3>1, <3>2, <4>1, <4>2
    <3> QED BY <3>2, <3>3
  <2> QED BY <1>3, <1>6, <2>1, <2>3, <2>4, <2>6 DEF GensInOrder
\* The block's units are all of the window once nothing is left to be discarded.
<1>8. ASSUME b.gen = gen, skip[1] <= 0 PROVE Range(b.units) = {Wanted}
  <2>1. \A j \in 1 .. Len(b.units) : b.units[j] = Wanted
    BY <1>4, <1>5, <1>8 DEF Clean
  <2>2. DOMAIN b.units = 1 .. Len(b.units) /\ 1 \in 1 .. Len(b.units)
    BY SMTT(60), <1>5
  <2> QED BY <2>1, <2>2 DEF Range
<1>9. CASE Discard(b)
  <2>1. Waiting /\ b.gen < gen /\ UNCHANGED <<pending, settleLeft, engine, heard>>
    BY <1>3, <1>9 DEF Discard, Skipped
  <2>2. Wanted' = Wanted /\ Waiting'
    BY <2>1 DEF Wanted, Waiting
  <2>3. skip[2] <= (IF Waiting THEN settleLeft ELSE 0)'
    BY SMTT(60), <1>4, <1>5, <2>1, <2>2
  <2>4. CleanBehind'
    BY <1>1, <1>2, <1>3, <2>2, <2>3, Shifted
  <2> QED BY <1>7, <2>1, <2>2, <2>4
<1>10. CASE SettleOn(b)
  <2>1. /\ Waiting /\ b.gen >= gen /\ UNCHANGED <<pending, engine, heard>>
        /\ settleLeft' = settleLeft - Len(b.units)
    BY <1>3, <1>10 DEF SettleOn, Settling, LeftAfter
  <2>2. Wanted' = Wanted /\ Waiting' /\ b.gen = gen
    BY SMTT(60), <1>5, <1>6, <2>1 DEF Wanted, Waiting
  <2>3. skip[2] <= (IF Waiting THEN settleLeft ELSE 0)'
    BY SMTT(60), <1>4, <1>5, <2>1, <2>2
  <2>4. CleanBehind'
    BY <1>1, <1>2, <1>3, <2>2, <2>3, Shifted
  <2> QED BY <1>7, <2>1, <2>2, <2>4
<1>11. CASE Apply(b)
  <2>1. /\ Waiting /\ b.gen >= gen /\ settleLeft <= 0 /\ pending' = NoTune /\ heard' = Range(b.units)
        /\ engine' = [window |-> pending.id, known |-> pending.known]
    BY <1>3, <1>11 DEF Apply, Arrives, Heard
  <2>2. Wanted = pending.id /\ Wanted' = Wanted /\ ~Waiting' /\ b.gen = gen
    BY <1>5, <1>6, <2>1 DEF Wanted, Waiting
  <2>3. skip[1] <= 0 /\ skip[2] <= (IF Waiting THEN settleLeft ELSE 0)'
    BY SMTT(60), <1>4, <1>5, <2>1, <2>2
  <2>4. CleanBehind'
    BY <1>1, <1>2, <1>3, <2>2, <2>3, Shifted
  <2> QED BY <1>7, <1>8, <2>1, <2>2, <2>3, <2>4
<1>12. CASE Push(b)
  <2>1. /\ ~Waiting /\ UNCHANGED <<pending, settleLeft, engine>>
        /\ IF engine.window # 0 THEN heard' = Range(b.units) ELSE heard' = heard
    BY <1>12 DEF Push, Heard
  <2>2. Wanted = engine.window /\ Wanted' = Wanted /\ ~Waiting' /\ b.gen = gen
    BY <1>6, <2>1 DEF Wanted, Waiting
  <2>3. skip[1] <= 0 /\ skip[2] <= (IF Waiting THEN settleLeft ELSE 0)'
    BY <1>4, <1>5, <2>1, <2>2
  <2>4. CleanBehind'
    BY <1>1, <1>2, <1>3, <2>2, <2>3, Shifted
  <2>5. GensInOrder'
    BY <1>7, <2>1, <2>2
  <2> QED BY <1>8, <2>1, <2>2, <2>3, <2>4, <2>5
<1> QED BY <1>9, <1>10, <1>11, <1>12 DEF TakeBlock

-----------------------------------------------------------------------------
(* Every step keeps the invariant.                                          *)

\* The window asked for changes with pending and engine only.
LEMMA SameWanted ==
  ASSUME pending' = pending, engine' = engine
  PROVE  Wanted' = Wanted /\ Waiting' = Waiting
BY DEF Wanted, Waiting

\* Commands queued by the reader.
LEMMA ReaderKeeps == ASSUME LoopInv, Reader PROVE LoopInv'
<1> USE DEF LoopInv
<1>1. PICK c \in CmdType :
        /\ cmds' = Append(cmds, c) /\ sent' \in [tunes : 0..MaxTunes, known : 0..MaxKnown]
        /\ sent'.tunes = IF c.cmd = "tune" THEN sent.tunes + 1 ELSE sent.tunes
        /\ c.cmd = "tune" => c.id = sent.tunes + 1
  <2>1. /\ sent \in [tunes : 0..MaxTunes, known : 0..MaxKnown] /\ MaxTunes \in Nat /\ MaxKnown \in Nat
        /\ sent.tunes \in 0..MaxTunes /\ sent.known \in 0..MaxKnown
    BY Sizes DEF LoopTypes
  <2>2. CASE SendTune
    <3>1. /\ sent.tunes < MaxTunes /\ cmds' = Append(cmds, TuneCmd(sent.tunes + 1, Stamp))
          /\ sent' = [sent EXCEPT !.tunes = @ + 1]
      BY <2>2 DEF SendTune
    <3>2. Stamp \in Lists /\ sent.tunes + 1 \in 0..MaxTunes
      BY <2>1, <3>1 DEF Stamp, Lists
    <3>3. TuneCmd(sent.tunes + 1, Stamp) \in CmdType
      BY <3>2 DEF TuneCmd, CmdType
    <3> QED BY <2>1, <3>1, <3>2, <3>3 DEF TuneCmd
  <2>3. CASE SendKnown
    <3>1. /\ sent.known < MaxKnown /\ cmds' = Append(cmds, KnownCmd(Stamp))
          /\ sent' = [sent EXCEPT !.known = @ + 1]
      BY <2>3 DEF SendKnown
    <3>2. Stamp \in Lists /\ sent.known + 1 \in 0..MaxKnown
      BY <2>1, <3>1 DEF Stamp, Lists
    <3>3. KnownCmd(Stamp) \in CmdType
      BY <2>1, <3>2 DEF KnownCmd, CmdType
    <3> QED BY <2>1, <3>1, <3>2, <3>3 DEF KnownCmd
  <2> QED BY <2>2, <2>3 DEF Reader
<1>2. UNCHANGED <<device, alive, filling, usb, gen, acc, ring, pc, pending, wantGen, settleLeft,
                  engine, latest, heard>>
  BY DEF Reader, SendTune, SendKnown, device_, source_, loop_
<1>3. Wanted' = Wanted /\ Waiting' = Waiting
  BY <1>2, SameWanted
<1>4. LoopTypes'
  <2>1. cmds' \in Seq(CmdType)
    BY <1>1 DEF LoopTypes
  <2> QED BY <1>1, <1>2, <2>1 DEF LoopTypes
<1>5. CmdsInOrder'
  BY <1>1, <1>3, Queued
<1>6. TuneKnown'
  <2>1. cmds # <<>> => cmds' # <<>> /\ Head(cmds') = Head(cmds)
    <3>1. cmds \in Seq(CmdType)
      BY DEF LoopTypes
    <3> QED BY <1>1, <3>1
  <2> QED BY <1>2, <1>3, <2>1 DEF TuneKnown
<1>7. GensInOrder' /\ CleanWindow'
  BY <1>2, <1>3 DEF GensInOrder, CleanWindow
<1>8. pc' # "bump" => CleanBehind'
  BY <1>2, <1>3, SameStream
<1> QED BY <1>4, <1>5, <1>6, <1>7, <1>8

\* Commands that stay, and a window asked for that stays, keep their order and what is known.
LEMMA SameCommands ==
  ASSUME LoopInv, UNCHANGED <<cmds, sent, device, pending, engine, latest, wantGen, gen>>,
         pc' = "bump" => pc = "bump", pc = "bump" => pc' = "bump"
  PROVE  CmdsInOrder' /\ TuneKnown' /\ Wanted' = Wanted /\ Waiting' = Waiting
<1>1. Wanted' = Wanted /\ Waiting' = Waiting
  BY SameWanted
<1>2. CmdsInOrder'
  BY <1>1 DEF LoopInv, CmdsInOrder, Counted
<1>3. TuneKnown'
  BY <1>1 DEF LoopInv, TuneKnown
<1> QED BY <1>1, <1>2, <1>3

\* A unit captured.
LEMMA CaptureKeeps == ASSUME LoopInv, Capture PROVE LoopInv'
<1> USE DEF LoopInv
<1>1. UNCHANGED <<cmds, sent, gen, acc, ring, pc, pending, wantGen, settleLeft, engine, latest, heard>>
  BY DEF Capture, loop_
<1>2. device' = [device EXCEPT !.moving = IF @ > 0 THEN @ - 1 ELSE 0]
  BY DEF Capture
<1>3. Wanted' = Wanted /\ Waiting' = Waiting
  BY <1>1, SameWanted
<1>4. LoopTypes'
  <2>1. /\ device \in [center : 0..MaxTunes, moving : 0..Pll] /\ Pll \in Nat /\ Transfer \in Nat \ {0}
        /\ filling \in Seq(Units) /\ Len(filling) < Transfer
        /\ usb \in Seq(Seq(Units)) /\ Len(usb) <= Backlog /\ Backlog \in Nat
        /\ \A t \in 1 .. Len(usb) : Len(usb[t]) = Transfer
    BY Sizes DEF LoopTypes
  <2>2. device' \in [center : 0..MaxTunes, moving : 0..Pll]
    <3>1. device.moving \in 0..Pll
      BY <2>1
    <3>2. (IF device.moving > 0 THEN device.moving - 1 ELSE 0) \in 0..Pll
      BY <2>1, <3>1
    <3> QED BY <1>2, <2>1, <3>2
  <2> DEFINE unit == IF device.moving > 0 THEN Moving ELSE device.center
             got == Append(filling, unit)
  <2>3. unit \in Units
    BY <2>1 DEF Units
  <2>4. got \in Seq(Units) /\ Len(got) = Len(filling) + 1 /\ Len(filling) \in Nat
    <3> HIDE DEF unit
    <3> QED BY <2>1, <2>3
  <2>5. \/ Len(got) < Transfer /\ filling' = got /\ usb' = usb
        \/ ~(Len(got) < Transfer) /\ Len(usb) < Backlog /\ filling' = <<>> /\ usb' = Append(usb, got)
    BY DEF Capture
  <2> HIDE DEF got
  <2>6. /\ filling' \in Seq(Units) /\ Len(filling') < Transfer
        /\ usb' \in Seq(Seq(Units)) /\ Len(usb') <= Backlog
        /\ \A t \in 1 .. Len(usb') : Len(usb'[t]) = Transfer
    <3>1. CASE Len(got) < Transfer /\ filling' = got /\ usb' = usb
      BY <2>1, <2>4, <3>1
    <3>2. CASE ~(Len(got) < Transfer) /\ Len(usb) < Backlog /\ filling' = <<>> /\ usb' = Append(usb, got)
      <4>1. Len(got) = Transfer
        BY <2>1, <2>4, <3>2
      <4>2. /\ usb' \in Seq(Seq(Units)) /\ Len(usb') = Len(usb) + 1 /\ usb'[Len(usb) + 1] = got
            /\ \A t \in 1 .. Len(usb) : usb'[t] = usb[t]
        BY <2>1, <2>4, <3>2
      <4>3. Len(usb) \in Nat
        BY <2>1
      <4>4. ASSUME NEW t \in 1 .. Len(usb') PROVE Len(usb'[t]) = Transfer
        <5>1. CASE t = Len(usb) + 1
          BY <4>1, <4>2, <5>1
        <5>2. CASE t # Len(usb) + 1
          <6>1. t \in 1 .. Len(usb)
            BY <4>2, <4>3, <5>2
          <6> QED BY <2>1, <4>2, <6>1
        <5> QED BY <5>1, <5>2
      <4>5. filling' \in Seq(Units) /\ Len(filling') < Transfer
        BY <2>1, <3>2
      <4>6. Len(usb') <= Backlog
        BY <2>1, <3>2, <4>2, <4>3
      <4> QED BY <4>2, <4>4, <4>5, <4>6
    <3> QED BY <2>5, <3>1, <3>2
  <2> QED BY <1>1, <2>2, <2>6 DEF LoopTypes
<1>5. CmdsInOrder' /\ GensInOrder' /\ CleanWindow'
  BY <1>1, <1>3 DEF CmdsInOrder, Counted, GensInOrder, CleanWindow
<1>6. TuneKnown'
  <2>1. device'.center = device.center
    BY <1>2 DEF LoopTypes
  <2> QED BY <1>1, <1>3, <2>1 DEF TuneKnown
<1>7. pc' # "bump" => CleanBehind'
  BY <1>1, Captured DEF TuneKnown
<1> QED BY <1>4, <1>5, <1>6, <1>7

\* A transfer handed to the callback.
LEMMA OnSamplesKeeps == ASSUME LoopInv, OnSamples PROVE LoopInv'
<1> USE DEF LoopInv
<1>1. UNCHANGED <<cmds, sent, device, gen, pc, pending, wantGen, engine, latest, heard>>
  BY DEF OnSamples, device_, loop_
<1>2. CmdsInOrder' /\ TuneKnown'
  BY <1>1, SameCommands
<1>3. CleanWindow'
  BY <1>1 DEF CleanWindow
<1>4. LoopTypes' /\ GensInOrder'
  BY PublishTypes
<1>5. pc' # "bump" => CleanBehind'
  BY <1>1, PublishClean
<1> QED BY <1>2, <1>3, <1>4, <1>5

\* Steps that move neither a sample nor a command.
LEMMA IdleKeeps ==
  ASSUME LoopInv,
         UNCHANGED <<cmds, sent, device, filling, usb, gen, acc, ring, pending, wantGen, settleLeft,
                     engine, latest, heard>>,
         pc' = "bump" => pc = "bump", pc = "bump" => pc' = "bump"
  PROVE  LoopInv'
<1> USE DEF LoopInv
<1>1. CmdsInOrder' /\ TuneKnown' /\ Wanted' = Wanted /\ Waiting' = Waiting
  BY SameCommands
<1>2. LoopTypes' /\ GensInOrder' /\ CleanWindow'
  BY <1>1 DEF LoopTypes, GensInOrder, CleanWindow
<1>3. pc' # "bump" => CleanBehind'
  BY <1>1, SameStream
<1> QED BY <1>1, <1>2, <1>3

\* The device is moved before the generation is counted.
LEMMA SetCenterKeeps == ASSUME LoopInv, SetCenter PROVE LoopInv'
<1> USE DEF LoopInv
<1>1. /\ UNCHANGED <<cmds, sent, filling, usb, gen, acc, ring, pending, wantGen, settleLeft, engine,
                     latest, heard>>
      /\ device' = [center |-> Head(cmds).id, moving |-> Pll] /\ pc' = "bump"
      /\ cmds # <<>> /\ Head(cmds).cmd = "tune"
  BY DEF SetCenter, Draining, source_
<1>2. Wanted' = Wanted /\ Waiting' = Waiting
  BY <1>1, SameWanted
<1>3. LoopTypes'
  <2>1. Head(cmds) \in CmdType
    BY <1>1 DEF LoopTypes
  <2>2. device' \in [center : 0..MaxTunes, moving : 0..Pll]
    BY <1>1, <2>1, Sizes DEF CmdType
  <2> QED BY <1>1, <2>2 DEF LoopTypes
<1>4. CmdsInOrder' /\ GensInOrder' /\ CleanWindow'
  BY <1>1, <1>2 DEF CmdsInOrder, Counted, GensInOrder, CleanWindow
<1>5. TuneKnown'
  BY <1>1, <1>2 DEF TuneKnown
<1> QED BY <1>1, <1>3, <1>4, <1>5

\* The next generation waits for the samples of its tune.
LEMMA BumpKeeps == ASSUME LoopInv, Bump PROVE LoopInv'
<1> USE DEF LoopInv
<1>1. CleanBehind' /\ Waiting' /\ Wanted' = Head(cmds).id
  BY BumpClean
<1>2. /\ gen' = gen + 1 /\ wantGen' = gen + 1 /\ settleLeft' = Settle /\ latest' = Head(cmds).known
      /\ pending' = [id |-> Head(cmds).id, known |-> Head(cmds).known]
      /\ cmds' = Tail(cmds) /\ pc = "bump" /\ pc' = "drain"
      /\ UNCHANGED <<sent, device, filling, usb, acc, ring, engine, heard>>
  BY DEF Bump, SettleSamples, device_
<1>3. cmds # <<>> /\ Head(cmds).cmd = "tune" /\ device.center = Head(cmds).id
  BY <1>2 DEF TuneKnown
<1>4. Head(cmds) \in CmdType /\ cmds' \in Seq(CmdType)
  BY <1>2, <1>3 DEF LoopTypes
<1>5. Head(cmds).id \in 0..MaxTunes /\ Head(cmds).known \in Lists
  BY <1>4 DEF CmdType
<1>6. LoopTypes'
  <2>1. /\ pending' \in [id : 0..MaxTunes, known : AnyList] /\ latest' \in AnyList
        /\ settleLeft' \in Int /\ gen' \in Nat
    BY SMTT(60), <1>2, <1>5, Sizes DEF AnyList, LoopTypes
  <2> QED BY <1>2, <1>4, <2>1 DEF LoopTypes
<1>7. CmdsInOrder'
  BY <1>1, <1>2, <1>3, Taken
<1>8. TuneKnown'
  <2>1. Head(cmds).id = Wanted + 1 /\ Wanted \in Nat
    BY <1>3, NextTune
  <2>2. engine.window <= Wanted /\ engine.window \in Nat
    BY <2>1, Sizes, SMTT(30) DEF TuneKnown, Wanted, LoopTypes
  <2>3. pending'.id \in 1..MaxTunes /\ engine'.window < pending'.id
    BY <1>2, <1>5, <2>1, <2>2, Sizes
  <2> QED BY <1>1, <1>2, <1>3, <2>3 DEF TuneKnown
<1>9. GensInOrder' /\ CleanWindow'
  <2>1. gen \in Nat /\ acc.gen \in Nat
    BY DEF LoopTypes, BlockType
  <2>2. acc'.gen <= gen'
    BY <1>2, <2>1 DEF GensInOrder
  <2> QED BY <1>1, <1>2, <2>2 DEF GensInOrder, CleanWindow
<1> QED BY <1>1, <1>6, <1>7, <1>8, <1>9

\* A list by itself is given to the tune that waits, which stays the one waited for.
LEMMA KnownKeeps == ASSUME LoopInv, Known PROVE LoopInv' /\ Wanted' = Wanted /\ Waiting' = Waiting
<1> USE DEF LoopInv
<1> DEFINE k == Head(cmds).known
<1>1. /\ UNCHANGED <<sent, device, filling, usb, gen, acc, ring, pc, wantGen, settleLeft, heard>>
      /\ engine' = [engine EXCEPT !.known = k] /\ pending' = Folded(k) /\ latest' = k
      /\ cmds # <<>> /\ Head(cmds).cmd = "known" /\ cmds' = Tail(cmds) /\ pc = "drain"
  BY DEF Known, Draining, device_, source_
<1>2. Head(cmds) \in CmdType /\ cmds' \in Seq(CmdType)
  BY <1>1 DEF LoopTypes
<1>3. k \in AnyList
  BY <1>2 DEF CmdType, AnyList
<1>4. pending \in [id : 0..MaxTunes, known : AnyList] /\ engine \in [window : 0..MaxTunes, known : AnyList]
  BY DEF LoopTypes
<1> HIDE DEF k
<1>5. engine' \in [window : 0..MaxTunes, known : AnyList] /\ engine'.window = engine.window
  BY <1>1, <1>3, <1>4
<1>6. /\ pending' \in [id : 0..MaxTunes, known : AnyList]
      /\ Waiting' = Waiting /\ (Waiting => pending'.id = pending.id /\ pending'.known = k)
  <2>1. CASE Waiting
    <3>1. pending' = [pending EXCEPT !.known = k] /\ pending.id \in 1..MaxTunes
      BY <1>1, <2>1 DEF Folded, TuneKnown
    <3>2. pending'.id = pending.id /\ pending'.known = k /\ pending' \in [id : 0..MaxTunes, known : AnyList]
      BY <1>3, <1>4, <3>1
    <3>3. pending'.id # 0
      BY <3>1, <3>2, Sizes
    <3> QED BY <2>1, <3>2, <3>3 DEF Waiting, NoTune
  <2>2. CASE ~Waiting
    BY <1>1, <1>4, <2>2 DEF Folded, Waiting
  <2> QED BY <2>1, <2>2
<1>7. Wanted' = Wanted
  BY <1>5, <1>6 DEF Wanted
<1>8. LoopTypes'
  BY <1>1, <1>2, <1>3, <1>5, <1>6 DEF LoopTypes
<1>9. CmdsInOrder'
  BY <1>1, <1>7, Taken
<1>10. TuneKnown'
  BY <1>1, <1>5, <1>6, <1>7 DEF TuneKnown
<1>11. GensInOrder' /\ CleanWindow'
  BY <1>1, <1>5, <1>6 DEF GensInOrder, CleanWindow
<1>12. CleanBehind'
  BY <1>1, <1>6, <1>7, SameStream
<1> QED BY <1>6, <1>7, <1>8, <1>9, <1>10, <1>11, <1>12

\* What becomes of a block.
LEMMA TakeKeeps == ASSUME LoopInv, TakeBlock PROVE LoopInv'
<1> USE DEF LoopInv
<1>1. /\ UNCHANGED <<cmds, sent, device, filling, usb, gen, acc, wantGen, latest>>
      /\ ring # <<>> /\ ring' = Tail(ring) /\ pc = "take" /\ pc' = "drain"
  BY DEF TakeBlock, device_
<1>2. /\ CleanBehind' /\ GensInOrder' /\ Wanted' = Wanted
      /\ \/ UNCHANGED <<pending, engine, heard>>
         \/ ~Waiting /\ UNCHANGED <<pending, engine>> /\ engine.window # 0 /\ heard' = {engine.window}
         \/ /\ Waiting /\ pending' = NoTune
            /\ engine' = [window |-> pending.id, known |-> pending.known] /\ heard' = {pending.id}
  BY <1>1, BlockTaken
<1>3. CmdsInOrder'
  BY <1>1, <1>2 DEF CmdsInOrder, Counted
<1>4. settleLeft' \in Int
  <2>1. Head(ring) \in BlockType /\ settleLeft \in Int
    BY <1>1 DEF LoopTypes
  <2>2. Len(Head(ring).units) \in Nat
    BY <2>1 DEF BlockType
  <2>3. settleLeft' = settleLeft \/ settleLeft' = settleLeft - Len(Head(ring).units)
    BY DEF TakeBlock, Discard, SettleOn, Apply, Push, LeftAfter
  <2> QED BY <2>1, <2>2, <2>3
<1>5. /\ ring' \in Seq(BlockType) /\ Len(ring') <= RingBlocks
      /\ \A i \in 1 .. Len(ring') : ring'[i].units # <<>>
  <2>1. /\ ring \in Seq(BlockType) /\ Len(ring) <= RingBlocks /\ RingBlocks \in Nat
        /\ \A i \in 1 .. Len(ring) : ring[i].units # <<>>
    BY Sizes DEF LoopTypes
  <2>2. /\ ring' \in Seq(BlockType) /\ Len(ring') = Len(ring) - 1 /\ Len(ring) \in Nat \ {0}
        /\ \A i \in 1 .. Len(ring') : ring'[i] = ring[i + 1] /\ i + 1 \in 1 .. Len(ring)
    BY <1>1, <2>1
  <2> QED BY <2>1, <2>2
<1>6. CASE UNCHANGED <<pending, engine>>
  <2>1. LoopTypes'
    BY <1>1, <1>4, <1>5, <1>6 DEF LoopTypes
  <2>2. TuneKnown'
    BY <1>1, <1>2, <1>6, SameWanted DEF TuneKnown
  <2>3. CleanWindow'
    BY <1>2, <1>6 DEF CleanWindow
  <2> QED BY <1>1, <1>2, <1>3, <2>1, <2>2, <2>3
<1>7. CASE /\ Waiting /\ pending' = NoTune
           /\ engine' = [window |-> pending.id, known |-> pending.known] /\ heard' = {pending.id}
  <2>1. engine' \in [window : 0..MaxTunes, known : AnyList] /\ pending' \in [id : 0..MaxTunes, known : AnyList]
    BY <1>7, Sizes DEF LoopTypes, NoTune, AnyList
  <2>2. LoopTypes'
    BY <1>1, <1>4, <1>5, <2>1 DEF LoopTypes
  <2>3. TuneKnown'
    BY <1>1, <1>2, <1>7 DEF TuneKnown, Waiting
  <2>4. CleanWindow'
    BY <1>7 DEF CleanWindow
  <2> QED BY <1>1, <1>2, <1>3, <2>2, <2>3, <2>4
<1> QED BY <1>2, <1>6, <1>7

\* The other steps move neither a sample nor a command.
LEMMA OthersIdle ==
  ASSUME DeviceLost \/ Refused \/ Drained \/ TakeNothing \/ Stalled \/ UNCHANGED vars
  PROVE  /\ UNCHANGED <<cmds, sent, device, filling, usb, gen, acc, ring, pending, wantGen, settleLeft,
                        engine, latest, heard>>
         /\ pc' = "bump" => pc = "bump"
         /\ pc = "bump" => pc' = "bump"
BY DEF DeviceLost, Refused, Drained, TakeNothing, Stalled, vars, Draining, device_, source_, loop_

\* Every step keeps the invariant.
LEMMA NextLoop == LoopInv /\ [Next]_vars => LoopInv'
<1> SUFFICES ASSUME LoopInv, [Next]_vars PROVE LoopInv'
  OBVIOUS
<1>1. CASE Reader
  BY <1>1, ReaderKeeps
<1>2. CASE Capture
  BY <1>2, CaptureKeeps
<1>3. CASE OnSamples
  BY <1>3, OnSamplesKeeps
<1>4. CASE SetCenter
  BY <1>4, SetCenterKeeps
<1>5. CASE Bump
  BY <1>5, BumpKeeps
<1>6. CASE Known
  BY <1>6, KnownKeeps
<1>7. CASE TakeBlock
  BY <1>7, TakeKeeps
<1>8. CASE DeviceLost \/ Refused \/ Drained \/ TakeNothing \/ Stalled \/ UNCHANGED vars
  BY <1>8, OthersIdle, IdleKeeps
<1> QED BY <1>1, <1>2, <1>3, <1>4, <1>5, <1>6, <1>7, <1>8 DEF Next, Radio, Loop

-----------------------------------------------------------------------------
(* Counting: units are added up block by block.                             *)

\* up[n] is what the first n blocks hold.
Adds(up, blocks) ==
  /\ up \in [0 .. Len(blocks) -> Nat] /\ up[0] = 0
  /\ \A n \in 1 .. Len(blocks) : up[n] = up[n - 1] + Len(blocks[n].units)

\* A non-empty set of naturals has a least element.
LEMMA LeastOne == ASSUME NEW S, S \subseteq Nat, S # {} PROVE \E x \in S : \A y \in S : x <= y
<1> DEFINE R == {ss \in Nat \X Nat : ss[1] < ss[2]}
<1>1. IsWellFoundedOn(R, Nat)
  BY NatLessThanWellFounded, Zenon DEF OpToRel
<1>2. PICK x \in S : \A y \in S : ~(<<y, x>> \in R)
  <2> HIDE DEF R
  <2> QED BY <1>1, WFMin
<1>3. ASSUME NEW y \in S PROVE x <= y
  <2>1. x \in Nat /\ y \in Nat /\ ~(<<y, x>> \in R)
    BY <1>2
  <2> QED BY <2>1
<1> QED BY <1>3

LEMMA UnitsTyped == ASSUME NEW blocks \in Seq(BlockType), NEW n \in 1 .. Len(blocks) PROVE Len(blocks[n].units) \in Nat
<1>1. blocks[n] \in BlockType
  OBVIOUS
<1>2. blocks[n].units \in Seq(Units)
  BY <1>1 DEF BlockType
<1> QED BY <1>2

\* Any blocks can be added up.
LEMMA AddsExists == ASSUME NEW blocks \in Seq(BlockType) PROVE \E up : Adds(up, blocks)
<1> DEFINE size(n) == Len(blocks[n].units)
           Upto(m, c) == /\ c \in [0 .. m -> Nat] /\ c[0] = 0 /\ \A n \in 1 .. m : c[n] = c[n - 1] + size(n)
           Bad == {m \in 0 .. Len(blocks) : ~\E c : Upto(m, c)}
<1>1. Len(blocks) \in Nat /\ \A n \in 1 .. Len(blocks) : size(n) \in Nat
  BY UnitsTyped
<1> HIDE DEF size
<1>2. Bad = {}
  <2> SUFFICES ASSUME Bad # {} PROVE FALSE
    OBVIOUS
  <2>1. PICK m \in Bad : \A k \in Bad : m <= k
    <3>1. Bad \subseteq Nat
      BY <1>1
    <3> HIDE DEF Bad
    <3> QED BY <3>1, LeastOne
  <2>2. m \in Nat /\ m <= Len(blocks)
    BY <1>1, <2>1
  <2>3. CASE m = 0
    <3> DEFINE c == [n \in 0 .. 0 |-> 0]
    <3>1. Upto(0, c)
      OBVIOUS
    <3> HIDE DEF c, Upto
    <3> QED BY <2>1, <2>3, <3>1
  <2>4. CASE m # 0
    <3>1. m - 1 \in 0 .. Len(blocks) /\ ~(m <= m - 1)
      BY <1>1, <2>2, <2>4
    <3>2. PICK c : Upto(m - 1, c)
      <4>1. m - 1 \notin Bad
        BY <2>1, <3>1
      <4> QED BY <3>1, <4>1
    <3> DEFINE d == [n \in 0 .. m |-> IF n = m THEN c[m - 1] + size(m) ELSE c[n]]
    <3>3. size(m) \in Nat /\ c[m - 1] \in Nat /\ \A n \in 0 .. m - 1 : c[n] \in Nat
      BY <1>1, <2>2, <2>4, <3>2
    <3>4. d \in [0 .. m -> Nat] /\ d[0] = 0
      BY <2>2, <2>4, <3>2, <3>3
    <3>5. ASSUME NEW n \in 1 .. m PROVE d[n] = d[n - 1] + size(n)
      <4>1. CASE n = m
        <5>1. n - 1 \in 0 .. m /\ n - 1 # m /\ n \in 0 .. m
          BY <2>2, <4>1
        <5> QED BY <4>1, <5>1
      <4>2. CASE n # m
        <5>1. n \in 1 .. m - 1 /\ n - 1 \in 0 .. m /\ n - 1 # m /\ n \in 0 .. m
          BY <2>2, <4>2
        <5>2. c[n] = c[n - 1] + size(n)
          BY <3>2, <5>1
        <5> QED BY <4>2, <5>1, <5>2
      <4> QED BY <4>1, <4>2
    <3>6. Upto(m, d)
      BY <3>4, <3>5
    <3> HIDE DEF d, Upto
    <3> QED BY <2>1, <3>6
  <2> QED BY <2>3, <2>4
<1>3. PICK c : Upto(Len(blocks), c)
  BY SMTT(60), <1>1, <1>2
<1> QED BY <1>3 DEF Adds, size

\* ... in one way.
LEMMA AddsUnique == ASSUME NEW blocks \in Seq(BlockType), NEW c, NEW d, Adds(c, blocks), Adds(d, blocks) PROVE c = d
<1> DEFINE Bad == {n \in 0 .. Len(blocks) : c[n] # d[n]}
<1>1. Bad = {}
  <2> SUFFICES ASSUME Bad # {} PROVE FALSE
    OBVIOUS
  <2>1. PICK m \in Bad : \A k \in Bad : m <= k
    <3>1. Bad \subseteq Nat
      OBVIOUS
    <3> HIDE DEF Bad
    <3> QED BY <3>1, LeastOne
  <2>2. m \in 1 .. Len(blocks) /\ m - 1 \in 0 .. Len(blocks) /\ ~(m <= m - 1)
    <3>1. m # 0
      BY <2>1 DEF Adds
    <3> QED BY <2>1, <3>1
  <2>3. c[m - 1] = d[m - 1]
    BY <2>1, <2>2
  <2>4. c[m] = d[m]
    BY <2>2, <2>3 DEF Adds
  <2> QED BY <2>1, <2>4
<1> QED BY <1>1 DEF Adds

\* UnitsIn() is that sum.
LEMMA UnitsAdd == ASSUME NEW blocks \in Seq(BlockType), NEW up, Adds(up, blocks) PROVE UnitsIn(blocks) = up[Len(blocks)]
<1> DEFINE N == Len(blocks)
           Rec(g) == g = [n \in 0 .. N |-> IF n = 0 THEN 0 ELSE g[n - 1] + Len(blocks[n].units)]
           upTo == CHOOSE g : Rec(g)
<1>1. Rec(up)
  <2>1. up = [n \in 0 .. N |-> up[n]]
    BY DEF Adds
  <2>2. \A n \in 0 .. N : up[n] = IF n = 0 THEN 0 ELSE up[n - 1] + Len(blocks[n].units)
    BY DEF Adds
  <2> QED BY <2>1, <2>2
<1>2. Rec(upTo)
  BY <1>1
<1>3. UnitsIn(blocks) = upTo[N]
  BY DEF UnitsIn
<1> HIDE DEF upTo
<1>4. upTo = up
  <2> DEFINE Bad == {n \in 0 .. N : upTo[n] # up[n]}
  <2>1. Bad = {}
    <3> SUFFICES ASSUME Bad # {} PROVE FALSE
      OBVIOUS
    <3>1. PICK m \in Bad : \A k \in Bad : m <= k
      <4>1. Bad \subseteq Nat
        OBVIOUS
      <4> HIDE DEF Bad
      <4> QED BY <4>1, LeastOne
    <3>2. upTo[0] = 0 /\ \A n \in 1 .. N : upTo[n] = upTo[n - 1] + Len(blocks[n].units)
      <4>1. \A n \in 0 .. N : upTo[n] = IF n = 0 THEN 0 ELSE upTo[n - 1] + Len(blocks[n].units)
        BY <1>2
      <4> QED BY <4>1
    <3>3. m \in 1 .. N /\ m - 1 \in 0 .. N /\ ~(m <= m - 1)
      <4>1. m # 0
        BY <3>1, <3>2 DEF Adds
      <4> QED BY <3>1, <4>1
    <3>4. upTo[m - 1] = up[m - 1]
      BY <3>1, <3>3
    <3>5. upTo[m] = up[m]
      BY <3>2, <3>3, <3>4 DEF Adds
    <3> QED BY <3>1, <3>5
  <2>2. upTo = [n \in 0 .. N |-> upTo[n]] /\ up = [n \in 0 .. N |-> up[n]]
    BY <1>1, <1>2
  <2> HIDE DEF Rec
  <2> QED BY <2>1, <2>2
<1> QED BY <1>3, <1>4

LEMMA UnitsNat == ASSUME NEW blocks \in Seq(BlockType) PROVE UnitsIn(blocks) \in Nat
<1>1. PICK up : Adds(up, blocks)
  BY AddsExists
<1>2. up[Len(blocks)] \in Nat
  BY <1>1 DEF Adds
<1> QED BY <1>1, <1>2, UnitsAdd

LEMMA UnitsNone == UnitsIn(<< >>) = 0
<1> DEFINE up == [n \in 0 .. 0 |-> 0]
           b == << >>
<1>1. b \in Seq(BlockType) /\ Len(b) = 0
  OBVIOUS
<1> HIDE DEF b
<1>2. Adds(up, b)
  BY <1>1 DEF Adds
<1>3. UnitsIn(b) = up[0]
  BY <1>1, <1>2, UnitsAdd
<1> QED BY <1>3 DEF b

LEMMA UnitsOne == ASSUME NEW b \in BlockType PROVE UnitsIn(<<b>>) = Len(b.units) /\ Len(b.units) \in Nat
<1> DEFINE s == <<b>>
           up == [n \in 0 .. 1 |-> IF n = 0 THEN 0 ELSE Len(b.units)]
<1>1. s \in Seq(BlockType) /\ Len(s) = 1 /\ s[1] = b
  OBVIOUS
<1>2. Len(b.units) \in Nat
  BY DEF BlockType
<1> HIDE DEF s
<1>3. Adds(up, s)
  <2>1. up \in [0 .. Len(s) -> Nat] /\ up[0] = 0
    BY <1>1, <1>2
  <2>2. ASSUME NEW n \in 1 .. Len(s) PROVE up[n] = up[n - 1] + Len(s[n].units)
    <3>1. n = 1
      BY <1>1
    <3>2. up[1] = Len(b.units) /\ up[1 - 1] = 0
      OBVIOUS
    <3> HIDE DEF up
    <3>3. 0 + Len(b.units) = Len(b.units)
      BY <1>2
    <3> QED BY <1>1, <3>1, <3>2, <3>3
  <2> QED BY <2>1, <2>2 DEF Adds
<1>4. UnitsIn(s) = up[1]
  BY <1>1, <1>3, UnitsAdd
<1> QED BY <1>2, <1>4 DEF s

LEMMA UnitsJoined ==
  ASSUME NEW s \in Seq(BlockType), NEW t \in Seq(BlockType)
  PROVE  UnitsIn(s \o t) = UnitsIn(s) + UnitsIn(t) /\ s \o t \in Seq(BlockType)
<1> DEFINE w == s \o t
           m == Len(s)
           k == Len(t)
<1>1. PICK c : Adds(c, s)
  BY AddsExists
<1>2. PICK d : Adds(d, t)
  BY AddsExists
<1>3. m \in Nat /\ k \in Nat /\ w \in Seq(BlockType) /\ Len(w) = m + k /\ \A n \in 1 .. m + k : w[n] = IF n <= m THEN s[n] ELSE t[n - m]
  OBVIOUS
<1> HIDE DEF w
<1> DEFINE up == [n \in 0 .. m + k |-> IF n <= m THEN c[n] ELSE c[m] + d[n - m]]
<1>4. c \in [0 .. m -> Nat] /\ d \in [0 .. k -> Nat] /\ c[0] = 0 /\ d[0] = 0 /\ c[m] \in Nat
  BY SMTT(60), <1>1, <1>2, <1>3 DEF Adds
<1>5. up \in [0 .. m + k -> Nat] /\ up[0] = 0
  <2>1. ASSUME NEW n \in 0 .. m + k PROVE up[n] \in Nat
    <3>1. CASE n <= m
      <4>1. n \in 0 .. m
        BY <1>3, <3>1
      <4>2. c[n] \in Nat
        BY <1>4, <4>1
      <4> QED BY <3>1, <4>2
    <3>2. CASE ~ (n <= m)
      <4>1. n - m \in 0 .. k
        BY <1>3, <3>2
      <4>2. d[n - m] \in Nat
        BY <1>4, <4>1
      <4> QED BY <1>4, <3>2, <4>2
    <3> QED BY <3>1, <3>2
  <2> QED BY <1>3, <1>4, <2>1
<1>6. ASSUME NEW n \in 1 .. m + k PROVE up[n] = up[n - 1] + Len(w[n].units)
  <2>1. n \in 0 .. m + k /\ n - 1 \in 0 .. m + k
    BY <1>3
  <2>2. CASE n <= m
    <3>1. n \in 1 .. m /\ n - 1 <= m
      BY <1>3, <2>2
    <3>2. up[n] = c[n] /\ up[n - 1] = c[n - 1] /\ w[n] = s[n]
      BY <1>3, <2>1, <2>2, <3>1
    <3>3. c[n] = c[n - 1] + Len(s[n].units)
      BY <1>1, <3>1 DEF Adds
    <3> QED BY <3>2, <3>3
  <2>3. CASE n = m + 1
    <3>1. 1 \in 1 .. k /\ n - m = 1 /\ n - 1 = m /\ ~ (n <= m) /\ m <= m
      BY <1>3, <2>3
    <3>2. up[n] = c[m] + d[1] /\ up[n - 1] = c[m] /\ w[n] = t[1]
      BY <1>3, <2>1, <3>1
    <3>3. d[1] = d[1 - 1] + Len(t[1].units)
      BY <1>2, <3>1 DEF Adds
    <3>4. Len(t[1].units) \in Nat
      BY <3>1, UnitsTyped
    <3>5. d[1] = Len(t[1].units)
      <4>1. d[1 - 1] = 0
        BY <1>4
      <4> QED BY <3>3, <3>4, <4>1
    <3> QED BY <3>2, <3>5
  <2>4. CASE n > m + 1
    <3>1. n - m \in 1 .. k /\ ~ (n <= m) /\ ~ (n - 1 <= m) /\ (n - 1) - m = (n - m) - 1 /\ (n - m) - 1 \in 0 .. k
      BY <1>3, <2>4
    <3>2. up[n] = c[m] + d[n - m] /\ up[n - 1] = c[m] + d[(n - m) - 1] /\ w[n] = t[n - m]
      BY <1>3, <2>1, <3>1
    <3>3. d[n - m] = d[(n - m) - 1] + Len(t[n - m].units)
      BY <1>2, <3>1 DEF Adds
    <3>4. d[(n - m) - 1] \in Nat /\ Len(t[n - m].units) \in Nat
      BY <1>4, <3>1, UnitsTyped
    <3> DEFINE x == d[(n - m) - 1]
               l == Len(t[n - m].units)
               y == c[m]
    <3>5. up[n] = y + (x + l) /\ up[n - 1] = y + x /\ Len(w[n].units) = l /\ x \in Nat /\ l \in Nat /\ y \in Nat
      BY <1>4, <3>2, <3>3, <3>4
    <3> HIDE DEF up, x, l, y
    <3> QED BY <3>5
  <2> QED BY <1>3, <2>2, <2>3, <2>4
<1>7. Adds(up, w)
  BY <1>3, <1>5, <1>6 DEF Adds
<1>8. up[m + k] = c[m] + d[k]
  <2>1. m + k \in 0 .. m + k /\ (m + k) - m = k
    BY <1>3
  <2>2. CASE k = 0
    <3>1. m + k = m /\ d[k] = 0 /\ m <= m
      BY <1>3, <1>4, <2>2
    <3> QED BY SMTT(60), <1>4, <2>1, <3>1
  <2>3. CASE k # 0
    <3>1. ~ (m + k <= m)
      BY <1>3, <2>3
    <3> QED BY <2>1, <3>1
  <2> QED BY <2>2, <2>3
<1> HIDE DEF up
<1>9. UnitsIn(w) = up[m + k] /\ UnitsIn(s) = c[m] /\ UnitsIn(t) = d[k]
  BY <1>1, <1>2, <1>3, <1>7, UnitsAdd
<1> QED BY <1>3, <1>8, <1>9 DEF w

\* Blocks of one size.
LEMMA UnitsFull ==
  ASSUME NEW s \in Seq(BlockType), NEW size \in Nat, \A n \in 1 .. Len(s) : Len(s[n].units) = size
  PROVE  UnitsIn(s) = Len(s) * size
<1> DEFINE up == [n \in 0 .. Len(s) |-> n * size]
<1>1. Len(s) \in Nat
  OBVIOUS
<1>2. \A n \in 0 .. Len(s) : n * size \in Nat
  BY <1>1, SMT
<1>3. \A n \in 1 .. Len(s) : n * size = (n - 1) * size + size
  BY <1>1, SMT
<1>4. Adds(up, s)
  <2>1. up \in [0 .. Len(s) -> Nat]
    BY <1>2
  <2>2. up[0] = 0
    BY <1>1, SMT
  <2>3. ASSUME NEW n \in 1 .. Len(s) PROVE up[n] = up[n - 1] + Len(s[n].units)
    <3>1. n \in 0 .. Len(s) /\ n - 1 \in 0 .. Len(s)
      BY <1>1
    <3>2. up[n] = n * size /\ up[n - 1] = (n - 1) * size
      BY <3>1
    <3> QED BY <1>3, <3>2
  <2> HIDE DEF up
  <2> QED BY <2>1, <2>2, <2>3 DEF Adds
<1>5. UnitsIn(s) = up[Len(s)]
  BY <1>4, UnitsAdd
<1> QED BY <1>1, <1>5

\* A call keeps blocks of the right kind, in the ring and out of it.
LEMMA FittingTyped == ASSUME LoopTypes, NEW blocks \in Seq(BlockType) PROVE Fitting(blocks) \in Seq(BlockType)
<1> DEFINE room == RingBlocks - Len(ring)
           m == IF Len(blocks) <= room THEN Len(blocks) ELSE room
<1>1. room \in Nat /\ Len(blocks) \in Nat
  <2>1. ring \in Seq(BlockType) /\ Len(ring) <= RingBlocks
    BY DEF LoopTypes
  <2> QED BY <2>1, Sizes
<1>2. m \in Nat /\ m <= Len(blocks)
  <2> HIDE DEF room
  <2> QED BY <1>1
<1>3. Fitting(blocks) = SubSeq(blocks, 0 + 1, 0 + m)
  BY <1>2 DEF Fitting
<1> HIDE DEF m
<1>4. \A i \in 0 + 1 .. 0 + m : blocks[i] \in BlockType
  BY <1>1, <1>2
<1> QED BY <1>2, <1>3, <1>4, SubSeqFacts

\* What a call adds to the ring, the buffer and the drop count is a transfer.
LEMMA ClockPublished == ASSUME LoopInv, dropped \in Int, due \in Int, ClockExact, OnSamples PROVE dropped' \in Int /\ due' \in Int /\ ClockExact'
<1> DEFINE blocks == Early \o InBlocks
           fit == Fitting(blocks)
           a == Len(acc.units)
<1>1. PICK e \in {0, 1}, f \in Nat : e = (IF Stale THEN 1 ELSE 0) /\ f = Len(NewUnits) \div Block
  BY BlocksOf DEF OnSamples, LoopInv
<1>2. LoopTypes
  BY DEF LoopInv
<1>3. /\ usb # <<>> /\ acc' = [gen |-> gen, units |-> Rest(NewUnits)] /\ ring' = ring \o fit
      /\ dropped' = dropped + UnitsIn(blocks) - UnitsIn(fit) /\ due' = due + Transfer
  BY DEF OnSamples, NewUnits, Stale, Early, InBlocks
<1>4. blocks \in Seq(BlockType) /\ NewUnits \in Seq(Units)
  BY <1>1, <1>2, <1>3, BlocksOf
<1>5. fit \in Seq(BlockType) /\ ring \in Seq(BlockType) /\ acc \in BlockType /\ a \in Nat /\ Head(usb) \in Seq(Units) /\ Len(Head(usb)) = Transfer
  <2>1. fit \in Seq(BlockType)
    BY <1>2, <1>4, FittingTyped
  <2>2. ring \in Seq(BlockType) /\ acc \in BlockType /\ usb \in Seq(Seq(Units)) /\ \A t \in 1 .. Len(usb) : Len(usb[t]) = Transfer
    BY <1>2 DEF LoopTypes
  <2>3. a \in Nat
    BY <2>2 DEF BlockType
  <2>4. 1 \in 1 .. Len(usb) /\ Head(usb) = usb[1]
    BY <1>3, <2>2
  <2> QED BY <2>1, <2>2, <2>3, <2>4
<1>6. /\ f * Block \in Nat /\ Len(Rest(NewUnits)) = Len(NewUnits) - f * Block /\ Len(FullBlocks(NewUnits)) = f
      /\ DOMAIN FullBlocks(NewUnits) = 1 .. f /\ \A k \in 1 .. f : FullBlocks(NewUnits)[k] \in Seq(Units) /\ Len(FullBlocks(NewUnits)[k]) = Block
  BY <1>1, <1>4, CutUp, SMTT(30)
<1>7. InBlocks \in Seq(BlockType) /\ UnitsIn(InBlocks) = f * Block
  <2>1. InBlocks = [k \in 1 .. f |-> [gen |-> gen, units |-> FullBlocks(NewUnits)[k]]]
    BY <1>6 DEF InBlocks
  <2>2. gen \in Nat
    BY <1>2 DEF LoopTypes
  <2>3. InBlocks \in [1 .. f -> BlockType] /\ \A k \in 1 .. f : Len(InBlocks[k].units) = Block
    BY <1>6, <2>1, <2>2 DEF BlockType
  <2>4. InBlocks \in Seq(BlockType) /\ Len(InBlocks) = f
    BY <2>3
  <2>5. Block \in Nat
    BY Sizes
  <2>6. UnitsIn(InBlocks) = Len(InBlocks) * Block
    BY <2>3, <2>4, <2>5, UnitsFull
  <2> QED BY <2>4, <2>6
<1>8. CASE Stale
  <2>1. Early = <<acc>> /\ NewUnits = <<>> \o Head(usb)
    BY <1>8 DEF Early, NewUnits
  <2>2. UnitsIn(Early) = a /\ Early \in Seq(BlockType)
    BY <1>5, <2>1, UnitsOne
  <2>3. Len(NewUnits) = Transfer
    BY <1>5, <2>1
  <2>4. UnitsIn(blocks) = a + f * Block
    BY <1>7, <2>2, UnitsJoined
  <2> HIDE DEF blocks, fit, a
  <2>5. UnitsIn(ring') = UnitsIn(ring) + UnitsIn(fit) /\ UnitsIn(ring) \in Nat /\ UnitsIn(fit) \in Nat
    BY <1>3, <1>5, UnitsJoined, UnitsNat
  <2>6. Len(acc'.units) = Transfer - f * Block
    BY <1>3, <1>6, <2>3
  <2>7. due = UnitsIn(ring) + a + dropped
    BY DEF ClockExact, a
  <2> DEFINE q == f * Block
             u == UnitsIn(ring)
             v == UnitsIn(fit)
  <2>8. /\ due' = due + Transfer /\ dropped' = dropped + (a + q) - v /\ Len(acc'.units) = Transfer - q /\ UnitsIn(ring') = u + v
        /\ u \in Nat /\ v \in Nat /\ q \in Nat /\ Transfer \in Nat /\ due = u + a + dropped /\ a \in Nat
    BY <1>3, <1>5, <1>6, <2>4, <2>5, <2>6, <2>7, Sizes DEF a
  <2> HIDE DEF q, u, v
  <2>9. due' = UnitsIn(ring') + Len(acc'.units) + dropped' /\ dropped' \in Int /\ due' \in Int
    BY <2>8
  <2> QED BY <2>9 DEF ClockExact
<1>9. CASE ~Stale
  <2>1. Early = <<>> /\ NewUnits = acc.units \o Head(usb)
    BY <1>9 DEF Early, NewUnits
  <2>2. Len(NewUnits) = a + Transfer
    <3>1. acc.units \in Seq(Units)
      BY <1>5 DEF BlockType
    <3>2. Len(acc.units \o Head(usb)) = Len(acc.units) + Len(Head(usb))
      BY <1>5, <3>1, ConcatProperties
    <3> QED BY <1>5, <2>1, <3>2
  <2>3. blocks = InBlocks
    BY <1>7, <2>1
  <2>4. UnitsIn(blocks) = f * Block
    BY <1>7, <2>3
  <2> HIDE DEF blocks, fit, a
  <2>5. UnitsIn(ring') = UnitsIn(ring) + UnitsIn(fit) /\ UnitsIn(ring) \in Nat /\ UnitsIn(fit) \in Nat
    BY <1>3, <1>5, UnitsJoined, UnitsNat
  <2>6. Len(acc'.units) = (a + Transfer) - f * Block
    <3>1. acc'.units = Rest(NewUnits)
      BY <1>3
    <3> QED BY <1>6, <2>2, <3>1
  <2>7. due = UnitsIn(ring) + a + dropped
    BY DEF ClockExact, a
  <2> DEFINE q == f * Block
             u == UnitsIn(ring)
             v == UnitsIn(fit)
  <2>8. /\ due' = due + Transfer /\ dropped' = dropped + q - v /\ Len(acc'.units) = (a + Transfer) - q /\ UnitsIn(ring') = u + v
        /\ u \in Nat /\ v \in Nat /\ q \in Nat /\ Transfer \in Nat /\ due = u + a + dropped /\ a \in Nat
    BY <1>3, <1>5, <1>6, <2>4, <2>5, <2>6, <2>7, Sizes DEF a
  <2> HIDE DEF q, u, v
  <2>9. due' = UnitsIn(ring') + Len(acc'.units) + dropped' /\ dropped' \in Int /\ due' \in Int
    BY <2>8
  <2> QED BY <2>9 DEF ClockExact
<1> QED BY <1>8, <1>9

\* A block taken is counted, whatever becomes of it.
LEMMA ClockTaken == ASSUME LoopInv, dropped \in Int, due \in Int, ClockExact, TakeBlock PROVE dropped' \in Int /\ due' \in Int /\ ClockExact'
<1> DEFINE b == Head(ring)
           rest == Tail(ring)
<1>1. /\ ring # <<>> /\ ring' = rest /\ due' = due - Len(b.units) /\ acc' = acc /\ dropped' = dropped
  BY DEF TakeBlock, Discard, SettleOn, Apply, Push, Noted, Pushed
<1>2. ring \in Seq(BlockType) /\ acc \in BlockType
  BY DEF LoopInv, LoopTypes
<1>3. b \in BlockType /\ rest \in Seq(BlockType) /\ ring = <<b>> \o rest /\ <<b>> \in Seq(BlockType)
  BY <1>1, <1>2
<1>4. Len(acc.units) \in Nat
  BY <1>2 DEF BlockType
<1> HIDE DEF b, rest
<1>5. UnitsIn(ring) = Len(b.units) + UnitsIn(rest) /\ Len(b.units) \in Nat /\ UnitsIn(rest) \in Nat
  BY <1>3, UnitsOne, UnitsJoined, UnitsNat
<1>6. due' = UnitsIn(ring') + Len(acc'.units) + dropped'
  BY SMTT(60), <1>1, <1>4, <1>5 DEF ClockExact
<1> QED BY SMTT(60), <1>1, <1>5, <1>6 DEF ClockExact

LEMMA ClockStep ==
  ASSUME LoopInv, dropped \in Int, due \in Int, ClockExact, [Next]_vars
  PROVE  dropped' \in Int /\ due' \in Int /\ ClockExact'
<1>1. ASSUME UNCHANGED <<ring, acc, dropped, due>> PROVE dropped' \in Int /\ due' \in Int /\ ClockExact'
  BY <1>1 DEF ClockExact
<1>2. CASE Drained
  <2>1. UNCHANGED <<ring, acc>> /\ due' = due - dropped /\ dropped' = 0
    BY <1>2 DEF Drained
  <2>2. UnitsIn(ring) \in Nat /\ Len(acc.units) \in Nat
    <3>1. ring \in Seq(BlockType) /\ acc \in BlockType
      BY DEF LoopInv, LoopTypes
    <3>2. UnitsIn(ring) \in Nat
      BY <3>1, UnitsNat
    <3>3. acc.units \in Seq(Units)
      BY <3>1 DEF BlockType
    <3> QED BY <3>2, <3>3
  <2>3. due' = UnitsIn(ring) + Len(acc.units) + dropped'
    BY SMTT(60), <2>1, <2>2 DEF ClockExact
  <2> QED BY <2>1, <2>3 DEF ClockExact
<1>3. CASE SendTune \/ SendKnown \/ Capture \/ DeviceLost
  BY <1>1, <1>3 DEF SendTune, SendKnown, Capture, DeviceLost, source_
<1>4. CASE SetCenter \/ Bump \/ Refused \/ Known \/ TakeNothing \/ Stalled \/ UNCHANGED vars
  BY <1>1, <1>4 DEF SetCenter, Bump, Refused, Known, TakeNothing, Stalled, vars, source_
<1>5. CASE OnSamples
  BY <1>5, ClockPublished
<1>6. CASE TakeBlock
  BY <1>6, ClockTaken
<1> QED BY <1>2, <1>3, <1>4, <1>5, <1>6 DEF Next, Reader, Radio, Loop

\* Across retunes, full rings and drops, whatever the sizes of transfers, blocks, ring and queue: as long as the settle
\* covers what was captured before a retune, no sample of another center is demodulated after it; and every sample handed
\* to the callback is counted by the engine's clock or still on its way to it (live.cpp:41-56, rtl_source.cpp:84-100).
THEOREM LoopTheorem == Spec => []LoopSound
<1> DEFINE Inv == LoopInv /\ dropped \in Int /\ due \in Int /\ ClockExact
<1>1. Init => Inv
  <2> SUFFICES ASSUME Init PROVE Inv
    OBVIOUS
  <2>1. ring = <<>> /\ acc.units = <<>> /\ dropped = 0 /\ due = 0
    BY DEF Init
  <2>2. Len(acc.units) = 0 /\ UnitsIn(ring) = 0
    BY <2>1, UnitsNone
  <2>3. ClockExact
    BY <2>1, <2>2 DEF ClockExact
  <2> QED BY <2>1, <2>3, InitLoop
<1>2. Inv /\ [Next]_vars => Inv'
  BY NextLoop, ClockStep
<1>3. Inv => LoopSound
  BY DEF LoopSound, LoopInv
<1> QED BY <1>1, <1>2, <1>3, PTL DEF Spec

-----------------------------------------------------------------------------
(* The feed of tuned windows.                                               *)

\* Every step is one of the feed, or leaves it as it is.
LEMMA StepMaps == LoopInv /\ [Next]_vars => [Feed!Next]_(Feed!vars)
<1> SUFFICES ASSUME LoopInv, [Next]_vars PROVE [Feed!Next]_(Feed!vars)
  OBVIOUS
<1> USE DEF LoopInv
<1>0. Wanted = (IF Waiting THEN pending.id ELSE engine.window)
  BY DEF Wanted
<1>1. ASSUME Wanted' = Wanted, UNCHANGED <<engine, latest, heard>> PROVE UNCHANGED Feed!vars
  BY <1>1 DEF Feed!vars, Wanted
<1>2. CASE Reader \/ Capture \/ OnSamples \/ SetCenter
           \/ DeviceLost \/ Refused \/ Drained \/ TakeNothing \/ Stalled \/ UNCHANGED vars
  <2>1. UNCHANGED <<pending, engine, latest, heard>>
    BY <1>2 DEF Reader, SendTune, SendKnown, Capture, OnSamples, SetCenter, DeviceLost, Refused,
                Drained, TakeNothing, Stalled, vars, device_, source_, loop_
  <2> QED BY <1>1, <2>1, SameWanted
<1>3. CASE Bump
  <2>1. Wanted' = Head(cmds).id /\ cmds # <<>> /\ Head(cmds).id = Wanted + 1
    BY <1>3, BumpClean, NextTune DEF Bump, TuneKnown
  <2>2. latest' = Head(cmds).known /\ UNCHANGED <<engine, heard>>
    BY <1>3 DEF Bump
  <2>3. Head(cmds).known \in Lists
    <3>1. Head(cmds) \in CmdType
      BY <2>1 DEF LoopTypes
    <3> QED BY <3>1 DEF CmdType
  <2>4. Feed!Ask(Head(cmds).known)
    BY <2>1, <2>2 DEF Feed!Ask, Wanted
  <2> QED BY <2>3, <2>4 DEF Feed!Next
<1>4. CASE Known
  <2>1. Wanted' = Wanted
    BY <1>4, KnownKeeps
  <2>2. /\ cmds # <<>> /\ latest' = Head(cmds).known /\ heard' = heard
        /\ engine' = [engine EXCEPT !.known = Head(cmds).known]
    BY <1>4 DEF Known, Draining
  <2>3. Head(cmds).known \in Lists
    <3>1. Head(cmds) \in CmdType
      BY <2>2 DEF LoopTypes
    <3> QED BY <3>1 DEF CmdType
  <2>4. engine'.known = Head(cmds).known /\ engine'.window = engine.window
    BY <2>2 DEF LoopTypes
  <2>5. Feed!Suppress(Head(cmds).known)
    BY <2>1, <2>2, <2>4 DEF Feed!Suppress, Wanted
  <2> QED BY <2>3, <2>5 DEF Feed!Next
<1>5. CASE TakeBlock
  <2>1. /\ latest' = latest /\ Wanted' = Wanted
        /\ \/ UNCHANGED <<pending, engine, heard>>
           \/ ~Waiting /\ UNCHANGED <<pending, engine>> /\ engine.window # 0 /\ heard' = {engine.window}
           \/ /\ Waiting /\ pending' = NoTune
              /\ engine' = [window |-> pending.id, known |-> pending.known] /\ heard' = {pending.id}
    <3>1. pc # "bump" /\ latest' = latest
      BY <1>5 DEF TakeBlock
    <3> QED BY <1>5, <3>1, BlockTaken
  <2>2. CASE UNCHANGED <<pending, engine, heard>>
    BY <1>1, <2>1, <2>2
  <2>3. CASE ~Waiting /\ UNCHANGED <<pending, engine>> /\ engine.window # 0 /\ heard' = {engine.window}
    <3>1. Feed!Hear
      BY <2>1, <2>3 DEF Feed!Hear, Waiting
    <3> QED BY <3>1 DEF Feed!Next
  <2>4. CASE /\ Waiting /\ pending' = NoTune
             /\ engine' = [window |-> pending.id, known |-> pending.known] /\ heard' = {pending.id}
    <3>1. engine.window # pending.id /\ pending.known = latest /\ ~Waiting'
      BY <2>4, Sizes DEF TuneKnown, LoopTypes, Waiting
    <3>2. Feed!Arrive
      BY <2>1, <2>4, <3>1 DEF Feed!Arrive
    <3> QED BY <3>2 DEF Feed!Next
  <2> QED BY <2>1, <2>2, <2>3, <2>4
<1> QED BY <1>2, <1>3, <1>4, <1>5 DEF Next, Radio, Loop

\* The helper's sample path implements the feed of tuned windows: windows change only to the one
\* asked for last, with its own samples and the last list, and nothing is demodulated on the way
\* (live.cpp:20-76, rtl_source.cpp:84-133).
THEOREM ImplementsFeed == Spec => FeedHolds
<1>1. Init => Feed!Init
  BY DEF Init, Feed!Init, Waiting
<1> QED BY <1>1, InitLoop, NextLoop, StepMaps, PTL DEF Spec, FeedHolds, Feed!Spec
=============================================================================
