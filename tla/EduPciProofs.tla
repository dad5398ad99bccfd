---------------------------- MODULE EduPciProofs ----------------------------
(***************************************************************************)
(* Proofs about the BAR0 registers of the edu-pci functions, and about one  *)
(* of these functions between the Linux driver and the vfio program: for    *)
(* every set of functions, every size of memory and buffers and every set   *)
(* of register writes.                                                      *)
(***************************************************************************)
EXTENDS EduPciHost, SequenceTheorems, FiniteSetTheorems, TLAPS

-----------------------------------------------------------------------------
(* The inductive invariant.                                                 *)

\* What a register holds.
RegNames == {"scratch", "factorial", "src", "dst", "len", "p2p_addr", "p2p_data"}
Kind(r) ==
  IF r = "p2p_addr" THEN Targets \cup {NoTarget}
  ELSE IF r = "factorial" THEN -1 .. FactorialMax ELSE Nat

RegTyped ==
  /\ DOMAIN reg = Fns
  /\ \A f \in Fns : /\ DOMAIN reg[f] = RegNames
                    /\ \A r \in RegNames : reg[f][r] \in Kind(r)

LinesTyped ==
  /\ busy \in [Fns -> BOOLEAN] /\ intx \in [Fns -> BOOLEAN]
  /\ bus_master \in [Fns -> BOOLEAN] /\ msix \in [Fns -> BOOLEAN]
  /\ mem \in [Addrs -> Data]
  /\ msi \subseteq [fn : PFs, vec : 0 .. Vectors - 1]

DmaSteps == {"read", "write", "notify"}
Steps == DmaSteps \cup {"p2p", "return"}
Frames == [fn : Fns, step : Steps, buf : Seq(Data)]

\* The handlers that run, in whatever order.
FramesOf(s) == {s[i] : i \in DOMAIN s}

\* Between the read and the write the buffer has the length the write will take
\* from the register.
BufWhole(fr) ==
  /\ Len(fr.buf) <= DmaMaxLen
  /\ fr.step = "write" => Len(fr.buf) = CopyLen(fr.fn)

StackTyped ==
  /\ stack \in Seq(Frames)
  /\ \A fr \in FramesOf(stack) : BufWhole(fr)

\* The busy flag is set only while the handler is between its two accesses.
BusyInHandler ==
  \A f \in Fns : busy[f] => \E fr \in FramesOf(stack) : fr.fn = f /\ fr.step \in DmaSteps

Bar0Inv == RegTyped /\ LinesTyped /\ StackTyped /\ BusyInHandler /\ NoIntxUnderMsix

-----------------------------------------------------------------------------
(* Lemmas about the operators.                                              *)

\* A handler that starts goes on top of those that run (a register write inside
\* a peer-to-peer write).
LEMMA Pushed ==
  ASSUME NEW S, NEW x \in S, NEW s \in Seq(S)
  PROVE  /\ <<x>> \o s \in Seq(S) /\ FramesOf(<<x>> \o s) = {x} \cup FramesOf(s)
         /\ <<x>> \o s # <<>>
         /\ Head(<<x>> \o s) = x /\ Tail(<<x>> \o s) = s
<1> DEFINE t == <<x>> \o s
<1>1. /\ t \in Seq(S) /\ Len(t) = Len(s) + 1 /\ Len(s) \in Nat
      /\ t[1] = x /\ \A i \in 1 .. Len(s) : t[i + 1] = s[i]
  BY SMT
<1>2. DOMAIN t = 1 .. Len(s) + 1 /\ DOMAIN s = 1 .. Len(s)
  BY <1>1
<1>3. Head(t) = x /\ Tail(t) = s /\ t # <<>>
  BY SMT
<1> HIDE DEF t
<1>4. \A i \in DOMAIN t : i = 1 \/ (i - 1 \in DOMAIN s /\ t[i] = s[i - 1])
  <2> SUFFICES ASSUME NEW i \in DOMAIN t, i # 1
               PROVE  i - 1 \in DOMAIN s /\ t[i] = s[i - 1]
    OBVIOUS
  <2>1. i - 1 \in 1 .. Len(s) /\ (i - 1) + 1 = i
    BY <1>1, <1>2
  <2> QED
    BY <1>1, <1>2, <2>1
<1>5. \A i \in DOMAIN s : i + 1 \in DOMAIN t /\ t[i + 1] = s[i]
  BY <1>1, <1>2
<1>6. 1 \in DOMAIN t
  BY <1>1, <1>2
<1>7. FramesOf(t) = {x} \cup FramesOf(s)
  <2>1. ASSUME NEW fr \in FramesOf(t) PROVE fr \in {x} \cup FramesOf(s)
    BY <1>1, <1>4 DEF FramesOf
  <2>2. ASSUME NEW fr \in FramesOf(s) PROVE fr \in FramesOf(t)
    <3> PICK i \in DOMAIN s : fr = s[i]
      BY DEF FramesOf
    <3> QED
      BY <1>5 DEF FramesOf
  <2>3. x \in FramesOf(t)
    BY <1>1, <1>6 DEF FramesOf
  <2> QED
    BY <2>1, <2>2, <2>3
<1> QED
  BY <1>1, <1>3, <1>7 DEF t

\* The handlers are the innermost and the others.
LEMMA Popped ==
  ASSUME NEW S, NEW s \in Seq(S), s # <<>>
  PROVE  /\ Head(s) \in S /\ Tail(s) \in Seq(S) /\ s = <<Head(s)>> \o Tail(s)
         /\ FramesOf(s) = {Head(s)} \cup FramesOf(Tail(s))
<1>1. Head(s) \in S /\ Tail(s) \in Seq(S)
  BY HeadTailProperties
<1>2. s = <<Head(s)>> \o Tail(s)
  <2> DEFINE t == <<Head(s)>> \o Tail(s)
  <2>1. /\ t \in Seq(S) /\ Len(t) = Len(Tail(s)) + 1
        /\ t[1] = Head(s) /\ \A i \in 1 .. Len(Tail(s)) : t[i + 1] = Tail(s)[i]
    BY <1>1, SMT
  <2>2. /\ Len(Tail(s)) = Len(s) - 1 /\ Len(s) \in Nat /\ Len(s) >= 1 /\ Head(s) = s[1]
        /\ \A i \in 1 .. Len(s) - 1 : Tail(s)[i] = s[i + 1]
    <3>1. /\ Len(Tail(s)) = Len(s) - 1
          /\ \A i \in 1 .. Len(Tail(s)) : Tail(s)[i] = s[i + 1]
      BY HeadTailProperties
    <3>2. Len(s) \in Nat /\ Len(s) >= 1 /\ Head(s) = s[1]
      BY EmptySeq, LenProperties, SMT
    <3> QED
      BY <3>1, <3>2
  <2> HIDE DEF t
  <2>3. Len(t) = Len(s)
    BY <2>1, <2>2
  <2>4. ASSUME NEW i \in 1 .. Len(s) PROVE t[i] = s[i]
    <3>1. CASE i = 1
      BY <2>1, <2>2, <3>1
    <3>2. CASE i # 1
      <4>1. i - 1 \in 1 .. Len(s) - 1 /\ (i - 1) + 1 = i
        BY <2>2, <3>2
      <4> QED
        BY <2>1, <2>2, <4>1
    <3> QED
      BY <3>1, <3>2
  <2>5. t = s
    <3>1. t \in Seq(S) /\ Len(s) = Len(t) /\ \A i \in 1 .. Len(s) : s[i] = t[i]
      BY <2>1, <2>3, <2>4
    <3> QED
      BY <3>1, SeqEqual
  <2> QED
    BY <2>5 DEF t
<1>3. FramesOf(<<Head(s)>> \o Tail(s)) = {Head(s)} \cup FramesOf(Tail(s))
  <2> DEFINE h == Head(s)
             r == Tail(s)
  <2>1. h \in S /\ r \in Seq(S)
    BY <1>1
  <2> HIDE DEF h, r
  <2>2. FramesOf(<<h>> \o r) = {h} \cup FramesOf(r)
    BY <2>1, Pushed, ZenonT(30)
  <2> QED
    BY <2>2 DEF h, r
<1> QED
  BY <1>1, <1>2, <1>3, Zenon

\* When no handler runs there is no frame.
LEMMA NoFrames == FramesOf(<<>>) = {}
BY DEF FramesOf

\* The registers hold what the handlers take from them.
LEMMA RegKinds ==
  ASSUME RegTyped, NEW f \in Fns
  PROVE  /\ reg[f].src \in Nat /\ reg[f].dst \in Nat /\ reg[f].len \in Nat
         /\ reg[f].p2p_data \in Nat /\ reg[f].p2p_addr \in Targets \cup {NoTarget}
         /\ reg[f].factorial \in -1 .. FactorialMax
         /\ CopyLen(f) \in Nat /\ CopyLen(f) <= DmaMaxLen
<1>1. /\ reg[f]["src"] \in Nat /\ reg[f]["dst"] \in Nat /\ reg[f]["len"] \in Nat
      /\ reg[f]["p2p_data"] \in Nat /\ reg[f]["p2p_addr"] \in Targets \cup {NoTarget}
      /\ reg[f]["factorial"] \in -1 .. FactorialMax
  BY DEF RegTyped, RegNames, Kind
<1>2. DmaMaxLen \in Nat
  BY Bar0Assumption
<1> QED
  BY <1>1, <1>2 DEF CopyLen

\* A fresh handler's frame, and what a step makes of the innermost one.
LEMMA FrameTyped ==
  ASSUME NEW f \in Fns, NEW step \in Steps \ {"write"}
  PROVE  /\ Frame(f, step) \in Frames /\ BufWhole(Frame(f, step))
         /\ Frame(f, step).fn = f /\ Frame(f, step).step = step
<1>1. <<>> \in Seq(Data) /\ Len(<<>>) = 0 /\ DmaMaxLen \in Nat
  BY Bar0Assumption, EmptySeq
<1> QED
  BY <1>1 DEF Frame, Frames, BufWhole

\* A step of the innermost handler changes its frame only.
LEMMA Stepped ==
  ASSUME StackTyped, stack # <<>>, NEW step \in Steps, NEW buf \in Seq(Data)
  PROVE  \E fr \in Frames :
           /\ fr.fn = Top.fn /\ fr.step = step /\ fr.buf = buf
           /\ TopAt(step, buf) \in Seq(Frames)
           /\ FramesOf(TopAt(step, buf)) = {fr} \cup FramesOf(Tail(stack))
           /\ Head(TopAt(step, buf)) = fr /\ Len(TopAt(step, buf)) = Len(stack)
           /\ Top \in Frames /\ Top.fn \in Fns /\ Tail(stack) \in Seq(Frames)
           /\ FramesOf(stack) = {Top} \cup FramesOf(Tail(stack))
           /\ BufWhole(Top)
<1>1. /\ Top \in Frames /\ Tail(stack) \in Seq(Frames)
      /\ FramesOf(stack) = {Top} \cup FramesOf(Tail(stack))
  BY Popped DEF StackTyped, Top
<1> DEFINE fr == [Top EXCEPT !.step = step, !.buf = buf]
<1>2. fr \in Frames /\ fr.fn = Top.fn /\ fr.step = step /\ fr.buf = buf /\ Top.fn \in Fns
  BY <1>1 DEF Frames
<1>3. TopAt(step, buf) = <<fr>> \o Tail(stack)
  BY DEF TopAt
<1> HIDE DEF fr
<1>4. /\ <<fr>> \o Tail(stack) \in Seq(Frames)
      /\ FramesOf(<<fr>> \o Tail(stack)) = {fr} \cup FramesOf(Tail(stack))
      /\ Head(<<fr>> \o Tail(stack)) = fr /\ Len(<<fr>> \o Tail(stack)) = Len(stack)
  <2> DEFINE below == Tail(stack)
  <2>1. fr \in Frames /\ below \in Seq(Frames)
    BY <1>1, <1>2
  <2>2. Len(below) + 1 = Len(stack)
    BY HeadTailProperties, EmptySeq, LenProperties, SMT DEF StackTyped
  <2> HIDE DEF below
  <2>3. /\ <<fr>> \o below \in Seq(Frames)
        /\ FramesOf(<<fr>> \o below) = {fr} \cup FramesOf(below)
        /\ Head(<<fr>> \o below) = fr
    BY <2>1, Pushed, ZenonT(30)
  <2>4. Len(<<fr>> \o below) = Len(below) + 1
    BY <2>1, SMT
  <2> QED
    BY <2>2, <2>3, <2>4 DEF below
<1>5. BufWhole(Top)
  BY <1>1 DEF StackTyped
<1>6. /\ TopAt(step, buf) \in Seq(Frames)
      /\ FramesOf(TopAt(step, buf)) = {fr} \cup FramesOf(Tail(stack))
      /\ Head(TopAt(step, buf)) = fr /\ Len(TopAt(step, buf)) = Len(stack)
  BY <1>3, <1>4, Zenon
<1>7. fr \in Frames
  BY <1>2
<1> WITNESS fr \in Frames
<1> QED
  BY <1>1, <1>2, <1>5, <1>6, Zenon

\* What refuses a register access is a frame of the function.
LEMMA EngagedFrames ==
  \A f : Engaged(f) <=> \E fr \in FramesOf(stack) : fr.fn = f
BY DEF Engaged, FramesOf

-----------------------------------------------------------------------------
(* Register writes.                                                         *)

\* What the handlers in rest are when one that writes a register of f starts:
\* none of them is f's, and all who are busy are among them.
Around(f, rest) ==
  /\ rest \in Seq(Frames)
  /\ \A fr \in FramesOf(rest) : BufWhole(fr) /\ fr.fn # f
  /\ \A g \in Fns : busy[g] => \E fr \in FramesOf(rest) : fr.fn = g /\ fr.step \in DmaSteps

\* Other functions' buffers fit their length registers as before.
LEMMA OthersWhole ==
  ASSUME NEW f, NEW rest, Around(f, rest), \A g \in Fns \ {f} : reg'[g] = reg[g]
  PROVE  \A fr \in FramesOf(rest) : BufWhole(fr)'
<1> SUFFICES ASSUME NEW fr \in FramesOf(rest) PROVE BufWhole(fr)'
  OBVIOUS
<1>1. fr \in Frames
  BY LenProperties DEF Around, FramesOf
<1>2. reg'[fr.fn] = reg[fr.fn] /\ BufWhole(fr)
  BY <1>1 DEF Frames, Around
<1> QED
  BY <1>2 DEF BufWhole, CopyLen

\* A register write keeps the invariant, from the host or from a peer (lines
\* 436-545).
LEMMA HandleWriteInv ==
  ASSUME RegTyped, LinesTyped, NoIntxUnderMsix,
         NEW f \in Fns, NEW r, NEW v, NEW rest, Around(f, rest),
         IF r = "p2p_addr" THEN v \in Targets ELSE v \in Nat,
         HandleWrite(f, r, v, rest)
  PROVE  Bar0Inv'
<1>1. CASE SetRegister(f, r, v, rest) \/ SetFactorial(f, r, v, rest)
  <2>1. /\ UNCHANGED <<busy, cfgVars, intx, mem, msi>> /\ stack' = rest
    BY <1>1 DEF SetRegister, SetFactorial
  <2>2. \E x \in Kind(r) : r \in RegNames /\ reg' = [reg EXCEPT ![f][r] = x]
    <3>1. CASE SetRegister(f, r, v, rest)
      BY <3>1 DEF SetRegister, RegNames, Kind
    <3>2. CASE SetFactorial(f, r, v, rest)
      <4>1. r = "factorial" /\ v \in Nat /\ reg' = [reg EXCEPT ![f]["factorial"] = Factorial(v)]
        BY <3>2 DEF SetFactorial
      <4>2. Factorial(v) \in -1 .. FactorialMax
        BY <4>1, Bar0Assumption DEF Factorial
      <4> QED
        BY <4>1, <4>2 DEF Kind, RegNames
    <3> QED
      BY <1>1, <3>1, <3>2
  <2>3. RegTyped' /\ \A g \in Fns \ {f} : reg'[g] = reg[g]
    BY <2>2 DEF RegTyped
  <2>4. \A fr \in FramesOf(rest) : BufWhole(fr)'
    BY <2>3, OthersWhole
  <2>5. StackTyped' /\ BusyInHandler'
    BY <2>1, <2>4 DEF StackTyped, BusyInHandler, Around
  <2> QED
    BY <2>1, <2>3, <2>5 DEF Bar0Inv, LinesTyped, NoIntxUnderMsix, cfgVars
<1>2. CASE StartDma(f, r, v, rest) \/ StartP2p(f, r, v, rest)
  <2> DEFINE step == IF r = "dma_cmd" THEN "read" ELSE "p2p"
  <2>1. /\ stack' = <<Frame(f, step)>> \o rest
        /\ UNCHANGED <<reg, cfgVars, intx, mem, msi>>
        /\ \/ busy' = busy
           \/ busy' = [busy EXCEPT ![f] = TRUE] /\ step \in DmaSteps
    BY <1>2 DEF StartDma, StartP2p, DmaSteps
  <2>2. step \in Steps \ {"write"}
    BY DEF Steps, DmaSteps
  <2> HIDE DEF step
  <2>3. /\ Frame(f, step) \in Frames /\ BufWhole(Frame(f, step))
        /\ Frame(f, step).fn = f /\ Frame(f, step).step = step
    BY <2>2, FrameTyped
  <2>4. stack' \in Seq(Frames) /\ FramesOf(stack') = {Frame(f, step)} \cup FramesOf(rest)
    BY <2>1, <2>3, Pushed DEF Around
  <2>5. \A fr \in FramesOf(stack') : BufWhole(fr)'
    <3>1. \A fr : BufWhole(fr)' <=> BufWhole(fr)
      BY <2>1 DEF BufWhole, CopyLen
    <3> QED
      BY <2>3, <2>4, <3>1 DEF Around
  <2>6. BusyInHandler'
    <3> SUFFICES ASSUME NEW g \in Fns, busy'[g]
                 PROVE  \E fr \in FramesOf(stack') : fr.fn = g /\ fr.step \in DmaSteps
      BY DEF BusyInHandler
    <3>1. CASE busy[g]
      BY <2>4, <3>1 DEF Around
    <3>2. CASE ~busy[g]
      <4>1. g = f /\ step \in DmaSteps
        BY <2>1, <3>2 DEF LinesTyped
      <4> QED
        BY <2>3, <2>4, <4>1
    <3> QED
      BY <3>1, <3>2
  <2>7. busy' \in [Fns -> BOOLEAN]
    BY <2>1 DEF LinesTyped
  <2>8. RegTyped' /\ StackTyped'
    BY <2>1, <2>4, <2>5 DEF RegTyped, StackTyped
  <2> QED
    BY <2>1, <2>6, <2>7, <2>8 DEF Bar0Inv, LinesTyped, NoIntxUnderMsix, cfgVars
<1>3. CASE RaiseIrq(f, r, v, rest) \/ AckIrq(f, r, v, rest) \/ Ignore(f, r, v, rest)
  <2>1. UNCHANGED <<reg, busy, cfgVars, mem>> /\ stack' = rest
    BY <1>3 DEF RaiseIrq, AckIrq, Ignore
  <2>2. RegTyped'
    BY <2>1 DEF RegTyped
  <2>3. \A fr \in FramesOf(rest) : BufWhole(fr)'
    BY <2>1, OthersWhole
  <2>4. StackTyped' /\ BusyInHandler'
    BY <2>1, <2>3 DEF StackTyped, BusyInHandler, Around
  <2>5. intx' \in [Fns -> BOOLEAN] /\ \A g \in Fns : msix[g] => ~intx'[g]
    BY <1>3 DEF RaiseIrq, RaisesIntx, AckIrq, Ignore, LinesTyped, NoIntxUnderMsix
  <2>6. msi' \subseteq [fn : PFs, vec : 0 .. Vectors - 1]
    <3>1. CASE RaiseIrq(f, r, v, rest)
      <4>1. f \in PFs /\ v \in Nat
        BY <3>1 DEF RaiseIrq
      <4>2. msi' = msi \/ (v < Vectors /\ msi' = msi \cup {[fn |-> f, vec |-> v]})
        BY <3>1 DEF RaiseIrq, Notified
      <4> QED
        BY <4>1, <4>2, Bar0Assumption DEF LinesTyped
    <3>2. CASE ~RaiseIrq(f, r, v, rest)
      BY <1>3, <3>2 DEF AckIrq, Ignore, LinesTyped
    <3> QED
      BY <3>1, <3>2
  <2> QED
    BY <2>1, <2>2, <2>4, <2>5, <2>6 DEF Bar0Inv, LinesTyped, NoIntxUnderMsix, cfgVars
<1> QED
  BY <1>1, <1>2, <1>3 DEF HandleWrite

-----------------------------------------------------------------------------
(* The steps of the running handler.                                        *)

\* A handler that goes on to its next step keeps the invariant of the stack: its
\* buffer fits, and if it was between its two accesses it still is (lines
\* 456-480).
LEMMA GoesOn ==
  ASSUME RegTyped, StackTyped, BusyInHandler, stack # <<>>,
         NEW step \in Steps, NEW buf \in Seq(Data),
         Len(buf) <= DmaMaxLen, step = "write" => Len(buf) = CopyLen(Top.fn),
         Top.step \in DmaSteps => step \in DmaSteps,
         stack' = TopAt(step, buf), UNCHANGED <<reg, busy>>
  PROVE  RegTyped' /\ StackTyped' /\ BusyInHandler'
<1>1. PICK fr \in Frames :
        /\ fr.fn = Top.fn /\ fr.step = step /\ fr.buf = buf
        /\ stack' \in Seq(Frames)
        /\ FramesOf(stack') = {fr} \cup FramesOf(Tail(stack))
        /\ FramesOf(stack) = {Top} \cup FramesOf(Tail(stack))
  BY Stepped
<1>2. BufWhole(fr)
  BY <1>1 DEF BufWhole
<1>3. \A x : BufWhole(x)' <=> BufWhole(x)
  BY DEF BufWhole, CopyLen
<1>4. \A x \in FramesOf(stack') : BufWhole(x)'
  BY <1>1, <1>2, <1>3 DEF StackTyped
<1>5. BusyInHandler'
  <2> SUFFICES ASSUME NEW g \in Fns, busy[g]
               PROVE  \E x \in FramesOf(stack') : x.fn = g /\ x.step \in DmaSteps
    BY DEF BusyInHandler
  <2> PICK x \in FramesOf(stack) : x.fn = g /\ x.step \in DmaSteps
    BY DEF BusyInHandler
  <2>1. CASE x = Top
    BY <1>1, <2>1
  <2>2. CASE x # Top
    BY <1>1, <2>2
  <2> QED
    BY <2>1, <2>2
<1> QED
  BY <1>1, <1>4, <1>5 DEF RegTyped, StackTyped

\* A handler that returns keeps it: it has cleared its busy flag, or was none of
\* those that set one (lines 479 and 521).
LEMMA GoesAway ==
  ASSUME RegTyped, LinesTyped, StackTyped, BusyInHandler, stack # <<>>,
         stack' = Tail(stack), reg' = reg,
         \/ busy' = busy /\ Top.step \notin DmaSteps
         \/ busy' = [busy EXCEPT ![Top.fn] = FALSE]
  PROVE  RegTyped' /\ StackTyped' /\ BusyInHandler'
<1>1. /\ Top \in Frames /\ stack' \in Seq(Frames)
      /\ FramesOf(stack) = {Top} \cup FramesOf(stack')
  BY Popped DEF StackTyped, Top
<1>2. \A x : BufWhole(x)' <=> BufWhole(x)
  BY DEF BufWhole, CopyLen
<1>3. \A x \in FramesOf(stack') : BufWhole(x)'
  BY <1>1, <1>2 DEF StackTyped
<1>4. BusyInHandler'
  <2> SUFFICES ASSUME NEW g \in Fns, busy'[g]
               PROVE  \E x \in FramesOf(stack') : x.fn = g /\ x.step \in DmaSteps
    BY DEF BusyInHandler
  <2>1. busy[g] /\ (Top.step \notin DmaSteps \/ g # Top.fn)
    BY <1>1 DEF LinesTyped, Frames
  <2> PICK x \in FramesOf(stack) : x.fn = g /\ x.step \in DmaSteps
    BY <2>1 DEF BusyInHandler
  <2> QED
    BY <1>1, <2>1
<1> QED
  BY <1>1, <1>3, <1>4 DEF RegTyped, StackTyped

\* The read fills the buffer with as many units as the clamped length says, also when
\* it fails (lines 461-464).
LEMMA ReadFills ==
  ASSUME RegTyped, LinesTyped, Top.fn \in Fns, DmaRead \/ DmaReadFails
  PROVE  \E buf \in Seq(Data) :
           Len(buf) = CopyLen(Top.fn) /\ stack' = TopAt("write", buf) /\ Top.step = "read"
<1> DEFINE n == CopyLen(Top.fn)
<1>1. n \in Nat /\ reg[Top.fn].src \in Nat /\ MemSize \in Nat
  BY RegKinds, Bar0Assumption
<1>2. \E buf \in [1 .. n -> Data] : stack' = TopAt("write", buf) /\ Top.step = "read"
  <2>1. CASE DmaRead
    <3> DEFINE buf == [i \in 1 .. n |-> mem[reg[Top.fn].src + i - 1]]
    <3>1. /\ reg[Top.fn].src + n <= MemSize /\ stack' = TopAt("write", buf)
          /\ Top.step = "read"
      BY <2>1 DEF DmaRead, DmaOk, Mapped, Running
    <3>2. \A i \in 1 .. n : mem[reg[Top.fn].src + i - 1] \in Data
      <4> SUFFICES ASSUME NEW i \in 1 .. n PROVE mem[reg[Top.fn].src + i - 1] \in Data
        OBVIOUS
      <4>1. reg[Top.fn].src + i - 1 \in Addrs
        BY <1>1, <3>1 DEF Addrs
      <4> QED
        BY <4>1 DEF LinesTyped
    <3>3. buf \in [1 .. n -> Data]
      BY <3>2
    <3> HIDE DEF buf, n
    <3> QED
      BY <3>1, <3>3
  <2>2. CASE DmaReadFails
    BY <2>2 DEF DmaReadFails, Running
  <2> QED
    BY <2>1, <2>2
<1> PICK buf \in [1 .. n -> Data] : stack' = TopAt("write", buf) /\ Top.step = "read"
  BY <1>2
<1> HIDE DEF n
<1>3. buf \in Seq(Data) /\ Len(buf) = n
  BY <1>1, SeqDef, LenProperties, SMTT(30)
<1> QED
  BY <1>3 DEF n

\* Each step of a handler keeps the invariant (lines 456-480 and 506-523).
LEMMA HandlerStepInv ==
  ASSUME Bar0Inv, HandlerStep
  PROVE  Bar0Inv'
<1> USE DEF Bar0Inv
<1>0. stack # <<>>
  BY DEF HandlerStep, DmaRead, DmaReadFails, DmaWrite, DmaDone, P2pWrite, P2pRefused,
         Return, Running
<1>1. /\ Top \in Frames /\ Top.fn \in Fns /\ BufWhole(Top) /\ Top.buf \in Seq(Data)
      /\ FramesOf(stack) = {Top} \cup FramesOf(Tail(stack))
  <2>1. Top \in Frames /\ FramesOf(stack) = {Top} \cup FramesOf(Tail(stack))
    BY <1>0, Popped DEF StackTyped, Top
  <2> QED
    BY <2>1 DEF Frames, StackTyped
<1>2. /\ CopyLen(Top.fn) \in Nat /\ CopyLen(Top.fn) <= DmaMaxLen
      /\ reg[Top.fn].src \in Nat /\ reg[Top.fn].dst \in Nat
      /\ DmaMaxLen \in Nat /\ MemSize \in Nat
  BY <1>1, RegKinds, Bar0Assumption
<1>3. /\ <<>> \in Seq(Data) /\ Len(<<>>) = 0 /\ 0 <= DmaMaxLen
      /\ "notify" \in Steps /\ "notify" \in DmaSteps /\ "notify" # "write"
      /\ "return" \in Steps /\ "return" # "write" /\ "p2p" \notin DmaSteps
  BY <1>2, EmptySeq DEF Steps, DmaSteps
<1>4. CASE DmaRead \/ DmaReadFails
  <2>1. PICK buf \in Seq(Data) :
          Len(buf) = CopyLen(Top.fn) /\ stack' = TopAt("write", buf) /\ Top.step = "read"
    BY <1>1, <1>4, ReadFills
  <2>2. UNCHANGED <<reg, busy, cfgVars, intx, mem, msi>>
    BY <1>4 DEF DmaRead, DmaReadFails
  <2>3. RegTyped' /\ StackTyped' /\ BusyInHandler'
    BY <1>0, <1>2, <2>1, <2>2, GoesOn DEF Steps, DmaSteps
  <2> QED
    BY <2>2, <2>3 DEF LinesTyped, NoIntxUnderMsix, cfgVars
<1>6. CASE DmaWrite
  <2> DEFINE n == CopyLen(Top.fn)
             dst == reg[Top.fn].dst
  <2>1. PICK k \in 0 .. n :
          mem' = [a \in Addrs |-> IF a \in dst .. dst + k - 1
                                  THEN Top.buf[a - dst + 1] ELSE mem[a]]
    BY <1>6 DEF DmaWrite
  <2>2. /\ stack' = TopAt("notify", <<>>) /\ Top.step = "write"
        /\ UNCHANGED <<reg, busy, cfgVars, intx, msi>>
    BY <1>6 DEF DmaWrite, Running
  <2>3. \A a \in Addrs : a \in dst .. dst + k - 1 => Top.buf[a - dst + 1] \in Data
    <3> SUFFICES ASSUME NEW a \in Addrs, a \in dst .. dst + k - 1
                 PROVE  Top.buf[a - dst + 1] \in Data
      OBVIOUS
    <3>1. Len(Top.buf) = n
      BY <1>1, <2>2 DEF BufWhole
    <3>2. a - dst + 1 \in 1 .. n
      BY <1>2
    <3> QED
      BY <1>1, <3>1, <3>2, ElementOfSeq
  <2>4. mem' \in [Addrs -> Data]
    BY <2>1, <2>3 DEF LinesTyped
  <2>5. RegTyped' /\ StackTyped' /\ BusyInHandler'
    BY <1>0, <1>3, <2>2, GoesOn
  <2> QED
    BY <2>2, <2>4, <2>5 DEF LinesTyped, NoIntxUnderMsix, cfgVars
<1>7. CASE DmaDone
  <2>1. /\ busy' = [busy EXCEPT ![Top.fn] = FALSE] /\ stack' = Tail(stack)
        /\ msi' \in {msi, msi \cup {[fn |-> Top.fn, vec |-> 0]}}
        /\ msi' # msi => Top.fn \in PFs
        /\ UNCHANGED <<reg, cfgVars, intx, mem>>
    BY <1>7 DEF DmaDone, BusyAfter, Notified
  <2>2. RegTyped' /\ StackTyped' /\ BusyInHandler'
    BY <1>0, <2>1, GoesAway
  <2>3. busy' \in [Fns -> BOOLEAN]
    BY <2>1 DEF LinesTyped
  <2>4. msi' \subseteq [fn : PFs, vec : 0 .. Vectors - 1]
    BY <2>1, Bar0Assumption DEF LinesTyped
  <2> QED
    BY <2>1, <2>2, <2>3, <2>4 DEF LinesTyped, NoIntxUnderMsix, cfgVars
<1>8. CASE P2pWrite
  <2> DEFINE t == reg[Top.fn].p2p_addr
             rest == TopAt("return", <<>>)
  <2>1. /\ t # NoTarget /\ ~Engaged(t.fn) /\ Top.step = "p2p"
        /\ HandleWrite(t.fn, t.reg, reg[Top.fn].p2p_data, rest)
    BY <1>8 DEF P2pWrite, Running
  <2>2. /\ t.fn \in Fns /\ t.reg # "p2p_addr" /\ reg[Top.fn].p2p_data \in Nat
    BY <1>1, <2>1, RegKinds DEF Targets
  <2>3. PICK fr \in Frames :
          /\ fr.fn = Top.fn /\ fr.step = "return" /\ fr.buf = <<>>
          /\ rest \in Seq(Frames)
          /\ FramesOf(rest) = {fr} \cup FramesOf(Tail(stack))
    BY <1>0, <1>3, Stepped, ZenonT(30)
  <2>4. \A x \in FramesOf(stack) : x.fn # t.fn
    BY <2>1, EngagedFrames
  <2> HIDE DEF t, rest
  <2>5. BufWhole(fr)
    BY <1>2, <1>3, <2>3 DEF BufWhole
  <2>6. \A x \in FramesOf(rest) : BufWhole(x) /\ x.fn # t.fn
    BY <1>1, <2>3, <2>4, <2>5 DEF StackTyped
  <2>7. ASSUME NEW g \in Fns, busy[g]
        PROVE  \E x \in FramesOf(rest) : x.fn = g /\ x.step \in DmaSteps
    <3> PICK x \in FramesOf(stack) : x.fn = g /\ x.step \in DmaSteps
      BY <2>7 DEF BusyInHandler
    <3>1. x # Top
      BY <2>1 DEF DmaSteps
    <3> QED
      BY <1>1, <2>3, <3>1
  <2>8. Around(t.fn, rest)
    BY <2>3, <2>6, <2>7 DEF Around
  <2> QED
    BY <2>1, <2>2, <2>8, HandleWriteInv
<1>9. CASE P2pRefused
  <2>1. /\ stack' = TopAt("return", <<>>) /\ Top.step = "p2p"
        /\ UNCHANGED <<reg, busy, cfgVars, intx, mem, msi>>
    BY <1>9 DEF P2pRefused, AfterRefusal, Running
  <2>2. RegTyped' /\ StackTyped' /\ BusyInHandler'
    BY <1>0, <1>3, <2>1, GoesOn
  <2> QED
    BY <2>1, <2>2 DEF LinesTyped, NoIntxUnderMsix, cfgVars
<1>10. CASE Return
  <2>1. /\ stack' = Tail(stack) /\ Top.step = "return"
        /\ UNCHANGED <<reg, busy, cfgVars, intx, mem, msi>>
    BY <1>10 DEF Return, Running
  <2>2. RegTyped' /\ StackTyped' /\ BusyInHandler'
    BY <1>0, <2>1, GoesAway DEF DmaSteps
  <2> QED
    BY <2>1, <2>2 DEF LinesTyped, NoIntxUnderMsix, cfgVars
<1> QED
  BY <1>4, <1>6, <1>7, <1>8, <1>9, <1>10 DEF HandlerStep

-----------------------------------------------------------------------------
(* The steps of the host.                                                   *)

\* Between two handlers nothing is under way, so a register write of the host
\* finds every function free (lines 436-545).
LEMMA HostWriteInv ==
  ASSUME Bar0Inv, NEW f \in Fns, NEW r, NEW v,
         IF r = "p2p_addr" THEN v \in Targets ELSE v \in Nat,
         stack = <<>>, HandleWrite(f, r, v, <<>>)
  PROVE  Bar0Inv'
<1>1. <<>> \in Seq(Frames) /\ FramesOf(<<>>) = {}
  BY EmptySeq, NoFrames
<1>2. Around(f, <<>>)
  BY <1>1 DEF Around, Bar0Inv, BusyInHandler
<1> QED
  BY <1>2, HandleWriteInv DEF Bar0Inv

\* What only touches config space, the line, memory or the messages leaves the
\* registers, the flags and the handlers as they are.
LEMMA HandlersKept ==
  ASSUME RegTyped, StackTyped, BusyInHandler, UNCHANGED <<reg, busy, stack>>
  PROVE  RegTyped' /\ StackTyped' /\ BusyInHandler'
<1>1. \A x : BufWhole(x)' <=> BufWhole(x)
  BY DEF BufWhole, CopyLen
<1> QED
  BY <1>1 DEF RegTyped, StackTyped, BusyInHandler

\* Writing config space keeps the invariant: enabling MSI-X takes the line down.
LEMMA WriteConfigInv ==
  ASSUME Bar0Inv, NEW f \in Fns, NEW bm \in BOOLEAN, NEW mx \in BOOLEAN,
         WriteConfig(f, bm, mx)
  PROVE  Bar0Inv'
<1>1. RegTyped' /\ StackTyped' /\ BusyInHandler'
  BY HandlersKept DEF Bar0Inv, WriteConfig
<1>2. /\ bus_master' \in [Fns -> BOOLEAN] /\ msix' \in [Fns -> BOOLEAN]
      /\ intx' \in [Fns -> BOOLEAN]
  BY DEF Bar0Inv, LinesTyped, WriteConfig
<1>3. \A g \in Fns : msix'[g] => ~intx'[g]
  BY DEF Bar0Inv, LinesTyped, NoIntxUnderMsix, WriteConfig
<1> QED
  BY <1>1, <1>2, <1>3 DEF Bar0Inv, LinesTyped, NoIntxUnderMsix, WriteConfig

\* A function level reset keeps it: the registers stay, the line goes down.
LEMMA ResetInv ==
  ASSUME Bar0Inv, NEW f \in Fns, ResetFunction(f)
  PROVE  Bar0Inv'
<1>1. RegTyped' /\ StackTyped' /\ BusyInHandler'
  BY HandlersKept DEF Bar0Inv, ResetFunction
<1>2. /\ bus_master' \in [Fns -> BOOLEAN] /\ msix' \in [Fns -> BOOLEAN]
      /\ intx' \in [Fns -> BOOLEAN] /\ \A g \in Fns : msix'[g] => ~intx'[g]
  BY DEF Bar0Inv, LinesTyped, NoIntxUnderMsix, ResetFunction
<1> QED
  BY <1>1, <1>2 DEF Bar0Inv, LinesTyped, NoIntxUnderMsix, ResetFunction

\* What only changes memory, within its type, and takes messages keeps it.
LEMMA MemoryInv ==
  ASSUME Bar0Inv, mem' \in [Addrs -> Data], msi' \subseteq msi,
         UNCHANGED <<reg, busy, cfgVars, intx, stack>>
  PROVE  Bar0Inv'
<1>1. RegTyped' /\ StackTyped' /\ BusyInHandler'
  BY HandlersKept DEF Bar0Inv
<1> QED
  BY <1>1 DEF Bar0Inv, LinesTyped, NoIntxUnderMsix, cfgVars

\* Each step of the host keeps the invariant.
LEMMA HostStepInv ==
  ASSUME Bar0Inv, HostStep
  PROVE  Bar0Inv'
<1>1. CASE \E w \in HostWrites : HostWrite(w)
  <2> PICK w \in HostWrites : HostWrite(w)
    BY <1>1
  <2>1. w.fn \in Fns /\ IF w.reg = "p2p_addr" THEN w.val \in Targets ELSE w.val \in Nat
    BY Bar0Assumption
  <2>2. stack = <<>> /\ HandleWrite(w.fn, w.reg, w.val, <<>>)
    BY DEF HostWrite
  <2> QED
    BY <2>1, <2>2, HostWriteInv
<1>2. CASE \E f \in Fns, bm, mx \in BOOLEAN : WriteConfig(f, bm, mx)
  BY <1>2, WriteConfigInv
<1>3. CASE \E f \in Fns : ResetFunction(f)
  BY <1>3, ResetInv
<1>4. CASE \E a \in Addrs, x \in Data : StoreData(a, x)
  <2>1. mem' \in [Addrs -> Data]
    BY <1>4 DEF StoreData, Bar0Inv, LinesTyped
  <2>2. msi' \subseteq msi /\ UNCHANGED <<reg, busy, cfgVars, intx, stack>>
    BY <1>4 DEF StoreData
  <2> QED
    BY <2>1, <2>2, MemoryInv
<1>5. CASE \E m \in msi : TakeMsi(m)
  <2>1. mem' \in [Addrs -> Data]
    BY <1>5 DEF TakeMsi, Bar0Inv, LinesTyped
  <2>2. msi' \subseteq msi /\ UNCHANGED <<reg, busy, cfgVars, intx, stack>>
    BY <1>5 DEF TakeMsi
  <2> QED
    BY <2>1, <2>2, MemoryInv
<1> QED
  BY <1>1, <1>2, <1>3, <1>4, <1>5 DEF HostStep

\* At power-on the registers are clear and no handler runs.
LEMMA Bar0InitInv == Bar0Init => Bar0Inv
<1> SUFFICES ASSUME Bar0Init PROVE Bar0Inv
  OBVIOUS
<1>1. <<>> \in Seq(Frames) /\ FramesOf(<<>>) = {}
  BY EmptySeq, NoFrames
<1>2. RegTyped
  BY Bar0Assumption DEF Bar0Init, RegTyped, RegNames, Kind
<1>3. LinesTyped /\ NoIntxUnderMsix
  BY Bar0Assumption DEF Bar0Init, LinesTyped, NoIntxUnderMsix
<1>4. StackTyped /\ BusyInHandler
  BY <1>1 DEF Bar0Init, StackTyped, BusyInHandler
<1> QED
  BY <1>2, <1>3, <1>4 DEF Bar0Inv

\* Every step keeps the invariant, and so does none.
LEMMA Bar0NextInv ==
  ASSUME Bar0Inv, [Bar0Next]_bar0Vars
  PROVE  Bar0Inv'
<1>1. CASE UNCHANGED bar0Vars
  <2>1. /\ mem' \in [Addrs -> Data] /\ msi' \subseteq msi
        /\ UNCHANGED <<reg, busy, cfgVars, intx, stack>>
    BY <1>1 DEF bar0Vars, Bar0Inv, LinesTyped
  <2> QED
    BY <2>1, MemoryInv
<1> QED
  BY <1>1, HandlerStepInv, HostStepInv DEF Bar0Next

-----------------------------------------------------------------------------
(* What the invariant says.                                                 *)

\* The type invariant follows.
LEMMA Typed == Bar0Inv => Bar0TypeOK
<1> SUFFICES ASSUME Bar0Inv PROVE Bar0TypeOK
  OBVIOUS
<1>1. \A f \in Fns : /\ reg[f].src \in Nat /\ reg[f].dst \in Nat /\ reg[f].len \in Nat
                     /\ reg[f].factorial \in -1 .. FactorialMax
  BY RegKinds DEF Bar0Inv
<1>2. \A i \in DOMAIN stack :
        /\ stack[i].fn \in Fns
        /\ stack[i].step \in {"read", "write", "notify", "p2p", "return"}
        /\ Len(stack[i].buf) <= DmaMaxLen
  <2> SUFFICES ASSUME NEW i \in DOMAIN stack
               PROVE  /\ stack[i].fn \in Fns /\ stack[i].step \in Steps
                      /\ Len(stack[i].buf) <= DmaMaxLen
    BY DEF Steps, DmaSteps
  <2>1. stack[i] \in Frames /\ stack[i] \in FramesOf(stack)
    BY LenProperties DEF Bar0Inv, StackTyped, FramesOf
  <2> QED
    BY <2>1 DEF Bar0Inv, StackTyped, Frames, BufWhole
<1> QED
  BY <1>1, <1>2 DEF Bar0TypeOK, Bar0Inv, LinesTyped

\* Every register, flag, frame, unit of memory and message has its type: the
\* buffer on the stack of edu_pci_dma_mmio never outgrows DMA_MAX_LEN, whatever
\* was written to LEN and by whom (lines 456-480).
THEOREM Bar0TypeCorrect == Bar0Spec => []Bar0TypeOK
<1>1. Bar0Inv /\ [Bar0Next]_bar0Vars => Bar0Inv'
  BY Bar0NextInv
<1> QED
  BY <1>1, Bar0InitInv, Typed, PTL DEF Bar0Spec

\* A function in MSI-X mode never drives its INTx line, in whatever order MSI-X
\* is switched and interrupts are raised and acknowledged (lines 487-495).
THEOREM LineDownUnderMsix == Bar0Spec => []NoIntxUnderMsix
<1>1. Bar0Inv /\ [Bar0Next]_bar0Vars => Bar0Inv'
  BY Bar0NextInv
<1>2. Bar0Inv => NoIntxUnderMsix
  BY DEF Bar0Inv
<1> QED
  BY <1>1, <1>2, Bar0InitInv, PTL DEF Bar0Spec

\* A function without a running handler reads ready.
LEMMA Ready == Bar0Inv => AcceptsNext
<1> SUFFICES ASSUME Bar0Inv, NEW f \in Fns, ~Engaged(f)
             PROVE  Read(f, "status") = 1 /\ Read(f, "dma_cmd") = 0
  BY DEF AcceptsNext
<1>1. \A fr \in FramesOf(stack) : fr.fn # f
  BY DEF Engaged, FramesOf
<1>2. ~busy[f]
  BY <1>1 DEF Bar0Inv, BusyInHandler
<1> QED
  BY <1>2 DEF Read

\* When the write that started a transfer has returned the function reads ready
\* and accepts the next one, however transfers, peer-to-peer writes, switches of
\* config space and resets were interleaved before (lines 417 and 454).
THEOREM ReadyAfterWrite == Bar0Spec => []AcceptsNext
<1>1. Bar0Inv /\ [Bar0Next]_bar0Vars => Bar0Inv'
  BY Bar0NextInv
<1> QED
  BY <1>1, Bar0InitInv, Ready, PTL DEF Bar0Spec

-----------------------------------------------------------------------------
(* A chain of peer-to-peer writes is short: what PeersReturn rests on besides *)
(* the fairness of the handlers.                                             *)

\* Only the innermost handler acts; those it was called from only have to return.
WaitingIn(s) == s # <<>> => \A fr \in FramesOf(Tail(s)) : fr.step = "return"

\* The functions a peer-to-peer write can still reach.
FreeIn(s) == Fns \ {fr.fn : fr \in FramesOf(s)}

\* The steps a handler takes by itself; one about to write to a peer may set off
\* two for each function that is still free.
StepsOf(s) ==
  CASE Head(s).step = "read"   -> 3
    [] Head(s).step = "write"  -> 2
    [] Head(s).step = "notify" -> 1
    [] Head(s).step = "return" -> 1
    [] Head(s).step = "p2p"    -> 2 * Cardinality(FreeIn(s)) + 3

\* The most steps until the register write returns: those of the innermost
\* handler, and one for each that waits for it.
StepsIn(s) == IF s = <<>> THEN 0 ELSE StepsOf(s) + Len(s) - 1
StepsLeft == StepsIn(stack)

\* Every step of a handler leaves fewer to take, the host adds none, and a register
\* write starts with at most two for each function and one (lines 506-523).
HandlersCountDown ==
  /\ HandlerStep => StepsLeft' \in Nat /\ StepsLeft' < StepsLeft
  /\ stack # <<>> /\ ~HandlerStep => StepsLeft' = StepsLeft
  /\ stack = <<>> => StepsLeft' <= 2 * Cardinality(Fns) + 1

\* The free functions can be counted.
LEMMA FreeCounted ==
  ASSUME NEW s
  PROVE  /\ IsFiniteSet(FreeIn(s)) /\ Cardinality(FreeIn(s)) \in Nat
         /\ Cardinality(FreeIn(s)) <= Cardinality(Fns) /\ Cardinality(Fns) \in Nat
<1>1. FreeIn(s) \in SUBSET Fns /\ IsFiniteSet(Fns)
  BY Bar0Assumption DEF FreeIn
<1>2. IsFiniteSet(FreeIn(s)) /\ Cardinality(FreeIn(s)) <= Cardinality(Fns)
  BY <1>1, FS_Subset
<1> QED
  BY <1>1, <1>2, FS_CardinalityType

\* A handler that starts takes a free function away, which pays for its own steps.
LEMMA StartCounts ==
  ASSUME NEW f, NEW step \in {"read", "p2p"}, NEW rest \in Seq(Frames), f \in FreeIn(rest),
         NEW s, s = <<Frame(f, step)>> \o rest,
         \A fr \in FramesOf(rest) : fr.step = "return"
  PROVE  /\ WaitingIn(s) /\ StepsIn(s) \in Nat
         /\ StepsIn(s) <= Len(rest) + 2 * Cardinality(FreeIn(rest)) + 1
<1> DEFINE x == Frame(f, step)
<1>0. f \in Fns /\ step \in Steps \ {"write"}
  BY DEF FreeIn, Steps, DmaSteps
<1>1. x \in Frames /\ x.fn = f /\ x.step = step
  BY <1>0, FrameTyped
<1> HIDE DEF x
<1>2. /\ FramesOf(s) = {x} \cup FramesOf(rest) /\ s # <<>>
      /\ Head(s) = x /\ Tail(s) = rest
  BY <1>1, Pushed, ZenonT(30) DEF x
<1>3. Len(s) = Len(rest) + 1 /\ Len(rest) \in Nat
  BY <1>1, SMT DEF x
<1>4. FreeIn(s) = FreeIn(rest) \ {f}
  BY <1>1, <1>2 DEF FreeIn
<1> DEFINE c == Cardinality(FreeIn(rest))
<1>5. Cardinality(FreeIn(s)) = c - 1 /\ Cardinality(FreeIn(s)) \in Nat /\ c \in Nat
  BY <1>4, FreeCounted, FS_RemoveElement
<1> HIDE DEF c
<1>6. StepsIn(s) = Len(rest) + (IF step = "read" THEN 3 ELSE 2 * (c - 1) + 3)
  BY <1>1, <1>2, <1>3, <1>5 DEF StepsIn, StepsOf
<1>7. WaitingIn(s)
  BY <1>2 DEF WaitingIn
<1> QED
  BY <1>3, <1>5, <1>6, <1>7 DEF c

\* A register write starts a handler on top of the rest, or is done at once (lines
\* 436-545).
LEMMA WriteStarts ==
  ASSUME NEW f, NEW r, NEW v, NEW rest, HandleWrite(f, r, v, rest)
  PROVE  \/ stack' = rest
         \/ \E step \in {"read", "p2p"} : stack' = <<Frame(f, step)>> \o rest
BY DEF HandleWrite, SetRegister, SetFactorial, StartDma, RaiseIrq, AckIrq, StartP2p,
       Ignore

\* A step that leaves the innermost handler on the stack.
LEMMA StepCounts ==
  ASSUME StackTyped, stack # <<>>, WaitingIn(stack),
         NEW step \in Steps, NEW buf \in Seq(Data), NEW s, s = TopAt(step, buf)
  PROVE  /\ s \in Seq(Frames) /\ s # <<>> /\ WaitingIn(s) /\ FreeIn(s) = FreeIn(stack)
         /\ Head(s).step = step /\ Len(s) = Len(stack)
         /\ Len(stack) \in Nat /\ Len(stack) >= 1
         /\ step = "return" => \A fr \in FramesOf(s) : fr.step = "return"
<1>1. PICK fr \in Frames :
        /\ fr.fn = Top.fn /\ fr.step = step
        /\ s \in Seq(Frames) /\ FramesOf(s) = {fr} \cup FramesOf(Tail(stack))
        /\ Head(s) = fr /\ Len(s) = Len(stack)
        /\ FramesOf(stack) = {Top} \cup FramesOf(Tail(stack))
  BY Stepped
<1>2. Len(stack) \in Nat /\ Len(stack) >= 1
  BY EmptySeq, LenProperties, SMT DEF StackTyped
<1>3. Tail(s) = Tail(stack) /\ s # <<>>
  <2> DEFINE x == [Top EXCEPT !.step = step, !.buf = buf]
  <2>1. x \in Frames /\ Tail(stack) \in Seq(Frames)
    BY Popped DEF StackTyped, Top, Frames
  <2>2. s = <<x>> \o Tail(stack)
    BY DEF TopAt
  <2> HIDE DEF x
  <2> QED
    BY <2>1, <2>2, Pushed, ZenonT(30)
<1>4. FreeIn(s) = FreeIn(stack)
  BY <1>1 DEF FreeIn
<1> QED
  BY <1>1, <1>2, <1>3, <1>4 DEF WaitingIn

\* Each step of a handler leaves fewer steps to take (lines 456-480, 506-523).
LEMMA HandlerStepCounts ==
  ASSUME Bar0Inv, WaitingIn(stack), HandlerStep
  PROVE  WaitingIn(stack)' /\ StepsLeft' \in Nat /\ StepsLeft' < StepsLeft
<1>0. stack # <<>> /\ StackTyped
  BY DEF HandlerStep, DmaRead, DmaReadFails, DmaWrite, DmaDone, P2pWrite, P2pRefused,
         Return, Running, Bar0Inv
<1>1. /\ Top \in Frames /\ Top.fn \in Fns /\ stack \in Seq(Frames)
      /\ FramesOf(stack) = {Top} \cup FramesOf(Tail(stack))
  <2>1. Top \in Frames /\ FramesOf(stack) = {Top} \cup FramesOf(Tail(stack))
    BY <1>0, Popped DEF StackTyped, Top
  <2> QED
    BY <1>0, <2>1 DEF StackTyped, Frames
<1>2. Len(stack) \in Nat /\ Len(stack) >= 1 /\ Cardinality(FreeIn(stack)) \in Nat
  BY <1>0, <1>1, EmptySeq, LenProperties, FreeCounted, SMT
<1>3. StepsLeft = StepsOf(stack) + Len(stack) - 1
  BY <1>0 DEF StepsLeft, StepsIn
<1>4. CASE DmaRead \/ DmaReadFails
  <2>1. PICK buf \in Seq(Data) : stack' = TopAt("write", buf) /\ Top.step = "read"
    BY <1>1, <1>4, ReadFills DEF Bar0Inv
  <2>2. "write" \in Steps
    BY DEF Steps, DmaSteps
  <2>3. /\ stack' # <<>> /\ WaitingIn(stack') /\ Head(stack').step = "write"
        /\ Len(stack') = Len(stack)
    BY <1>0, <2>1, <2>2, StepCounts
  <2> QED
    BY <1>2, <1>3, <2>1, <2>3 DEF StepsLeft, StepsIn, StepsOf, Top
<1>5. CASE DmaWrite \/ P2pRefused
  <2>1. \E step \in {"notify", "return"} : stack' = TopAt(step, <<>>)
    BY <1>5 DEF DmaWrite, P2pRefused, AfterRefusal
  <2> PICK step \in {"notify", "return"} : stack' = TopAt(step, <<>>)
    BY <2>1
  <2>2. step \in Steps /\ <<>> \in Seq(Data) /\ Top.step \in {"write", "p2p"}
    BY <1>5, EmptySeq DEF Steps, DmaSteps, DmaWrite, P2pRefused, Running
  <2>3. /\ stack' # <<>> /\ WaitingIn(stack') /\ Head(stack').step = step
        /\ Len(stack') = Len(stack)
    BY <1>0, <2>2, StepCounts
  <2> QED
    BY <1>2, <1>3, <2>2, <2>3 DEF StepsLeft, StepsIn, StepsOf, Top
<1>6. CASE DmaDone \/ Return
  <2>1. stack' = Tail(stack) /\ Top.step \in {"notify", "return"}
    BY <1>6 DEF DmaDone, Return, Running
  <2>2. Len(stack') = Len(stack) - 1 /\ stack' \in Seq(Frames)
    BY <1>0, <1>1, <2>1, HeadTailProperties
  <2>3. CASE stack' = <<>>
    BY <1>2, <1>3, <2>1, <2>3 DEF StepsLeft, StepsIn, StepsOf, Top, WaitingIn
  <2>4. CASE stack' # <<>>
    <3>1. FramesOf(stack') = {Head(stack')} \cup FramesOf(Tail(stack'))
      BY <2>2, <2>4, Popped, Zenon
    <3>2. Head(stack').step = "return" /\ WaitingIn(stack')
      BY <1>0, <2>1, <3>1 DEF WaitingIn
    <3>3. Len(stack') \in Nat
      BY <2>2, LenProperties
    <3> QED
      BY <1>2, <1>3, <2>1, <2>2, <2>4, <3>2, <3>3 DEF StepsLeft, StepsIn, StepsOf, Top
  <2> QED
    BY <2>3, <2>4
<1>7. CASE P2pWrite
  <2> DEFINE t == reg[Top.fn].p2p_addr
             rest == TopAt("return", <<>>)
  <2>1. /\ t # NoTarget /\ ~Engaged(t.fn) /\ Top.step = "p2p"
        /\ HandleWrite(t.fn, t.reg, reg[Top.fn].p2p_data, rest)
    BY <1>7 DEF P2pWrite, Running
  <2>2. t.fn \in Fns
    BY <1>1, <2>1, RegKinds DEF Targets, Bar0Inv
  <2>3. "return" \in Steps /\ <<>> \in Seq(Data)
    BY EmptySeq DEF Steps
  <2>4. /\ rest \in Seq(Frames) /\ rest # <<>> /\ WaitingIn(rest)
        /\ FreeIn(rest) = FreeIn(stack)
        /\ Head(rest).step = "return" /\ Len(rest) = Len(stack)
        /\ \A fr \in FramesOf(rest) : fr.step = "return"
    BY <1>0, <2>3, StepCounts
  <2>5. t.fn \in FreeIn(rest)
    BY <2>1, <2>2, <2>4, EngagedFrames DEF FreeIn
  <2>6. StepsLeft = 2 * Cardinality(FreeIn(stack)) + 3 + Len(stack) - 1
    BY <1>2, <1>3, <2>1 DEF StepsOf, Top
  <2>7. \/ stack' = rest
        \/ \E step \in {"read", "p2p"} : stack' = <<Frame(t.fn, step)>> \o rest
    BY <2>1, WriteStarts
  <2> HIDE DEF t, rest
  <2>8. CASE stack' = rest
    <3>1. StepsIn(rest) = Len(stack)
      BY <1>2, <2>4 DEF StepsIn, StepsOf
    <3> QED
      BY <1>2, <2>4, <2>6, <2>8, <3>1 DEF StepsLeft
  <2>9. CASE \E step \in {"read", "p2p"} : stack' = <<Frame(t.fn, step)>> \o rest
    <3>1. /\ WaitingIn(stack') /\ StepsIn(stack') \in Nat
          /\ StepsIn(stack') <= Len(rest) + 2 * Cardinality(FreeIn(rest)) + 1
      BY <2>4, <2>5, <2>9, StartCounts
    <3> QED
      BY <1>2, <2>4, <2>6, <3>1 DEF StepsLeft
  <2> QED
    BY <2>7, <2>8, <2>9
<1> QED
  BY <1>4, <1>5, <1>6, <1>7 DEF HandlerStep

\* A register write that comes from outside finds every function free (lines 436-545).
LEMMA OutsideWriteCounts ==
  ASSUME NEW f \in Fns, NEW r, NEW v, HandleWrite(f, r, v, <<>>)
  PROVE  WaitingIn(stack)' /\ StepsLeft' <= 2 * Cardinality(Fns) + 1
<1>1. <<>> \in Seq(Frames) /\ FramesOf(<<>>) = {} /\ Len(<<>>) = 0
  BY EmptySeq, NoFrames
<1>2. FreeIn(<<>>) = Fns /\ Cardinality(Fns) \in Nat
  BY <1>1, FreeCounted DEF FreeIn
<1>3. CASE stack' = <<>>
  BY <1>2, <1>3 DEF StepsLeft, StepsIn, WaitingIn
<1>4. CASE \E step \in {"read", "p2p"} : stack' = <<Frame(f, step)>> \o <<>>
  <2>1. /\ WaitingIn(stack') /\ StepsIn(stack') \in Nat
        /\ StepsIn(stack') <= Len(<<>>) + 2 * Cardinality(FreeIn(<<>>)) + 1
    BY <1>1, <1>2, <1>4, StartCounts
  <2> QED
    BY <1>1, <1>2, <2>1 DEF StepsLeft
<1> QED
  BY <1>3, <1>4, WriteStarts

\* The host writes registers when no handler runs, and touches none otherwise.
LEMMA HostStepCounts ==
  ASSUME WaitingIn(stack), HostStep
  PROVE  /\ WaitingIn(stack)'
         /\ stack # <<>> => StepsLeft' = StepsLeft
         /\ stack = <<>> => StepsLeft' <= 2 * Cardinality(Fns) + 1
<1>1. CASE \E w \in HostWrites : HostWrite(w)
  <2> PICK w \in HostWrites : HostWrite(w)
    BY <1>1
  <2>1. w.fn \in Fns
    BY Bar0Assumption
  <2> QED
    BY <2>1, OutsideWriteCounts DEF HostWrite
<1>2. CASE ~ \E w \in HostWrites : HostWrite(w)
  <2>1. stack' = stack
    BY <1>2 DEF HostStep, WriteConfig, ResetFunction, StoreData, TakeMsi
  <2>2. StepsIn(<<>>) = 0 /\ Cardinality(Fns) \in Nat
    BY FreeCounted DEF StepsIn
  <2> QED
    BY <2>1, <2>2 DEF StepsLeft
<1> QED
  BY <1>1, <1>2

\* Handlers below the innermost one only wait for it.
LEMMA ChainInvariance == Bar0Spec => [](Bar0Inv /\ WaitingIn(stack))
<1>1. Bar0Init => Bar0Inv /\ WaitingIn(stack)
  BY Bar0InitInv DEF Bar0Init, WaitingIn
<1>2. Bar0Inv /\ WaitingIn(stack) /\ [Bar0Next]_bar0Vars => (Bar0Inv /\ WaitingIn(stack))'
  <2> SUFFICES ASSUME Bar0Inv, WaitingIn(stack), [Bar0Next]_bar0Vars
               PROVE  WaitingIn(stack)'
    BY Bar0NextInv
  <2>1. CASE UNCHANGED bar0Vars
    BY <2>1 DEF bar0Vars, WaitingIn
  <2> QED
    BY <2>1, HandlerStepCounts, HostStepCounts DEF Bar0Next
<1> QED
  BY <1>1, <1>2, PTL DEF Bar0Spec

\* A register write returns after at most two steps for each function and one, though
\* the peers it writes to may aim at each other, whatever the registers hold and
\* whichever accesses fail (lines 506-523).
THEOREM ChainIsShort == Bar0Spec => [][HandlersCountDown]_bar0Vars
<1>1. ASSUME Bar0Inv, WaitingIn(stack), [Bar0Next]_bar0Vars
      PROVE  [HandlersCountDown]_bar0Vars
  <2>1. CASE HandlerStep
    <3>1. stack # <<>>
      BY <2>1 DEF HandlerStep, DmaRead, DmaReadFails, DmaWrite, DmaDone, P2pWrite,
                  P2pRefused, Return, Running
    <3> QED
      BY <1>1, <2>1, <3>1, HandlerStepCounts DEF HandlersCountDown
  <2>2. CASE HostStep /\ ~HandlerStep
    BY <1>1, <2>2, HostStepCounts DEF HandlersCountDown
  <2> QED
    BY <1>1, <2>1, <2>2 DEF Bar0Next
<1> QED
  BY <1>1, ChainInvariance, PTL DEF Bar0Spec

-----------------------------------------------------------------------------
(* The function between its two owners.  What the driver holds depends on    *)
(* where probe or remove is.                                                 *)

HeldAt ==
  [none |-> {}, vfio |-> {}, edu |-> {}, enable |-> {"edu"},
   region |-> {"edu", "enable"}, iomap |-> {"edu", "enable", "region"},
   test |-> Resources, edu_pci |-> Resources, un_iomap |-> Resources,
   un_region |-> {"edu", "enable", "region"}, un_enable |-> {"edu", "enable"},
   un_edu |-> {"edu"}]

\* Where the program is once it has claimed BAR0, and once it masters the bus.
Mastering == {"msix", "map", "scratch", "raise", "wait_raise", "fill", "src", "dst",
              "len", "cmd", "wait_dma", "check"}
Claimed == {"master"} \cup Mastering

DriverInv ==
  /\ driver \in DOMAIN HeldAt
  /\ held = HeldAt[driver]

OwnerInv ==
  /\ owner \in {"none", "edu_pci", "vfio"}
  /\ owner = "edu_pci" <=> "region" \in held
  /\ owner = "vfio" => prog # "off"
  /\ bus_master[F] => owner = "vfio"

ProgInv ==
  /\ prog \in {"off", "claim", "close"} \cup Claimed
  /\ prog # "off" => driver = "vfio"
  /\ prog \in Claimed => owner = "vfio"
  /\ event \in BOOLEAN
  /\ data \in Seq(Data) /\ Len(data) <= PageSize

HostInv == Bar0Inv /\ DriverInv /\ OwnerInv /\ ProgInv

-----------------------------------------------------------------------------
(* The steps of the driver and the program.                                  *)

\* Taking mastering and MSI-X away from functions, dropping messages and writing
\* memory keeps the registers' invariant (closing the vfio descriptors, and
\* pci_disable_device).
LEMMA DisabledInv ==
  ASSUME Bar0Inv, bus_master' \in [Fns -> BOOLEAN], msix' \in [Fns -> BOOLEAN],
         \A g \in Fns : msix'[g] => msix[g],
         mem' \in [Addrs -> Data], msi' \subseteq msi,
         UNCHANGED <<reg, busy, intx, stack>>
  PROVE  Bar0Inv'
<1>1. RegTyped' /\ StackTyped' /\ BusyInHandler'
  BY HandlersKept DEF Bar0Inv
<1> QED
  BY <1>1 DEF Bar0Inv, LinesTyped, NoIntxUnderMsix

\* The function is one of the physical ones, and both pages are in memory.
LEMMA Placed ==
  /\ F \in Fns /\ F \in PFs /\ PageSize \in Nat /\ PageSize > 0 /\ MemSize = 2 * PageSize
  /\ PageSize <= DmaMaxLen /\ DmaMaxLen \in Nat /\ 0 \in Data
BY Bar0Assumption, PciHostAssumption DEF Fns

\* No register write touches config space, and no handler does.
LEMMA CfgKept ==
  /\ \A f, r, v, rest : HandleWrite(f, r, v, rest) => UNCHANGED cfgVars
  /\ HandlerStep => UNCHANGED cfgVars
<1>1. ASSUME NEW f, NEW r, NEW v, NEW rest, HandleWrite(f, r, v, rest) PROVE UNCHANGED cfgVars
  BY <1>1 DEF HandleWrite, SetRegister, SetFactorial, StartDma, RaiseIrq, AckIrq, StartP2p,
              Ignore
<1>2. ASSUME HandlerStep PROVE UNCHANGED cfgVars
  BY <1>1, <1>2 DEF HandlerStep, DmaRead, DmaReadFails, DmaWrite, DmaDone, P2pWrite,
                    P2pRefused, Return
<1> QED
  BY <1>1, <1>2

\* A payload is cut to the page that takes it (do_dma, test_edu_dma.cpp).
LEMMA ClampedFits ==
  ASSUME NEW p \in Payloads
  PROVE  /\ Clamped(p) \in Seq(Data) /\ Len(Clamped(p)) <= PageSize
         /\ \A i \in 1 .. Len(Clamped(p)) : p[i] \in Data
<1>1. p \in Seq(Data) /\ Len(p) \in Nat /\ PageSize \in Nat
  BY PciHostAssumption, Placed, LenProperties
<1>2. \A i \in 1 .. Len(p) : p[i] \in Data
  BY <1>1, ElementOfSeq
<1>3. CASE Len(p) > PageSize
  <2>1. SubSeq(p, 1, PageSize) \in Seq(Data) /\ Len(SubSeq(p, 1, PageSize)) = PageSize
    BY <1>1, <1>3, SMT
  <2> QED
    BY <1>1, <1>2, <1>3, <2>1 DEF Clamped
<1>4. CASE ~(Len(p) > PageSize)
  BY <1>1, <1>2, <1>4 DEF Clamped
<1> QED
  BY <1>3, <1>4

\* A register write of the program is one the function expects.
LEMMA ProgramWrites ==
  ASSUME ProgInv, prog \in DOMAIN WriteOf
  PROVE  /\ WriteOf[prog][2] \in Nat /\ WriteOf[prog][1] # "p2p_addr"
         /\ WriteOf[prog][3] \in Claimed /\ prog \in Claimed
         /\ prog \in Mastering /\ WriteOf[prog][3] \in Mastering
<1>1. Len(data) \in Nat
  BY LenProperties DEF ProgInv
<1> QED
  BY <1>1, Placed DEF WriteOf, SrcIova, DstIova, Claimed, Mastering

\* Every step keeps the registers' invariant: with the driver and the program
\* between them the function is still the function of the first part.
LEMMA HostBar0Inv ==
  ASSUME HostInv, HostNext
  PROVE  Bar0Inv'
<1> USE DEF HostInv
<1>0. /\ UNCHANGED bar0Vars => Bar0Inv'
      /\ mem \in [Addrs -> Data] /\ bus_master \in [Fns -> BOOLEAN]
      /\ msix \in [Fns -> BOOLEAN] /\ F \in Fns
  BY Bar0NextInv, Placed DEF Bar0Inv, LinesTyped
<1>1. CASE DriverStep
  <2>1. CASE TestScratch
    BY <1>0, <2>1, HostWriteInv DEF TestScratch
  <2>2. CASE \E r \in Resources : Acquire(r)
    BY <1>0, <2>2 DEF Acquire
  <2>3. CASE \E r \in Resources : Release(r)
    <3>1. /\ bus_master' \in [Fns -> BOOLEAN] /\ msix' = msix /\ mem' = mem /\ msi' = msi
          /\ UNCHANGED <<reg, busy, intx, stack>>
      BY <1>0, <2>3 DEF Release
    <3> QED
      BY <1>0, <3>1, DisabledInv
  <2> QED
    BY <1>1, <2>1, <2>2, <2>3 DEF DriverStep
<1>2. CASE Rebind \/ Claim \/ SetupFails \/ Woken \/ Timeout \/ Compare
  BY <1>0, <1>2 DEF Rebind, Claim, SetupFails, Woken, Timeout, Compare
<1>3. CASE Open
  BY <1>0, <1>3, ResetInv DEF Open
<1>4. CASE EnableMaster \/ SetupMsix
  <2>1. msix[F] \in BOOLEAN /\ bus_master[F] \in BOOLEAN
    BY <1>0
  <2>2. WriteConfig(F, TRUE, msix[F]) \/ WriteConfig(F, bus_master[F], TRUE)
    BY <1>4 DEF EnableMaster, SetupMsix
  <2> QED
    BY <1>0, <2>1, <2>2, WriteConfigInv
<1>5. CASE SetupDma
  <2>1. /\ mem' \in [Addrs -> Data] /\ msi' \subseteq msi
        /\ UNCHANGED <<reg, busy, cfgVars, intx, stack>>
    BY <1>5, Placed DEF SetupDma
  <2> QED
    BY <2>1, MemoryInv
<1>6. CASE WriteReg
  <2>1. stack = <<>> /\ HandleWrite(F, WriteOf[prog][1], WriteOf[prog][2], <<>>)
    BY <1>6 DEF WriteReg
  <2>2. WriteOf[prog][2] \in Nat /\ WriteOf[prog][1] # "p2p_addr"
    BY <1>6, ProgramWrites DEF WriteReg
  <2> QED
    BY <1>0, <2>1, <2>2, HostWriteInv
<1>7. CASE \E p \in Payloads : Fill(p)
  <2> PICK p \in Payloads : Fill(p)
    BY <1>7
  <2>1. \A a \in Addrs : a < Len(Clamped(p)) => p[a + 1] \in Data
    <3>1. Len(Clamped(p)) \in Nat
      BY ClampedFits, LenProperties
    <3> QED
      BY <3>1, ClampedFits, Placed DEF Addrs
  <2>2. mem' \in [Addrs -> Data]
    BY <1>0, <2>1, Placed DEF Fill
  <2>3. msi' \subseteq msi /\ UNCHANGED <<reg, busy, cfgVars, intx, stack>>
    BY DEF Fill
  <2> QED
    BY <2>2, <2>3, MemoryInv
<1>8. CASE Cleanup \/ Die
  <2>1. /\ bus_master' \in [Fns -> BOOLEAN] /\ msix' \in [Fns -> BOOLEAN]
        /\ \A g \in Fns : msix'[g] => msix[g]
    BY <1>0, <1>8 DEF Cleanup, Die, Closed
  <2>2. mem' = mem /\ msi' \subseteq msi /\ UNCHANGED <<reg, busy, intx, stack>>
    BY <1>8 DEF Cleanup, Die, Closed
  <2> QED
    BY <1>0, <2>1, <2>2, DisabledInv
<1>9. CASE Interrupt
  <2>1. msi' \subseteq msi /\ mem' = mem /\ UNCHANGED <<reg, busy, cfgVars, intx, stack>>
    BY <1>9 DEF Interrupt, TakeMsi
  <2> QED
    BY <1>0, <2>1, MemoryInv
<1>10. CASE Script
  <2>1. CASE \E w \in HostWrites : HostWrite(w)
    BY <2>1, HostStepInv DEF HostStep
  <2>2. CASE \E f \in Fns \ {F} : WriteConfig(f, TRUE, msix[f])
    <3> PICK f \in Fns \ {F} : WriteConfig(f, TRUE, msix[f])
      BY <2>2
    <3>1. msix[f] \in BOOLEAN
      BY <1>0
    <3> QED
      BY <3>1, WriteConfigInv
  <2> QED
    BY <1>10, <2>1, <2>2 DEF Script
<1>11. CASE Device
  BY <1>11, HandlerStepInv DEF Device
<1> QED
  BY <1>1, <1>2, <1>3, <1>4, <1>5, <1>6, <1>7, <1>8, <1>9, <1>10, <1>11
  DEF HostNext, ProgramStep

\* Closing the descriptors gives BAR0 and the bus back, whoever does it (cleanup of
\* test_edu_dma.cpp, or the kernel when the program dies).
LEMMA ClosedBooks ==
  ASSUME HostInv, Closed, prog # "off"
  PROVE  DriverInv' /\ OwnerInv' /\ ProgInv'
<1> USE DEF HostInv
<1>1. ~bus_master'[F]
  BY Placed DEF Closed, Bar0Inv, LinesTyped
<1>2. /\ owner' = (IF owner = "vfio" THEN "none" ELSE owner) /\ prog' = "off"
      /\ data' = <<>> /\ event' = FALSE /\ UNCHANGED <<driver, held>>
  BY DEF Closed
<1>3. "region" \notin held
  BY DEF ProgInv, DriverInv, HeldAt
<1>4. OwnerInv'
  BY <1>1, <1>2, <1>3 DEF OwnerInv
<1>5. ProgInv'
  <2>1. data' \in Seq(Data) /\ Len(data') <= PageSize
    <3>1. Len(<<>>) = 0 /\ <<>> \in Seq(Data)
      BY EmptySeq
    <3> QED
      BY <1>2, <3>1, Placed
  <2>2. prog' \notin Claimed
    BY <1>2 DEF Claimed, Mastering
  <2> QED
    BY <1>2, <2>1, <2>2 DEF ProgInv
<1>6. DriverInv'
  BY <1>2 DEF DriverInv
<1> QED
  BY <1>4, <1>5, <1>6

\* What the driver holds follows probe, its error labels and remove (lines 42-103
\* of drivers/edu_pci.c), and BAR0 and bus mastering follow their owner.
LEMMA BooksKept ==
  ASSUME HostInv, HostNext
  PROVE  DriverInv' /\ OwnerInv' /\ ProgInv'
<1> USE DEF HostInv
<1>0. bus_master \in [Fns -> BOOLEAN] /\ F \in Fns /\ <<>> \in Seq(Data) /\ Len(<<>>) = 0
  BY Placed, EmptySeq DEF Bar0Inv, LinesTyped
<1>1. CASE DriverStep
  <2>1. ASSUME NEW r \in Resources, Acquire(r)
        PROVE  DriverInv' /\ OwnerInv' /\ ProgInv'
    <3>1. driver \notin {"none", "vfio"} /\ prog = "off" /\ prog' = prog
      BY <2>1 DEF Acquire, ProgInv, Resources
    <3>2. DriverInv'
      BY <2>1 DEF Acquire, DriverInv, HeldAt, Resources, After, ErrLabel
    <3>3. OwnerInv'
      BY <2>1, <3>1 DEF Acquire, DriverInv, OwnerInv, HeldAt, Resources, bar0Vars, cfgVars
    <3>4. ProgInv'
      BY <2>1, <3>1 DEF Acquire, ProgInv, Claimed, Mastering
    <3> QED
      BY <3>2, <3>3, <3>4
  <2>2. ASSUME NEW r \in Resources, Release(r)
        PROVE  DriverInv' /\ OwnerInv' /\ ProgInv'
    <3>1. driver # "vfio" /\ prog = "off" /\ prog' = prog
      BY <2>2 DEF Release, ProgInv, Resources, Un
    <3>2. DriverInv'
      BY <2>2 DEF Release, DriverInv, HeldAt, Resources, Un, FallsTo
    <3>3. OwnerInv'
      <4>1. bus_master'[F] => bus_master[F]
        BY <1>0, <2>2 DEF Release
      <4> QED
        BY <2>2, <3>1, <4>1 DEF Release, DriverInv, OwnerInv, HeldAt, Resources, Un
    <3>4. ProgInv'
      BY <2>2, <3>1 DEF Release, ProgInv, Claimed, Mastering
    <3> QED
      BY <3>2, <3>3, <3>4
  <2>3. CASE TestScratch
    <3>1. UNCHANGED <<cfgVars, held, owner, prog, event, data>> /\ driver = "test"
          /\ driver' = "edu_pci"
      BY <2>3, CfgKept DEF TestScratch
    <3> QED
      BY <3>1 DEF DriverInv, OwnerInv, ProgInv, HeldAt, cfgVars
  <2> QED
    BY <1>1, <2>1, <2>2, <2>3 DEF DriverStep
<1>2. CASE Rebind
  <2>1. DriverInv'
    BY <1>2 DEF Rebind, DriverInv, HeldAt
  <2>2. OwnerInv'
    BY <1>2 DEF Rebind, OwnerInv, bar0Vars, cfgVars
  <2>3. ProgInv'
    BY <1>2 DEF Rebind, ProgInv
  <2> QED
    BY <2>1, <2>2, <2>3
<1>3. CASE Open
  <2>1. ~bus_master'[F]
    BY <1>0, <1>3 DEF Open, ResetFunction
  <2>2. DriverInv' /\ ProgInv'
    BY <1>3 DEF Open, DriverInv, ProgInv, Claimed, Mastering
  <2>3. OwnerInv'
    BY <1>3, <2>1 DEF Open, OwnerInv
  <2> QED
    BY <2>2, <2>3
<1>4. CASE ProgramStep
  <2>1. prog # "off" /\ driver = "vfio" /\ UNCHANGED <<driver, held>> /\ "region" \notin held
    <3>1. prog # "off" /\ UNCHANGED <<driver, held>>
      BY <1>4, ProgramWrites DEF ProgramStep, Claim, EnableMaster, SetupMsix, SetupDma,
        SetupFails, WriteReg, Woken, Timeout, Compare, Cleanup, Closed, Fill, At, AfterWait,
        WriteOf
    <3> QED
      BY <3>1 DEF ProgInv, DriverInv, HeldAt
  <2>2. DriverInv'
    BY <2>1 DEF DriverInv
  <2>3. CASE Claim
    <3>1. /\ \/ owner' = "vfio" /\ prog' = "master"
             \/ owner' = owner /\ prog' = "close"
          /\ UNCHANGED <<cfgVars, event, data>>
      BY <2>3 DEF Claim, bar0Vars
    <3>2. OwnerInv'
      BY <2>1, <2>3, <3>1 DEF OwnerInv, cfgVars
    <3>3. ProgInv'
      BY <2>1, <3>1 DEF ProgInv, Claimed, Mastering
    <3> QED
      BY <2>2, <3>2, <3>3
  <2>4. CASE EnableMaster \/ SetupMsix
    <3>1. /\ prog \in Claimed /\ prog' \in Claimed
          /\ UNCHANGED <<owner, data>> /\ event' \in BOOLEAN
      BY <2>4 DEF EnableMaster, SetupMsix, At, Claimed, Mastering, ProgInv
    <3>2. prog' # "off"
      BY <3>1 DEF Claimed, Mastering
    <3> QED
      BY <2>1, <2>2, <3>1, <3>2 DEF OwnerInv, ProgInv
  <2>5. CASE SetupDma \/ SetupFails \/ Woken \/ Timeout \/ Compare
    <3>1. /\ prog' = "close" \/ (prog \in Claimed /\ prog' \in Claimed)
          /\ UNCHANGED <<owner, data, cfgVars>> /\ event' \in BOOLEAN
      <4>1. CASE SetupDma \/ SetupFails \/ Compare
        BY <4>1 DEF SetupDma, SetupFails, Compare, At, Claimed, Mastering, ProgInv, bar0Vars
      <4>2. CASE Woken \/ Timeout
        <5>1. prog \in {"wait_raise", "wait_dma"} /\ prog' \in {"fill", "check"}
          BY <4>2 DEF Woken, Timeout, AfterWait
        <5> QED
          BY <4>2, <5>1 DEF Woken, Timeout, Claimed, Mastering, ProgInv, bar0Vars
      <4> QED
        BY <2>5, <4>1, <4>2
    <3>2. prog' # "off"
      BY <3>1 DEF Claimed, Mastering
    <3> QED
      BY <2>1, <2>2, <3>1, <3>2 DEF OwnerInv, ProgInv, cfgVars, Claimed, Mastering
  <2>6. CASE WriteReg
    <3>1. /\ prog \in Claimed /\ prog' \in Claimed
          /\ UNCHANGED <<owner, data, event, cfgVars>>
      BY <2>6, ProgramWrites, CfgKept DEF WriteReg
    <3>2. prog' # "off"
      BY <3>1 DEF Claimed, Mastering
    <3> QED
      BY <2>1, <2>2, <3>1, <3>2 DEF OwnerInv, ProgInv, cfgVars
  <2>7. CASE \E p \in Payloads : Fill(p)
    <3> PICK p \in Payloads : Fill(p)
      BY <2>7
    <3>1. data' \in Seq(Data) /\ Len(data') <= PageSize
      BY ClampedFits DEF Fill
    <3>2. prog \in Claimed /\ prog' \in Claimed /\ UNCHANGED <<owner, event, cfgVars>>
      BY DEF Fill, At, Claimed, Mastering
    <3>3. prog' # "off"
      BY <3>2 DEF Claimed, Mastering
    <3> QED
      BY <2>1, <2>2, <3>1, <3>2, <3>3 DEF OwnerInv, ProgInv, cfgVars
  <2>8. CASE Cleanup
    BY <2>1, <2>8, ClosedBooks DEF Cleanup
  <2> QED
    BY <1>4, <2>3, <2>4, <2>5, <2>6, <2>7, <2>8 DEF ProgramStep
<1>5. CASE Die
  BY <1>5, ClosedBooks DEF Die
<1>6. CASE Interrupt \/ Device
  <2>1. UNCHANGED <<cfgVars, driver, held, owner, prog, data>> /\ event' \in BOOLEAN
    BY <1>6, CfgKept DEF Interrupt, TakeMsi, Device, ProgInv
  <2> QED
    BY <2>1 DEF DriverInv, OwnerInv, ProgInv, cfgVars
<1>7. CASE Script
  <2>1. UNCHANGED <<driver, held, owner, prog, data, event>>
    BY <1>7 DEF Script, hostVars
  <2>2. bus_master'[F] = bus_master[F]
    BY <1>0, <1>7, CfgKept DEF Script, HostWrite, WriteConfig, cfgVars
  <2> QED
    BY <2>1, <2>2 DEF DriverInv, OwnerInv, ProgInv
<1> QED
  BY <1>1, <1>2, <1>3, <1>4, <1>5, <1>6, <1>7 DEF HostNext

\* The invariant holds at first and is kept by every step.
LEMMA HostInvariance == HostSpec => []HostInv
<1>1. HostInit => HostInv
  <2> SUFFICES ASSUME HostInit PROVE HostInv
    OBVIOUS
  <2>1. <<>> \in Seq(Data) /\ Len(<<>>) = 0 /\ F \in Fns /\ PageSize >= 0
    BY Placed, EmptySeq
  <2>2. Bar0Inv
    BY Bar0InitInv DEF HostInit
  <2>3. ~bus_master[F]
    BY <2>1 DEF HostInit, Bar0Init
  <2> QED
    BY <2>1, <2>2, <2>3
    DEF HostInit, HostInv, DriverInv, OwnerInv, ProgInv, HeldAt, Claimed, Mastering
<1>2. HostInv /\ [HostNext]_vars => HostInv'
  <2>1. HostInv /\ HostNext => HostInv'
    BY HostBar0Inv, BooksKept DEF HostInv
  <2>2. HostInv /\ UNCHANGED vars => HostInv'
    <3>1. HostInv /\ UNCHANGED vars => Bar0Inv'
      BY Bar0NextInv DEF HostInv, vars
    <3> QED
      BY <3>1 DEF HostInv, vars, bar0Vars, cfgVars, hostVars, DriverInv, OwnerInv, ProgInv
  <2> QED
    BY <2>1, <2>2
<1> QED
  BY <1>1, <1>2, PTL DEF HostSpec

\* Every variable of the function, the driver and the program has its type; the
\* data never outgrow the page they are copied into (do_dma).
THEOREM HostTypeCorrect == HostSpec => []HostTypeOK
<1>1. HostInv => HostTypeOK
  <2> SUFFICES ASSUME HostInv PROVE HostTypeOK
    OBVIOUS
  <2>1. Bar0TypeOK
    BY Typed DEF HostInv
  <2>2. /\ held \subseteq Resources
        /\ driver \in {"none", "edu_pci", "vfio", "test"} \cup Resources
                      \cup {Un[r] : r \in Resources}
    BY DEF HostInv, DriverInv, HeldAt, Resources, Un
  <2> QED
    BY <2>1, <2>2 DEF HostTypeOK, HostInv, OwnerInv, ProgInv
<1> QED
  BY <1>1, HostInvariance, PTL

\* Whichever step of probe fails, whenever the driver is unbound and however the
\* program ends, nothing stays held and the function masters the bus for its
\* claimant only (drivers/edu_pci.c lines 67-73 and 83-86, test_edu_dma.cpp lines
\* 230-239).
THEOREM EverythingReleased == HostSpec => []NothingLeftHeld
<1>1. HostInv => NothingLeftHeld
  BY DEF HostInv, DriverInv, OwnerInv, HeldAt, NothingLeftHeld
<1> QED
  BY <1>1, HostInvariance, PTL

-----------------------------------------------------------------------------
(* The program's register accesses return, and a transfer goes on: what       *)
(* TransferEnds rests on besides fairness.                                    *)

\* The program waits for a register access only while a handler runs.
AccessReturns == inside => stack # <<>>

\* From the filled page to the comparison.
NextPlace == [fill |-> "src", src |-> "dst", dst |-> "len", len |-> "cmd",
              cmd |-> "wait_dma", wait_dma |-> "check"]

\* The handlers count down, also those that a script started, and nobody but the
\* program moves it within a transfer: each of its steps leads to the next place,
\* whatever it was woken by, and only being killed leads elsewhere
\* (test_edu_dma.cpp lines 184-217).
TransferGoesOn ==
  /\ HandlersCountDown
  /\ prog \in DOMAIN NextPlace =>
       /\ ProgramStep => prog' = NextPlace[prog]
       /\ ~ProgramStep => prog' \in {prog, "off"}
       /\ inside => prog' = prog

\* Whoever is not a handler leaves the handlers that run, or writes a register when
\* none does.
LEMMA StackOutside ==
  ASSUME HostInv, HostNext, ~Device
  PROVE  \/ stack' = stack
         \/ stack = <<>> /\ \E f \in Fns : \E r, v : HandleWrite(f, r, v, <<>>)
<1>1. CASE \/ TestScratch \/ WriteReg \/ \E w \in HostWrites : HostWrite(w)
  <2>1. \A w \in HostWrites : w.fn \in Fns
    BY Bar0Assumption
  <2> QED
    BY <1>1, <2>1, Placed DEF TestScratch, WriteReg, HostWrite
<1>2. CASE ~(TestScratch \/ WriteReg \/ \E w \in HostWrites : HostWrite(w))
  <2>1. CASE DriverStep \/ Rebind \/ Open \/ Interrupt
    BY <1>2, <2>1 DEF DriverStep, Acquire, Release, Rebind, Open, ResetFunction,
       Interrupt, TakeMsi, bar0Vars
  <2>2. CASE ProgramStep \/ Die
    BY <1>2, <2>2 DEF ProgramStep, Claim, EnableMaster, SetupMsix, WriteConfig, SetupDma,
       SetupFails, Woken, Timeout, Compare, Fill, Cleanup, Die, Closed, bar0Vars
  <2>3. CASE Script
    BY <1>2, <2>3 DEF Script, WriteConfig
  <2> QED
    BY <2>1, <2>2, <2>3 DEF HostNext
<1> QED
  BY <1>1, <1>2

\* So the handlers count down with all of them around.
LEMMA HostCountsDown ==
  ASSUME HostInv, WaitingIn(stack), HostNext
  PROVE  WaitingIn(stack)' /\ HandlersCountDown
<1>0. StepsIn(<<>>) = 0 /\ Cardinality(Fns) \in Nat
  BY FreeCounted DEF StepsIn
<1>1. CASE HandlerStep
  <2>1. stack # <<>>
    BY <1>1 DEF HandlerStep, DmaRead, DmaReadFails, DmaWrite, DmaDone, P2pWrite,
                P2pRefused, Return, Running
  <2> QED
    BY <1>1, <2>1, HandlerStepCounts DEF HandlersCountDown, HostInv
<1>2. CASE ~HandlerStep
  <2>1. CASE stack' = stack
    BY <1>0, <1>2, <2>1 DEF HandlersCountDown, StepsLeft
  <2>2. CASE stack = <<>> /\ \E f \in Fns : \E r, v : HandleWrite(f, r, v, <<>>)
    BY <1>2, <2>2, OutsideWriteCounts DEF HandlersCountDown
  <2> QED
    BY <1>2, <2>1, <2>2, StackOutside DEF Device
<1> QED
  BY <1>1, <1>2

\* The program is in a register access from the write that starts a handler to the
\* step in which the handlers end.
LEMMA AccessKept ==
  ASSUME HostInv, AccessReturns, HostNext
  PROVE  AccessReturns'
<1>1. CASE Device \/ WriteReg
  BY <1>1 DEF Device, WriteReg, AccessReturns
<1>2. CASE ~Device /\ ~WriteReg
  <2>1. inside' = inside
    BY <1>2 DEF HostNext, DriverStep, TestScratch, Acquire, Release, Rebind, Open,
       Interrupt, ProgramStep, Claim, EnableMaster, SetupMsix, SetupDma,
       SetupFails, Woken, Timeout, Compare, Fill, Cleanup, Die, Closed, Script, hostVars
  <2>2. stack # <<>> => stack' = stack
    BY <1>2, StackOutside
  <2> QED
    BY <2>1, <2>2 DEF AccessReturns
<1> QED
  BY <1>1, <1>2

\* Where a step of the system takes a program that is in a transfer (do_dma).
LEMMA TransferMoves ==
  ASSUME HostInv, HostNext, prog \in DOMAIN NextPlace
  PROVE  /\ ProgramStep => prog' = NextPlace[prog]
         /\ ~ProgramStep => prog' \in {prog, "off"}
         /\ inside => prog' = prog
<1> USE DEF NextPlace, At
<1>1. CASE ProgramStep
  <2>1. ~inside
    BY <1>1 DEF ProgramStep, Claim, EnableMaster, SetupMsix, SetupDma, SetupFails,
       WriteReg, Woken, Timeout, Compare, Cleanup, Fill
  <2>2. CASE WriteReg
    <3>1. prog \in {"src", "dst", "len", "cmd"} /\ prog' = WriteOf[prog][3]
      BY <2>2 DEF WriteReg, WriteOf
    <3>2. \A p \in {"src", "dst", "len", "cmd"} : WriteOf[p][3] = NextPlace[p]
      BY DEF WriteOf
    <3> QED
      BY <1>1, <2>1, <3>1, <3>2
  <2>3. CASE Woken \/ Timeout
    BY <1>1, <2>1, <2>3 DEF Woken, Timeout, AfterWait
  <2>4. CASE \E p \in Payloads : Fill(p)
    BY <1>1, <2>1, <2>4 DEF Fill
  <2>5. ~(Claim \/ EnableMaster \/ SetupMsix \/ SetupDma \/ SetupFails \/ Compare \/ Cleanup)
    BY DEF Claim, EnableMaster, SetupMsix, SetupDma, SetupFails, Compare, Cleanup
  <2> QED
    BY <1>1, <2>2, <2>3, <2>4, <2>5 DEF ProgramStep
<1>2. CASE ~ProgramStep
  BY <1>2 DEF HostNext, DriverStep, TestScratch, Acquire, Release, Rebind, Open,
       Interrupt, Die, Closed, Script, hostVars, Device
<1> QED
  BY <1>1, <1>2

\* What the two theorems need.
LEMMA AccessInvariance == HostSpec => [](HostInv /\ WaitingIn(stack) /\ AccessReturns)
<1>1. HostInit => WaitingIn(stack) /\ AccessReturns
  BY DEF HostInit, Bar0Init, WaitingIn, AccessReturns
<1>2. HostInv /\ WaitingIn(stack) /\ AccessReturns /\ [HostNext]_vars
        => (WaitingIn(stack) /\ AccessReturns)'
  <2>1. CASE UNCHANGED vars
    BY <2>1 DEF vars, bar0Vars, hostVars, WaitingIn, AccessReturns
  <2>2. CASE HostNext
    BY <2>2, HostCountsDown, AccessKept
  <2> QED
    BY <2>1, <2>2
<1> QED
  BY <1>1, <1>2, HostInvariance, PTL DEF HostSpec

\* A program that waits for a register access waits for a handler that runs: no
\* interleaving of scripts, driver and kills leaves it in an access that nobody
\* will end (test_edu_dma.cpp lines 184-202, edu_pci.c 456-480).
THEOREM NoAccessHangs == HostSpec => []AccessReturns
<1> QED
  BY AccessInvariance, PTL

\* A transfer of the program moves from the filled page to the comparison only
\* forward and one place at a time, and each register access on the way is at most two
\* steps for each function and one, though a failed transfer sends no interrupt
\* and though scripts write registers in between (test_edu_dma.cpp lines 184-217).
THEOREM TransferOnlyForward == HostSpec => [][TransferGoesOn]_vars
<1>1. ASSUME HostInv, WaitingIn(stack), [HostNext]_vars PROVE [TransferGoesOn]_vars
  BY <1>1, HostCountsDown, TransferMoves DEF TransferGoesOn
<1> QED
  BY <1>1, AccessInvariance, PTL DEF HostSpec

-----------------------------------------------------------------------------
(* The transfer of the program.                                              *)

\* The scripts leave the transfer alone: they start none, and write SRC, DST and
\* LEN of the function neither directly nor through a peer.
Alone(f, r) == r # "dma_cmd" /\ (f = F => r \notin {"src", "dst", "len"})
ScriptsApart ==
  \A w \in HostWrites :
    /\ Alone(w.fn, w.reg)
    /\ w.reg = "p2p_addr" => Alone(w.val.fn, w.val.reg)

PeersApart ==
  \A f \in Fns : reg[f].p2p_addr = NoTarget \/ Alone(reg[f].p2p_addr.fn, reg[f].p2p_addr.reg)

\* The only transfer under way is the one the program is waiting in.
OneTransfer ==
  /\ inside \in BOOLEAN
  /\ inside => /\ prog = "wait_dma" /\ Len(stack) = 1
               /\ Top.fn = F /\ Top.step \in DmaSteps
  /\ ~inside => \A fr \in FramesOf(stack) : fr.step \notin DmaSteps

\* The registers hold what the program has written so far.
Settings ==
  /\ prog \in {"dst", "len", "cmd", "wait_dma"} => reg[F].src = SrcIova
  /\ prog \in {"len", "cmd", "wait_dma"} => reg[F].dst = DstIova
  /\ prog \in {"cmd", "wait_dma"} => reg[F].len = Len(data)
  /\ prog \in Mastering => bus_master[F]

Copied == \A i \in 0 .. Len(data) - 1 : mem[SrcIova + i] = mem[DstIova + i]
Read1st == \A i \in 0 .. Len(data) - 1 : Top.buf[i + 1] = mem[SrcIova + i]

CopyInv ==
  /\ inside /\ Top.step = "write" => Read1st
  /\ inside /\ Top.step = "notify" => Copied
  /\ prog = "wait_dma" /\ ~inside => Copied
  /\ prog = "check" => Copied
  /\ DmaVerified

TransferInv == PeersApart /\ OneTransfer /\ Settings /\ CopyInv

-----------------------------------------------------------------------------
(* The steps, one kind at a time.                                            *)

\* Steps that touch neither registers, handlers nor memory, and by which the
\* program gets to no later place of the transfer than its waits allow.
LEMMA AwayFromBar ==
  ASSUME TransferInv, UNCHANGED <<reg, mem, stack, inside>>,
         prog' = prog \/ ~inside,
         prog' = prog \/ prog' \notin {"dst", "len", "cmd", "wait_dma", "check"}
           \/ (prog = "wait_dma" /\ prog' = "check"),
         data' = data \/ prog' = "off",
         prog' \in Mastering => bus_master'[F],
         result' # "mismatch"
  PROVE  TransferInv'
<1> USE DEF TransferInv
<1>1. PeersApart'
  BY DEF PeersApart
<1>2. OneTransfer'
  BY DEF OneTransfer, Top
<1>3. prog' = "off" => ~inside'
  BY DEF OneTransfer
<1>4. Settings'
  BY DEF Settings
<1>5. CopyInv'
  <2>1. CASE prog' = "off"
    BY <1>3, <2>1 DEF CopyInv, DmaVerified
  <2>2. CASE data' = data
    BY <2>2 DEF CopyInv, DmaVerified, Copied, Read1st, Top, OneTransfer
  <2> QED
    BY <2>1, <2>2
<1> QED
  BY <1>1, <1>2, <1>4, <1>5

\* A register write that leaves the transfer alone: it moves no data, starts no
\* transfer and sets no register of one.
LEMMA WriteApart ==
  ASSUME RegTyped, PeersApart, NEW f \in Fns, NEW r, NEW v, NEW rest \in Seq(Frames),
         Alone(f, r), r = "p2p_addr" => v \in Targets /\ Alone(v.fn, v.reg),
         HandleWrite(f, r, v, rest)
  PROVE  /\ PeersApart' /\ UNCHANGED <<mem, cfgVars>>
         /\ reg'[F].src = reg[F].src /\ reg'[F].dst = reg[F].dst /\ reg'[F].len = reg[F].len
         /\ \A fr \in FramesOf(stack') : fr.step \in DmaSteps => fr \in FramesOf(rest)
<1>0. F \in Fns
  BY Placed
<1>1. UNCHANGED <<mem, cfgVars>>
  BY CfgKept DEF HandleWrite, SetRegister, SetFactorial, StartDma, RaiseIrq, AckIrq, StartP2p,
     Ignore
<1>2. CASE SetRegister(f, r, v, rest)
  <2>1. r \in RegNames /\ reg' = [reg EXCEPT ![f][r] = v] /\ stack' = rest
    BY <1>2 DEF SetRegister, RegNames
  <2>2. \A g \in Fns : \A x \in RegNames :
          reg'[g][x] = IF g = f /\ x = r THEN v ELSE reg[g][x]
    BY <2>1 DEF RegTyped
  <2>3. \A x \in {"src", "dst", "len"} : x \in RegNames /\ reg'[F][x] = reg[F][x]
    BY <1>0, <2>2 DEF Alone, RegNames
  <2>4. "p2p_addr" \in RegNames
    BY DEF RegNames
  <2>5. \A g \in Fns : reg'[g]["p2p_addr"] = reg[g]["p2p_addr"]
                       \/ Alone(reg'[g]["p2p_addr"].fn, reg'[g]["p2p_addr"].reg)
    BY <2>2, <2>4
  <2>6. PeersApart'
    BY <2>5 DEF PeersApart, Alone
  <2> QED
    BY <1>1, <2>1, <2>3, <2>6
<1>3. CASE SetFactorial(f, r, v, rest)
  <2>1. reg' = [reg EXCEPT ![f].factorial = Factorial(v)] /\ stack' = rest
    BY <1>3 DEF SetFactorial
  <2>2. \A g \in Fns : \A x \in RegNames \ {"factorial"} : reg'[g][x] = reg[g][x]
    BY <2>1 DEF RegTyped
  <2>3. {"src", "dst", "len", "p2p_addr"} \subseteq RegNames \ {"factorial"}
    BY DEF RegNames
  <2>4. /\ reg'[F]["src"] = reg[F]["src"] /\ reg'[F]["dst"] = reg[F]["dst"]
        /\ reg'[F]["len"] = reg[F]["len"]
        /\ \A g \in Fns : reg'[g]["p2p_addr"] = reg[g]["p2p_addr"]
    BY <1>0, <2>2, <2>3
  <2>5. PeersApart'
    BY <2>4 DEF PeersApart, Alone
  <2> QED
    BY <1>1, <2>1, <2>4, <2>5
<1>4. CASE StartP2p(f, r, v, rest)
  <2>1. stack' = <<Frame(f, "p2p")>> \o rest /\ reg' = reg
    BY <1>4 DEF StartP2p
  <2>2. Frame(f, "p2p") \in Frames /\ Frame(f, "p2p").step = "p2p" /\ "p2p" \notin DmaSteps
    BY FrameTyped DEF Steps, DmaSteps
  <2>3. FramesOf(stack') = {Frame(f, "p2p")} \cup FramesOf(rest)
    BY <2>1, <2>2, Pushed
  <2>4. PeersApart'
    BY <2>1 DEF PeersApart
  <2> QED
    BY <1>1, <2>1, <2>2, <2>3, <2>4
<1>5. CASE RaiseIrq(f, r, v, rest) \/ AckIrq(f, r, v, rest) \/ Ignore(f, r, v, rest)
  <2>1. stack' = rest /\ reg' = reg
    BY <1>5 DEF RaiseIrq, AckIrq, Ignore
  <2>2. PeersApart'
    BY <2>1 DEF PeersApart
  <2> QED
    BY <1>1, <2>1, <2>2
<1>6. ~StartDma(f, r, v, rest)
  BY DEF StartDma, Alone
<1> QED
  BY <1>2, <1>3, <1>4, <1>5, <1>6 DEF HandleWrite

\* Outside a transfer, handlers that touch neither memory nor the registers of
\* one leave the program's transfer as it is.
LEMMA HandledApart ==
  ASSUME TransferInv, ~inside, inside' \in BOOLEAN, ~inside', PeersApart',
         UNCHANGED <<mem, bus_master, prog, data, result>>,
         reg'[F].src = reg[F].src, reg'[F].dst = reg[F].dst, reg'[F].len = reg[F].len,
         \A fr \in FramesOf(stack') : fr.step \notin DmaSteps
  PROVE  TransferInv'
<1> USE DEF TransferInv
<1>1. OneTransfer'
  BY DEF OneTransfer
<1>2. Settings'
  BY DEF Settings
<1>3. CopyInv'
  BY DEF CopyInv, DmaVerified, Copied
<1> QED
  BY <1>1, <1>2, <1>3

\* A stack with one frame is not the empty one.
LEMMA OneLong == \A s : Len(s) = 1 => s # <<>>
<1> SUFFICES ASSUME NEW s, Len(s) = 1, s = <<>> PROVE FALSE
  OBVIOUS
<1>1. Len(<<>>) = 0
  BY EmptySeq
<1>2. Len(s) = 0
  BY <1>1, Zenon
<1> QED
  BY <1>2

\* No transfer is under way while no handler runs.
LEMMA IdleOutside ==
  ASSUME OneTransfer, stack = <<>>
  PROVE  ~inside
<1>1. Len(<<>>) = 0
  BY EmptySeq
<1> QED
  BY <1>1 DEF OneTransfer

\* The program's register writes keep the invariant: the three settings are in
\* place before the command starts the transfer (do_dma).
LEMMA WriteRegTransfer ==
  ASSUME HostInv, TransferInv, WriteReg
  PROVE  TransferInv'
<1> USE DEF TransferInv
<1>0. /\ F \in Fns /\ ~inside /\ stack = <<>> /\ prog \in DOMAIN WriteOf
      /\ UNCHANGED <<data, result>>
      /\ FramesOf(<<>>) = {} /\ <<>> \in Seq(Frames)
      /\ HandleWrite(F, WriteOf[prog][1], WriteOf[prog][2], <<>>)
      /\ prog' = WriteOf[prog][3] /\ inside' = (stack' # <<>>)
      /\ RegTyped
  BY Placed, IdleOutside, NoFrames, EmptySeq DEF WriteReg, HostInv, Bar0Inv
<1>1. UNCHANGED bus_master /\ prog \in Mastering /\ prog' \in Mastering
  BY <1>0, CfgKept, ProgramWrites DEF HostInv, cfgVars
<1>2. CASE prog \in {"scratch", "raise"}
  <2>1. /\ WriteOf[prog][1] \in {"scratch", "irq_raise"}
        /\ prog' \in {"raise", "wait_raise"}
    BY <1>0, <1>2 DEF WriteOf
  <2>2. stack' = <<>>
    BY <1>0, <2>1 DEF HandleWrite, SetRegister, SetFactorial, StartDma, RaiseIrq, AckIrq,
      StartP2p, Ignore
  <2>3. PeersApart'
    BY <1>0, <2>1, WriteApart DEF Alone
  <2>4. OneTransfer'
    BY <1>0, <2>2 DEF OneTransfer
  <2>5. Settings' /\ CopyInv'
    BY <1>0, <1>1, <2>1, <2>2 DEF Settings, CopyInv, DmaVerified
  <2> QED
    BY <2>3, <2>4, <2>5
<1>3. CASE prog \in {"src", "dst", "len"}
  <2> DEFINE v == WriteOf[prog][2]
  <2>1. /\ prog = "src" => v = SrcIova /\ prog' = "dst" /\ WriteOf[prog][1] = "src"
        /\ prog = "dst" => v = DstIova /\ prog' = "len" /\ WriteOf[prog][1] = "dst"
        /\ prog = "len" => v = Len(data) /\ prog' = "cmd" /\ WriteOf[prog][1] = "len"
    BY <1>0 DEF WriteOf
  <2> HIDE DEF v
  <2>2. reg' = [reg EXCEPT ![F][prog] = v] /\ stack' = <<>>
    <3>1. HandleWrite(F, prog, v, <<>>)
      BY <1>0, <1>3, <2>1 DEF v
    <3> QED
      BY <1>3, <3>1 DEF HandleWrite, SetRegister, SetFactorial, StartDma, RaiseIrq,
        AckIrq, StartP2p, Ignore
  <2>3. \A g \in Fns : \A x \in RegNames :
          reg'[g][x] = IF g = F /\ x = prog THEN v ELSE reg[g][x]
    BY <2>2 DEF RegTyped, HostInv, Bar0Inv
  <2>4. {"src", "dst", "len", "p2p_addr"} \subseteq RegNames
    BY DEF RegNames
  <2>5. /\ reg'[F]["src"] = IF prog = "src" THEN v ELSE reg[F]["src"]
        /\ reg'[F]["dst"] = IF prog = "dst" THEN v ELSE reg[F]["dst"]
        /\ reg'[F]["len"] = IF prog = "len" THEN v ELSE reg[F]["len"]
        /\ \A g \in Fns : reg'[g]["p2p_addr"] = reg[g]["p2p_addr"]
    BY <1>0, <1>3, <2>3, <2>4
  <2>6. PeersApart'
    BY <2>5 DEF PeersApart, Alone
  <2>7. OneTransfer'
    BY <1>0, <2>2 DEF OneTransfer
  <2>8. Settings'
    BY <1>0, <1>1, <1>3, <2>1, <2>5 DEF Settings, SrcIova, DstIova
  <2>9. CopyInv'
    BY <1>0, <1>3, <2>1, <2>2 DEF CopyInv, DmaVerified
  <2> QED
    BY <2>6, <2>7, <2>8, <2>9
<1>4. CASE prog = "cmd"
  <2>1. HandleWrite(F, "dma_cmd", 1, <<>>) /\ prog' = "wait_dma"
    BY <1>0, <1>4 DEF WriteOf
  <2>2. ~busy[F]
    BY <1>0 DEF HostInv, Bar0Inv, BusyInHandler
  <2>3. StartDma(F, "dma_cmd", 1, <<>>)
    BY <2>1, <2>2 DEF HandleWrite, SetRegister, SetFactorial, RaiseIrq, AckIrq, StartP2p, Ignore
  <2>4. stack' = <<Frame(F, "read")>> \o <<>> /\ reg' = reg
    BY <2>3 DEF StartDma
  <2>5. /\ Frame(F, "read") \in Frames /\ Frame(F, "read").fn = F
        /\ Frame(F, "read").step = "read" /\ "read" \in DmaSteps
    BY <1>0, FrameTyped DEF Steps, DmaSteps
  <2>6. stack' # <<>> /\ Head(stack') = Frame(F, "read")
    BY <1>0, <2>4, <2>5, Pushed
  <2>7. Len(stack') = 1
    BY <2>4, SMT
  <2>8. OneTransfer'
    BY <1>0, <2>1, <2>5, <2>6, <2>7 DEF OneTransfer, Top
  <2>9. Settings' /\ PeersApart'
    BY <1>0, <1>1, <1>4, <2>4 DEF Settings, PeersApart
  <2>10. CopyInv'
    BY <1>0, <2>1, <2>5, <2>6 DEF CopyInv, DmaVerified, Top
  <2> QED
    BY <2>8, <2>9, <2>10
<1> QED
  BY <1>0, <1>2, <1>3, <1>4 DEF WriteOf

\* The handler of the transfer reads the first page and writes the second with one
\* setting of the registers, and returns with the data copied (lines 456-480).
LEMMA TransferStep ==
  ASSUME HostInv, TransferInv, Faulty = {}, Device, inside
  PROVE  TransferInv'
<1> USE DEF TransferInv
<1> DEFINE n == Len(data)
<1>1. /\ prog = "wait_dma" /\ Len(stack) = 1 /\ Top.fn = F /\ Top.step \in DmaSteps
      /\ reg[F].src = 0 /\ reg[F].dst = PageSize /\ reg[F].len = n /\ bus_master[F]
  BY DEF OneTransfer, Settings, Mastering, SrcIova, DstIova
<1>2. n \in Nat /\ n <= PageSize /\ n <= DmaMaxLen /\ CopyLen(F) = n
  <2>1. n \in Nat /\ n <= PageSize
    BY LenProperties DEF HostInv, ProgInv
  <2> QED
    BY <1>1, <2>1, Placed DEF CopyLen
<1>3. /\ HandlerStep /\ inside' = (stack' # <<>>)
      /\ UNCHANGED <<prog, data, result, cfgVars>>
  BY CfgKept DEF Device
<1>4. stack \in Seq(Frames) /\ stack # <<>> /\ StackTyped
  <2>1. stack # <<>>
    BY <1>1, OneLong, Zenon
  <2> QED
    BY <2>1 DEF HostInv, Bar0Inv, StackTyped
<1>5. CASE DmaRead
  <2> DEFINE buf == [i \in 1 .. n |-> mem[0 + i - 1]]
  <2>1. stack' = TopAt("write", buf) /\ UNCHANGED <<reg, mem>>
    BY <1>1, <1>2, <1>5 DEF DmaRead
  <2>2. buf \in Seq(Data)
    <3>1. \A i \in 1 .. n : mem[0 + i - 1] \in Data
      <4> SUFFICES ASSUME NEW i \in 1 .. n PROVE mem[0 + i - 1] \in Data
        OBVIOUS
      <4>1. 0 + i - 1 \in Addrs
        BY <1>2, Placed DEF Addrs
      <4> QED
        BY <4>1 DEF HostInv, Bar0Inv, LinesTyped
    <3>2. buf \in [1 .. n -> Data]
      BY <3>1
    <3> QED
      BY <1>2, <3>2, SeqDef
  <2>3. \A i \in 0 .. n - 1 : buf[i + 1] = mem[0 + i]
    <3> SUFFICES ASSUME NEW i \in 0 .. n - 1 PROVE buf[i + 1] = mem[0 + i]
      OBVIOUS
    <3>1. i + 1 \in 1 .. n /\ 0 + (i + 1) - 1 = 0 + i
      BY <1>2
    <3>2. buf[i + 1] = mem[0 + (i + 1) - 1]
      BY <3>1
    <3> QED
      BY <3>1, <3>2
  <2> HIDE DEF buf
  <2>4. "write" \in Steps /\ "write" \in DmaSteps
    BY DEF Steps, DmaSteps
  <2>5. PICK fr \in Frames :
          /\ fr.fn = F /\ fr.step = "write" /\ fr.buf = buf
          /\ Head(stack') = fr /\ Len(stack') = 1
    BY <1>1, <1>4, <2>1, <2>2, <2>4, Stepped
  <2>6. inside'
    <3>1. stack' # <<>>
      BY <2>5, OneLong, Zenon
    <3> QED
      BY <1>3, <3>1, Zenon
  <2>7. OneTransfer'
    BY <1>1, <1>3, <2>4, <2>5, <2>6 DEF OneTransfer, Top
  <2>8. Settings' /\ PeersApart'
    BY <1>3, <2>1 DEF Settings, PeersApart, cfgVars
  <2>9. Read1st'
    BY <1>3, <2>1, <2>3, <2>5 DEF Read1st, Top, SrcIova
  <2>10. CopyInv'
    BY <1>1, <1>3, <2>5, <2>6, <2>9 DEF CopyInv, DmaVerified, Top
  <2> QED
    BY <2>7, <2>8, <2>10
<1>6. CASE DmaReadFails
  <2>1. DmaErr(F, "read", Mapped(0, n))
    BY <1>1, <1>2, <1>6 DEF DmaReadFails
  <2>2. Mapped(0, n)
    BY <1>2, Placed DEF Mapped
  <2> QED
    BY <1>1, <2>1, <2>2 DEF DmaErr
<1>7. CASE DmaWrite
  <2>1. PICK k \in 0 .. n :
          /\ k = n \/ DmaErr(F, "write", Mapped(PageSize, n))
          /\ mem' = [a \in Addrs |-> IF a \in PageSize .. PageSize + k - 1
                                     THEN Top.buf[a - PageSize + 1] ELSE mem[a]]
    BY <1>1, <1>2, <1>7 DEF DmaWrite
  <2>2. stack' = TopAt("notify", <<>>) /\ reg' = reg /\ Top.step = "write"
    BY <1>7 DEF DmaWrite, Running
  <2>3. k = n
    <3>1. Mapped(PageSize, n)
      BY <1>2, Placed DEF Mapped
    <3> QED
      BY <1>1, <2>1, <3>1 DEF DmaErr
  <2>4. Copied'
    <3> SUFFICES ASSUME NEW i \in 0 .. n - 1
                 PROVE  mem'[SrcIova + i] = mem'[DstIova + i]
      BY <1>3 DEF Copied
    <3>1. Top.buf[i + 1] = mem[SrcIova + i]
      BY <2>2 DEF CopyInv, Read1st
    <3>2. /\ SrcIova + i \in Addrs /\ SrcIova + i \notin PageSize .. PageSize + k - 1
          /\ DstIova + i \in Addrs /\ DstIova + i \in PageSize .. PageSize + k - 1
          /\ (DstIova + i) - PageSize + 1 = i + 1
      BY <1>2, <2>3, Placed DEF Addrs, SrcIova, DstIova
    <3>3. /\ mem'[SrcIova + i] = mem[SrcIova + i]
          /\ mem'[DstIova + i] = Top.buf[(DstIova + i) - PageSize + 1]
      BY <2>1, <3>2
    <3> QED
      BY <3>1, <3>2, <3>3
  <2>5. <<>> \in Seq(Data) /\ Len(<<>>) = 0 /\ "notify" \in Steps /\ "notify" \in DmaSteps
    BY EmptySeq DEF Steps, DmaSteps
  <2>6. PICK fr \in Frames :
          /\ fr.fn = F /\ fr.step = "notify"
          /\ Head(stack') = fr /\ Len(stack') = 1
    BY <1>1, <1>4, <2>2, <2>5, Stepped
  <2>7. inside'
    <3>1. stack' # <<>>
      BY <2>6, OneLong, Zenon
    <3> QED
      BY <1>3, <3>1, Zenon
  <2>8. OneTransfer'
    BY <1>1, <1>3, <2>5, <2>6, <2>7 DEF OneTransfer, Top
  <2>9. Settings' /\ PeersApart'
    BY <1>3, <2>2 DEF Settings, PeersApart, cfgVars
  <2>10. CopyInv'
    BY <1>1, <1>3, <2>4, <2>6, <2>7 DEF CopyInv, DmaVerified, Top
  <2> QED
    BY <2>8, <2>9, <2>10
<1>8. CASE DmaDone
  <2>1. stack' = Tail(stack) /\ UNCHANGED <<reg, mem>> /\ Top.step = "notify"
    BY <1>8 DEF DmaDone, Running
  <2>2. stack' = <<>>
    <3>1. Tail(stack) \in Seq(Frames) /\ Len(Tail(stack)) = Len(stack) - 1
      BY <1>4, HeadTailProperties
    <3>2. Len(Tail(stack)) = 0
      BY <1>1, <3>1
    <3> QED
      BY <2>1, <3>1, <3>2, EmptySeq
  <2>3. inside' \in BOOLEAN /\ ~inside' /\ Copied
    <3>1. ~inside'
      BY <1>3, <2>2, Zenon
    <3>2. inside' \in BOOLEAN
      BY <1>3
    <3> QED
      BY <2>1, <3>1, <3>2 DEF CopyInv
  <2>4. OneTransfer'
    <3>1. \A fr : fr \notin FramesOf(stack')
      BY <2>2, NoFrames
    <3> QED
      BY <2>3, <3>1 DEF OneTransfer
  <2>5. Settings' /\ PeersApart'
    BY <1>3, <2>1 DEF Settings, PeersApart, cfgVars
  <2>6. CopyInv'
    BY <1>1, <1>3, <2>1, <2>3 DEF CopyInv, DmaVerified, Copied
  <2> QED
    BY <2>4, <2>5, <2>6
<1>9. CASE P2pWrite \/ P2pRefused \/ Return
  BY <1>1, <1>9 DEF P2pWrite, P2pRefused, Return, Running, DmaSteps
<1> QED
  BY <1>3, <1>5, <1>6, <1>7, <1>8, <1>9 DEF HandlerStep

\* The handlers that run while the program's transfer does not are those of
\* peer-to-peer writes, which do not touch it (test_p2p.sh).
LEMMA PeerStep ==
  ASSUME HostInv, TransferInv, Device, ~inside
  PROVE  TransferInv'
<1> USE DEF TransferInv
<1>1. /\ HandlerStep /\ UNCHANGED <<prog, data, result, cfgVars>>
      /\ inside' \in BOOLEAN /\ ~inside'
  BY CfgKept DEF Device
<1>2. stack # <<>>
  BY <1>1 DEF HandlerStep, DmaRead, DmaReadFails, DmaWrite, DmaDone, P2pWrite, P2pRefused,
    Return, Running
<1>3. /\ Top \in Frames /\ Tail(stack) \in Seq(Frames)
      /\ FramesOf(stack) = {Top} \cup FramesOf(Tail(stack))
  BY <1>2, Popped DEF HostInv, Bar0Inv, StackTyped, Top
<1>4. \A fr \in FramesOf(stack) : fr.step \notin DmaSteps
  BY DEF OneTransfer
<1>5. /\ Top.step \notin DmaSteps /\ Top.fn \in Fns
      /\ \A fr \in FramesOf(Tail(stack)) : fr.step \notin DmaSteps
  BY <1>3, <1>4 DEF Frames
<1>6. ~DmaRead /\ ~DmaReadFails /\ ~DmaWrite /\ ~DmaDone
  BY <1>5 DEF DmaRead, DmaReadFails, DmaWrite, DmaDone, Running, DmaSteps
<1>7. PICK fr \in Frames :
        /\ fr.step = "return"
        /\ TopAt("return", <<>>) \in Seq(Frames)
        /\ FramesOf(TopAt("return", <<>>)) = {fr} \cup FramesOf(Tail(stack))
  <2>1. "return" \in Steps /\ <<>> \in Seq(Data)
    BY EmptySeq DEF Steps
  <2>2. StackTyped
    BY DEF HostInv, Bar0Inv
  <2> QED
    BY <1>2, <2>1, <2>2, Stepped
<1>8. \A x \in FramesOf(TopAt("return", <<>>)) : x.step \notin DmaSteps
  BY <1>5, <1>7 DEF DmaSteps
<1>9. CASE P2pWrite
  <2> DEFINE t == reg[Top.fn].p2p_addr
             rest == TopAt("return", <<>>)
  <2>1. t # NoTarget /\ HandleWrite(t.fn, t.reg, reg[Top.fn].p2p_data, rest)
    BY <1>9 DEF P2pWrite
  <2>2. RegTyped
    BY DEF HostInv, Bar0Inv
  <2>3. t.fn \in Fns /\ t.reg # "p2p_addr" /\ Alone(t.fn, t.reg)
    <3>1. t \in Targets
      BY <1>5, <2>1, <2>2, RegKinds
    <3> QED
      BY <1>5, <2>1, <3>1 DEF Targets, PeersApart
  <2> HIDE DEF t
  <2>4. /\ PeersApart' /\ UNCHANGED mem
        /\ reg'[F].src = reg[F].src /\ reg'[F].dst = reg[F].dst /\ reg'[F].len = reg[F].len
        /\ \A x \in FramesOf(stack') : x.step \in DmaSteps => x \in FramesOf(rest)
    BY <1>7, <2>1, <2>2, <2>3, WriteApart
  <2> QED
    BY <1>1, <1>8, <2>4, HandledApart DEF cfgVars
<1>10. CASE P2pRefused \/ Return
  <2>1. /\ stack' = TopAt("return", <<>>) \/ stack' = Tail(stack)
        /\ UNCHANGED <<reg, mem>>
    BY <1>10 DEF P2pRefused, AfterRefusal, Return
  <2>2. PeersApart' /\ \A x \in FramesOf(stack') : x.step \notin DmaSteps
    BY <1>5, <1>8, <2>1 DEF PeersApart
  <2> QED
    BY <1>1, <2>1, <2>2, HandledApart DEF cfgVars
<1> QED
  BY <1>1, <1>6, <1>9, <1>10 DEF HandlerStep

\* Every step keeps the transfer's invariant.
LEMMA TransferKept ==
  ASSUME HostInv, TransferInv, Faulty = {}, ScriptsApart, HostNext
  PROVE  TransferInv'
<1>0. /\ inside \in BOOLEAN /\ F \in Fns /\ result # "mismatch"
      /\ prog = "off" => ~inside
      /\ stack = <<>> => ~inside
      /\ bus_master \in [Fns -> BOOLEAN]
      /\ prog \in Mastering => bus_master[F]
      /\ RegTyped /\ PeersApart /\ <<>> \in Seq(Frames) /\ FramesOf(<<>>) = {}
  BY Placed, IdleOutside, NoFrames, EmptySeq
  DEF TransferInv, OneTransfer, CopyInv, DmaVerified, Settings, HostInv, Bar0Inv, LinesTyped
<1>1. CASE TestScratch
  <2>1. /\ stack = <<>> /\ HandleWrite(F, "scratch", 1, <<>>)
        /\ UNCHANGED <<prog, data, result, inside>>
    BY <1>1 DEF TestScratch
  <2>2. /\ PeersApart' /\ UNCHANGED <<mem, bus_master>>
        /\ reg'[F].src = reg[F].src /\ reg'[F].dst = reg[F].dst /\ reg'[F].len = reg[F].len
        /\ \A fr \in FramesOf(stack') : fr.step \in DmaSteps => fr \in {}
    BY <1>0, <2>1, WriteApart DEF Alone, cfgVars
  <2> QED
    BY <1>0, <2>1, <2>2, HandledApart
<1>2. CASE \E r \in Resources : Acquire(r) \/ Release(r)
  <2>1. /\ UNCHANGED <<reg, mem, stack, inside, prog, data, result>> /\ driver # "vfio"
    BY <1>2 DEF Acquire, Release, bar0Vars, Resources, Un
  <2>2. prog' \notin Mastering
    BY <2>1 DEF HostInv, ProgInv, Mastering
  <2> QED
    BY <1>0, <2>1, <2>2, AwayFromBar
<1>3. CASE Rebind \/ Interrupt \/ Open \/ Claim \/ SetupFails \/ Cleanup \/ Die
  <2>1. /\ UNCHANGED <<reg, mem, stack, inside>> /\ result' \in {result, "none"}
        /\ prog' = prog \/ (~inside /\ prog' \in {"claim", "master", "close", "off"})
        /\ data' = data \/ prog' = "off"
    BY <1>0, <1>3 DEF Rebind, Interrupt, TakeMsi, Open, ResetFunction, Claim, SetupFails,
      Cleanup, Die, Closed, At, bar0Vars
  <2>2. prog' \in Mastering => bus_master'[F]
    <3>1. CASE Rebind \/ Interrupt
      BY <1>0, <3>1 DEF Rebind, Interrupt, TakeMsi, bar0Vars, cfgVars
    <3>2. CASE Open \/ Claim \/ SetupFails \/ Cleanup \/ Die
      BY <3>2 DEF Open, Claim, SetupFails, Cleanup, Die, Closed, Mastering
    <3> QED
      BY <1>3, <3>1, <3>2
  <2>3. prog' = prog \/ prog' \notin {"dst", "len", "cmd", "wait_dma", "check"}
    BY <2>1
  <2> QED
    BY <1>0, <2>1, <2>2, <2>3, AwayFromBar
<1>4. CASE EnableMaster \/ SetupMsix
  <2>1. /\ UNCHANGED <<reg, mem, stack, inside, data, result>> /\ ~inside
        /\ prog' \in {"msix", "map"}
    BY <1>4 DEF EnableMaster, SetupMsix, WriteConfig, At
  <2>2. bus_master'[F]
    <3>1. CASE EnableMaster
      BY <1>0, <3>1 DEF EnableMaster, WriteConfig
    <3>2. CASE SetupMsix
      BY <1>0, <3>2 DEF SetupMsix, WriteConfig, At, Mastering
    <3> QED
      BY <1>4, <3>1, <3>2
  <2> QED
    BY <1>0, <2>1, <2>2, AwayFromBar
<1>5. CASE Woken \/ Timeout
  <2>1. /\ UNCHANGED <<reg, mem, stack, bus_master, inside, data, result>> /\ ~inside
        /\ \/ prog = "wait_dma" /\ prog' = "check"
           \/ prog = "wait_raise" /\ prog' = "fill"
    BY <1>5 DEF Woken, Timeout, At, AfterWait, bar0Vars, cfgVars
  <2>2. bus_master'[F]
    BY <1>0, <2>1 DEF Mastering
  <2> QED
    BY <1>0, <2>1, <2>2, AwayFromBar
<1>6. CASE Compare
  <2>1. /\ UNCHANGED <<reg, mem, stack, bus_master, inside, data>> /\ ~inside
        /\ prog = "check" /\ prog' \in {"fill", "close"}
        /\ result' = IF Copied THEN "success" ELSE "mismatch"
    BY <1>6 DEF Compare, At, bar0Vars, cfgVars, Copied
  <2>2. bus_master'[F] /\ result' # "mismatch"
    BY <1>0, <2>1 DEF Mastering, TransferInv, CopyInv
  <2> QED
    BY <1>0, <2>1, <2>2, AwayFromBar
<1>7. CASE SetupDma \/ \E p \in Payloads : Fill(p)
  <2>1. /\ UNCHANGED <<reg, stack, bus_master, inside, result>> /\ ~inside
        /\ prog \in {"map", "fill"} /\ prog' \in {"scratch", "src"}
    BY <1>7 DEF SetupDma, Fill, At, cfgVars
  <2>2. bus_master'[F]
    BY <1>0, <2>1 DEF Mastering
  <2>3. PeersApart'
    BY <1>0, <2>1 DEF PeersApart
  <2>4. OneTransfer'
    BY <2>1 DEF TransferInv, OneTransfer
  <2>5. Settings' /\ CopyInv'
    BY <1>0, <2>1, <2>2 DEF Settings, CopyInv, DmaVerified
  <2> QED
    BY <2>3, <2>4, <2>5 DEF TransferInv
<1>8. CASE Script
  <2>1. UNCHANGED <<prog, data, result, inside>>
    BY <1>8 DEF Script, hostVars
  <2>2. CASE \E w \in HostWrites : HostWrite(w)
    <3> PICK w \in HostWrites : HostWrite(w)
      BY <2>2
    <3>1. /\ w.fn \in Fns /\ Alone(w.fn, w.reg)
          /\ w.reg = "p2p_addr" => w.val \in Targets /\ Alone(w.val.fn, w.val.reg)
      BY Bar0Assumption DEF ScriptsApart
    <3>2. stack = <<>> /\ HandleWrite(w.fn, w.reg, w.val, <<>>)
      BY DEF HostWrite
    <3>3. /\ PeersApart' /\ UNCHANGED <<mem, bus_master>>
          /\ reg'[F].src = reg[F].src /\ reg'[F].dst = reg[F].dst /\ reg'[F].len = reg[F].len
          /\ \A fr \in FramesOf(stack') : fr.step \in DmaSteps => fr \in {}
      BY <1>0, <3>1, <3>2, WriteApart DEF cfgVars
    <3> QED
      BY <1>0, <2>1, <3>2, <3>3, HandledApart
  <2>3. CASE \E f \in Fns \ {F} : WriteConfig(f, TRUE, msix[f])
    <3>1. UNCHANGED <<reg, mem, stack>> /\ bus_master'[F] = bus_master[F]
      BY <1>0, <2>3 DEF WriteConfig
    <3> QED
      BY <1>0, <2>1, <3>1, AwayFromBar
  <2> QED
    BY <1>8, <2>2, <2>3 DEF Script
<1> QED
  BY <1>1, <1>2, <1>3, <1>4, <1>5, <1>6, <1>7, <1>8, WriteRegTransfer, TransferStep, PeerStep
  DEF HostNext, DriverStep, ProgramStep

\* When DMA accesses of mapped memory succeed and the scripts that run meanwhile
\* neither start transfers nor set the registers of this one, the program always
\* finds its data copied: however late or early interrupts come, whether its
\* waits time out, whatever earlier runs, killed at any time, left behind
\* (test_edu_dma.cpp lines 184-217).
THEOREM ProgramFindsCopy == Faulty = {} /\ ScriptsApart => (HostSpec => []DmaVerified)
<1> SUFFICES ASSUME Faulty = {}, ScriptsApart PROVE HostSpec => []DmaVerified
  OBVIOUS
<1>1. HostInit => TransferInv
  <2> SUFFICES ASSUME HostInit PROVE TransferInv
    OBVIOUS
  <2>1. PeersApart
    BY DEF HostInit, Bar0Init, PeersApart
  <2>2. OneTransfer
    BY NoFrames DEF HostInit, Bar0Init, OneTransfer
  <2> QED
    BY <2>1, <2>2 DEF HostInit, TransferInv, Settings, CopyInv, DmaVerified, Mastering
<1>2. HostInv /\ TransferInv /\ [HostNext]_vars => TransferInv'
  <2>1. HostInv /\ TransferInv /\ HostNext => TransferInv'
    BY TransferKept
  <2>2. TransferInv /\ UNCHANGED vars => TransferInv'
    BY DEF vars, bar0Vars, cfgVars, hostVars, TransferInv, PeersApart, OneTransfer, Settings,
      CopyInv, Copied, Read1st, DmaVerified, Top
  <2> QED
    BY <2>1, <2>2
<1>3. TransferInv => DmaVerified
  BY DEF TransferInv, CopyInv
<1> QED
  BY <1>1, <1>2, <1>3, HostInvariance, PTL DEF HostSpec
=============================================================================
