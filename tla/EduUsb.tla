------------------------------- MODULE EduUsb -------------------------------
(***************************************************************************)
(* The two USB devices: the serial port that echoes                         *)
(* (qemu_devices/dev-edu-serial.c) and the counter (qemu_devices/dev-edu.c).*)
(*                                                                         *)
(* The host keeps transfers queued on the endpoints.  The host controller   *)
(* (qemu-xhci, start_qemu.sh) hands the first transfer of an endpoint to     *)
(* handle_data, endpoints in any order.  A transfer that is refused for now  *)
(* (NAK) stays first, and the controller leaves the endpoint alone until the *)
(* host rings its doorbell, which it does when it queues a transfer, or the  *)
(* device calls usb_wakeup, which the serial port never does.                *)
(*                                                                         *)
(* The status endpoint of the serial port always refuses and has no action; *)
(* neither have the endpoints and requests that are stalled and the control  *)
(* requests that touch no state of the device.                              *)
(***************************************************************************)
EXTENDS Integers, Sequences

CONSTANTS
  BufSize,       \* sizeof(rx_buf), also of the buffer a message is taken into
  CounterMod,    \* the message counter is taken modulo CounterMod (2^32)
  PrefixLen,     \* PrefixLen[n] characters print as "[n] "
  Texts,         \* messages: visible of their size characters precede a NUL
  ReadSizes,     \* the sizes of the reads the host queues
  MaxQueued,     \* bound: transfers queued on an endpoint
  MaxMessages,   \* bound: messages between two resets
  Base,          \* the values of a byte (256)
  Words          \* the words the host sets the counter to

ASSUME UsbAssumption ==
  /\ BufSize \in Nat \ {0} /\ CounterMod \in Nat \ {0}
  /\ PrefixLen \in [0 .. CounterMod - 1 -> Nat \ {0}]
  /\ \A m \in Texts : m.size \in Nat /\ m.visible \in 0 .. m.size
  /\ ReadSizes \subseteq Nat \ {0}
  /\ MaxQueued \in Nat \ {0} /\ MaxMessages \in Nat \ {0}
  /\ Base \in Nat \ {0, 1}
  /\ Words \subseteq [0 .. 3 -> 0 .. Base - 1]

VARIABLES
  alive,             \* QEMU runs
  counter, rx_len,   \* the serial port's registers
  rx_buf,            \* the message whose echo rx_buf holds, and its number
  out_q, in_q,       \* the messages and the reads queued on its endpoints
  in_running,        \* the controller serves the reads
  value,             \* the counter device's register
  \* What the host has seen since the last reset.
  sent, last,        \* how many messages the port took, and the latest
  seen,              \* how many of them it had taken when the last read ended
  reads, got,        \* how many reads have ended, and what the last one gave
  set_to, answer     \* the word last set, and the last word read

serialVars ==
  <<counter, rx_len, rx_buf, out_q, in_q, in_running, sent, last, seen, reads, got>>
counterVars == <<value, set_to, answer>>
usbVars == <<alive, serialVars, counterVars>>

None == [n |-> -1]
Zero == [i \in 0 .. 3 |-> 0]
Least(a, b) == IF a < b THEN a ELSE b

UsbInit ==
  /\ alive = TRUE
  /\ counter = 0 /\ rx_len = 0 /\ rx_buf = None
  /\ out_q = <<>> /\ in_q = <<>> /\ in_running = FALSE
  /\ sent = 0 /\ last = None /\ seen = 0 /\ reads = 0 /\ got = None
  /\ value = 0 /\ set_to = Zero /\ answer = <<>>

-----------------------------------------------------------------------------
(* The serial port.                                                         *)

\* The length of "[n] m": the message is printed up to its first NUL.
TextLen(n, m) == PrefixLen[n] + m.visible

\* Mutants: the length is that of the transfer; an empty message has no echo.
EchoLenOfTransfer(n, m) == PrefixLen[n] + m.size
EchoLenIfAny(n, m) == IF m.size = 0 THEN 0 ELSE TextLen(n, m)

\* What snprintf returns: the length had there been room.
EchoLen(n, m) == TextLen(n, m)

\* The characters of it that rx_buf holds: the last byte is the NUL.
Kept(len) == Least(len, BufSize - 1)

\* Bulk OUT.  The terminating NUL, and what a longer transfer has beyond the
\* buffer, is stored past its end: QEMU goes on or stops.
TakeMessage ==
  /\ alive /\ out_q # <<>>
  /\ LET m == Head(out_q)  n == (counter + 1) % CounterMod
     IN /\ counter' = n
        /\ rx_buf' = [n |-> n, msg |-> m]
        /\ rx_len' = EchoLen(n, m)
        /\ alive' \in IF m.size < BufSize THEN {TRUE} ELSE BOOLEAN
        /\ last' = m
  /\ out_q' = Tail(out_q) /\ sent' = sent + 1
  /\ UNCHANGED <<in_q, in_running, seen, reads, got, counterVars>>

\* Mutant: the rest of the echo is left for the next read.
RemainingRest(len) == rx_len - len

\* What a read leaves: nothing.
Remaining(len) == 0

\* Bulk IN with an echo to give: as much of it as was asked for, and the rest
\* is dropped.  What rx_len counts beyond the text kept is other memory.
GiveEcho ==
  /\ alive /\ in_running /\ in_q # <<>> /\ rx_len > 0
  /\ LET len == Least(rx_len, Head(in_q))
         text == Least(len, Kept(TextLen(rx_buf.n, rx_buf.msg)))
     IN /\ got' = [n |-> rx_buf.n, msg |-> rx_buf.msg, asked |-> Head(in_q),
                   text |-> text, other |-> len - text]
        /\ rx_len' = Remaining(len)
  /\ in_q' = Tail(in_q) /\ reads' = reads + 1 /\ seen' = sent
  /\ UNCHANGED <<alive, counter, rx_buf, out_q, in_running, sent, last, counterVars>>

\* Bulk IN without an echo to give.
RefuseRead ==
  /\ alive /\ in_running /\ in_q # <<>> /\ rx_len = 0
  /\ in_running' = FALSE
  /\ UNCHANGED <<alive, counter, rx_len, rx_buf, out_q, in_q, sent, last, seen, reads, got,
                 counterVars>>

\* Mutant: an echo outlives the reset.
ResetSerialKeepsEcho ==
  /\ alive
  /\ counter' = 0 /\ UNCHANGED <<rx_len, rx_buf>>
  /\ out_q' = <<>> /\ in_q' = <<>> /\ in_running' = FALSE
  /\ sent' = 0 /\ last' = None /\ seen' = 0 /\ reads' = 0 /\ got' = None
  /\ UNCHANGED <<alive, counterVars>>

\* The host resets the port: it also takes back what it had queued.
ResetSerial ==
  /\ alive
  /\ counter' = 0 /\ rx_len' = 0 /\ UNCHANGED rx_buf
  /\ out_q' = <<>> /\ in_q' = <<>> /\ in_running' = FALSE
  /\ sent' = 0 /\ last' = None /\ seen' = 0 /\ reads' = 0 /\ got' = None
  /\ UNCHANGED <<alive, counterVars>>

QueueMessage(m) ==
  /\ alive /\ Len(out_q) < MaxQueued /\ sent + Len(out_q) < MaxMessages
  /\ out_q' = Append(out_q, m)
  /\ UNCHANGED <<alive, counter, rx_len, rx_buf, in_q, in_running, sent, last, seen, reads, got,
                 counterVars>>

\* With the doorbell.
QueueRead(k) ==
  /\ alive /\ Len(in_q) < MaxQueued
  /\ in_q' = Append(in_q, k) /\ in_running' = TRUE
  /\ UNCHANGED <<alive, counter, rx_len, rx_buf, out_q, sent, last, seen, reads, got, counterVars>>

-----------------------------------------------------------------------------
(* The counter.                                                             *)

\* What a byte counts for, by its place.
Place(i) ==
  CASE i = 0 -> 1 [] i = 1 -> Base [] i = 2 -> Base * Base [] i = 3 -> Base * Base * Base

Bytes(v) == [i \in 0 .. 3 |-> (v \div Place(i)) % Base]

\* Mutants: the last two bytes in the wrong order, the last one shifted too far.
WordSwapped(b) == b[0] + b[1] * Place(1) + b[3] * Place(2) + b[2] * Place(3)
WordWide(b) == b[0] + b[1] * Place(1) + b[2] * Place(2) + b[3] * Base * Place(3)

Word(b) == b[0] + b[1] * Place(1) + b[2] * Place(2) + b[3] * Place(3)

\* usb_packet_copy stops QEMU when the transfer has fewer than four bytes.
SetCounter(b, short) ==
  /\ alive
  /\ alive' = ~short
  /\ IF short THEN UNCHANGED <<value, set_to>>
              ELSE value' = Word(b) /\ set_to' = b
  /\ UNCHANGED <<answer, serialVars>>

ReadCounter(short) ==
  /\ alive
  /\ alive' = ~short
  /\ answer' = IF short THEN answer ELSE Bytes(value)
  /\ UNCHANGED <<value, set_to, serialVars>>

ResetCounter ==
  /\ alive
  /\ value' = 0 /\ set_to' = Zero /\ answer' = <<>>
  /\ UNCHANGED <<alive, serialVars>>

-----------------------------------------------------------------------------
\* What the controller does with a read it serves.
ServeRead == GiveEcho \/ RefuseRead

UsbNext ==
  \/ TakeMessage \/ ServeRead \/ ResetSerial
  \/ \E m \in Texts : QueueMessage(m)
  \/ \E k \in ReadSizes : QueueRead(k)
  \/ \E short \in BOOLEAN : ReadCounter(short) \/ \E b \in Words : SetCounter(b, short)
  \/ ResetCounter

\* The controller hands over the transfers of the endpoints it serves: messages,
\* which are never refused, and reads until one is.
UsbSpec ==
  UsbInit /\ [][UsbNext]_usbVars /\ WF_usbVars(TakeMessage) /\ WF_usbVars(ServeRead)

-----------------------------------------------------------------------------
(* Properties.                                                              *)

UsbTypeOK ==
  /\ alive \in BOOLEAN
  /\ counter \in 0 .. CounterMod - 1 /\ rx_len \in Nat
  /\ rx_len > 0 => rx_buf.n \in 0 .. CounterMod - 1 /\ rx_buf.msg \in Texts
  /\ out_q \in Seq(Texts) /\ Len(out_q) <= MaxQueued
  /\ in_q \in Seq(ReadSizes) /\ Len(in_q) <= MaxQueued
  /\ in_running \in BOOLEAN
  /\ value \in 0 .. Base * Place(3) - 1

\* A read ends in this step.
ReadEnds == reads' = reads + 1

\* However messages, reads and resets are interleaved, a read gives the echo
\* of the latest message since the reset, under that message's number: never
\* one from before the reset, never an older one, and no more echoes than
\* there were messages (lines 101-106, 148-169).
EchoOfLatest ==
  [][ReadEnds => /\ got'.n = sent % CounterMod /\ got'.msg = last
                 /\ reads' <= sent]_usbVars

\* An echo that fits in rx_buf with its NUL is given whole, up to the length
\* that was asked for, with nothing after it; a NUL in the message ends it and
\* a longer number makes it longer (lines 150 and 167).  One that does not fit
\* is given with other memory behind it.
EchoWhole ==
  [][ReadEnds /\ TextLen(got'.n, got'.msg) < BufSize
       => /\ got'.text = Least(TextLen(got'.n, got'.msg), got'.asked)
          /\ got'.other = 0]_usbVars

\* The port took a message, and no read has ended since.
Unanswered == sent > seen

\* A read that is served when the port has a message to answer, or takes one
\* before it refuses the read, ends, or the host takes everything back: also the
\* empty message leaves an echo, a newer message leaves its own, and no echo is
\* dropped but by the read that ends (lines 149-169).
ReadAfterMessageEnds ==
  in_running /\ in_q # <<>> /\ Unanswered ~> ~Unanswered \/ ~alive

\* "Echo back whatever is sent" (line 6): a message sent while a read waits is
\* answered.  It is not: the refusal at line 155 ends the serving of the reads
\* and the message's arrival (lines 159-169) does not resume it.
EchoComesBack ==
  in_q # <<>> /\ Unanswered ~> ~Unanswered \/ ~alive

\* The counter is read as it was last set since the reset, byte by byte
\* (dev-edu.c lines 107-118).
CounterAsSet == [][answer' # answer /\ answer' # <<>> => answer' = set_to]_usbVars
=============================================================================
