----------------------------- MODULE PcReceiver -----------------------------
(***************************************************************************)
(* The serial line into the product: the receive interrupt fills the ring  *)
(* of bsp_uart_rx.c, which the super-loop empties a few bytes at a time    *)
(* into the frame of product_pc_link_step_rx, between any two interrupts.  *)
(* A byte is its number in what the PC sends, modulo Stream; frames of     *)
(* FrameBytes follow one another, the first two bytes being the magic.     *)
(***************************************************************************)
EXTENDS Integers, Sequences

CONSTANTS
    Capacity,       \* bytes the ring holds, BSP_UART_RX_CAPACITY - 1
    FrameBytes,     \* header and payload
    PopLimit,       \* bytes taken in one pass (16)
    Stream          \* bound: byte numbers, a multiple of FrameBytes
ASSUME ReceiverAssumption == Stream \in Nat \ {0} /\ FrameBytes \in Nat \ {0}

VARIABLES
    sent,       \* the next byte of the line
    rx,         \* bsp_uart_rx_t; changed is epoch # receive_epoch
    frame,      \* g_pc_link_frame[0 .. g_pc_link_received - 1]
    left,       \* pops left in this pass, 0 between passes
    held,       \* g_pc_link_ack_deferred
    decoded     \* history: the last frame decoded
vars == <<sent, rx, frame, left, held, decoded>>

Ring == [data : UNION {[1 .. n -> 0 .. Stream - 1] : n \in 0 .. Capacity},
         blocked : BOOLEAN, poisoned : BOOLEAN, changed : BOOLEAN]

(* bsp_uart_rx_push: an error, or no room, poisons what is queued.         *)
(* Seeded fault: a byte that finds no room is only left out. *)
PushDropping(r, byte, error) ==
    IF r.blocked \/ r.poisoned \/ Len(r.data) = Capacity THEN r
    ELSE [r EXCEPT !.data = Append(@, byte)]
Push(r, byte, error) ==
    IF error \/ (~r.blocked /\ ~r.poisoned /\ Len(r.data) = Capacity)
    THEN [r EXCEPT !.poisoned = TRUE, !.changed = @ \/ ~r.poisoned]
    ELSE IF r.blocked \/ r.poisoned THEN r
    ELSE [r EXCEPT !.data = Append(@, byte)]

(* bsp_uart_rx_block: a change empties the ring. *)
Block(r, blocked) ==
    IF blocked = r.blocked THEN r
    ELSE [data |-> <<>>, blocked |-> blocked, poisoned |-> FALSE, changed |-> TRUE]

Init ==
    /\ sent = 0 /\ frame = <<>> /\ left = 0 /\ held = FALSE /\ decoded = <<>>
    /\ rx = [data |-> <<>>, blocked |-> FALSE, poisoned |-> FALSE, changed |-> FALSE]

(* USART1_IRQHandler: noise, framing and overrun come as errors. *)
Interrupt ==
    /\ \E error \in BOOLEAN : rx' = Push(rx, sent, error)
    /\ sent' = (sent + 1) % Stream
    /\ UNCHANGED <<frame, left, held, decoded>>

(* The product and the transaction block and unblock the receiver between  *)
(* two passes; the deferred acknowledgement goes out.                      *)
SetBlocked ==
    /\ left = 0
    /\ \E blocked \in BOOLEAN : rx' = Block(rx, blocked)
    /\ UNCHANGED <<sent, frame, left, held, decoded>>
Release == held /\ held' = FALSE /\ UNCHANGED <<sent, rx, frame, left, decoded>>

(* Seeded fault: only a frame that took too long starts afresh. *)
BeginLate ==
    /\ left = 0
    /\ \E late \in BOOLEAN : frame' = IF late THEN <<>> ELSE frame
    /\ rx' = [rx EXCEPT !.changed = FALSE]
    /\ left' = IF held THEN 0 ELSE PopLimit
    /\ UNCHANGED <<sent, held, decoded>>
(* The frame starts afresh if bytes were lost since the last pass, or if   *)
(* its 250 ms are over.                                                    *)
Begin ==
    /\ left = 0
    /\ \E late \in BOOLEAN :
         frame' = IF late \/ rx.changed THEN <<>> ELSE frame
    /\ rx' = [rx EXCEPT !.changed = FALSE]
    /\ left' = IF held THEN 0 ELSE PopLimit
    /\ UNCHANGED <<sent, held, decoded>>

Magic(byte, i) == i >= 2 \/ byte % FrameBytes = i
Extended(byte) ==
    IF Magic(byte, Len(frame)) THEN Append(frame, byte)
    ELSE IF Magic(byte, 0) THEN <<byte>> ELSE <<>>

PopPoisoned ==
    /\ rx.poisoned
    /\ rx' = [rx EXCEPT !.data = <<>>, !.poisoned = FALSE]
    /\ frame' = <<>> /\ left' = 0
    /\ UNCHANGED <<sent, held, decoded>>
PopEmpty ==
    /\ ~rx.poisoned /\ rx.data = <<>>
    /\ left' = 0 /\ UNCHANGED <<sent, rx, frame, held, decoded>>
PopByte ==
    /\ ~rx.poisoned /\ rx.data # <<>>
    /\ rx' = [rx EXCEPT !.data = Tail(@)]
    /\ LET next == Extended(Head(rx.data))
       IN  IF Len(next) = FrameBytes
           THEN /\ decoded' = next /\ frame' = <<>> /\ left' = 0
                /\ held' \in BOOLEAN
           ELSE /\ frame' = next /\ left' = left - 1
                /\ UNCHANGED <<decoded, held>>
    /\ UNCHANGED sent
Pop == left # 0 /\ (PopPoisoned \/ PopEmpty \/ PopByte)

Next == Interrupt \/ SetBlocked \/ Release \/ Begin \/ Pop
Spec == Init /\ [][Next]_vars

Consecutive(bytes) ==
    \A i \in 1 .. Len(bytes) - 1 : bytes[i + 1] = (bytes[i] + 1) % Stream

(* A frame handed to the decoder is one frame as it was sent: never one    *)
(* joined from the bytes before and after a loss, however errors,          *)
(* overflows, blocking and the pops interleave.  The CRC is not needed.    *)
NoSplice ==
    /\ Consecutive(decoded)
    /\ decoded # <<>> => decoded[1] % FrameBytes = 0
=============================================================================
