------------------------------ MODULE KeyRing ------------------------------
(***************************************************************************)
(* Doom's keyboard input, src/ffi/mod.rs:24-136 and 239-253: the handler   *)
(* turns the bytes of a PS/2 controller into key events in a ring buffer,  *)
(* and the Doom thread takes them out with DG_GetKey.  The keyboard with   *)
(* the keys held on it, and what Doom believes of them, are beside it.     *)
(*                                                                         *)
(* A physical key is <<extended, make code>>.  An extended key sends 0xE0  *)
(* before its code, and a release sends the code with bit 7 set.  Each     *)
(* byte is one interrupt.                                                  *)
(***************************************************************************)
EXTENDS Naturals, Sequences

CONSTANTS RingSize,  \* KEY_BUF_SIZE (32)
          Phys       \* the physical keys somebody types on

\* No key has a make code whose release would read as the prefix 0xE0.
ASSUME RingAssumption ==
  /\ RingSize \in Nat \ {0}
  /\ Phys \subseteq BOOLEAN \X ((1 .. 127) \ {96})

VARIABLES
  buf, head, tail,  \* KEY_RING
  extended,         \* EXTENDED
  ifl,              \* the Doom thread's interrupt flag
  locked,           \* the Doom thread holds the lock of KEY_RING
  wire,             \* bytes of the last key event not yet delivered
  held,             \* physical keys that are down, the bytes on the wire included
  view,             \* Doom keys that DG_GetKey last reported as pressed
  missed            \* Doom keys whose latest event found the ring full

ring == <<buf, head, tail>>
ringvars == <<ring, extended, ifl, locked, wire, held, view, missed>>

E0 == 224

Row2 == <<113, 119, 101, 114, 116, 121, 117, 105, 111, 112>>  \* qwertyuiop
Row3 == <<97, 115, 100, 102, 103, 104, 106, 107, 108>>        \* asdfghjkl
Row4 == <<122, 120, 99, 118, 98, 110, 109, 44, 46, 47>>       \* zxcvbnm,./

ScancodeToDoom(sc, ext) ==
  IF ext
    THEN CASE sc = 72 -> 173 [] sc = 80 -> 175 [] sc = 75 -> 172 [] sc = 77 -> 174
           [] sc \in {29, 56} -> 128 + sc
           [] OTHER -> 0
    ELSE CASE sc = 1 -> 27 [] sc = 14 -> 127 [] sc = 15 -> 9 [] sc = 28 -> 13 [] sc = 57 -> 32
           [] sc = 42 -> 182
           [] sc \in {29, 54, 56} \cup 59 .. 68 \cup {87, 88} -> 128 + sc
           [] sc \in 2 .. 10 -> 47 + sc
           [] sc = 11 -> 48 [] sc = 12 -> 45 [] sc = 13 -> 61
           [] sc \in 16 .. 25 -> Row2[sc - 15]
           [] sc \in 30 .. 38 -> Row3[sc - 29]
           [] sc \in 44 .. 53 -> Row4[sc - 43]
           [] OTHER -> 0

DoomKey(p) == ScancodeToDoom(p[2], p[1])
Event == [pressed : BOOLEAN, key : {DoomKey(p) : p \in Phys} \ {0}]
NoEvent == [pressed |-> FALSE, key |-> 0]

RingInit ==
  /\ buf = [i \in 0 .. RingSize - 1 |-> NoEvent] /\ head = 0 /\ tail = 0
  /\ extended = FALSE /\ ifl = TRUE /\ locked = FALSE
  /\ wire = <<>> /\ held = {} /\ view = {} /\ missed = {}

\* Somebody presses or releases a key: its bytes are on the wire.
Type(p) ==
  /\ wire = <<>>
  /\ held' = IF p \in held THEN held \ {p} ELSE held \cup {p}
  /\ wire' = (IF p[1] THEN <<E0>> ELSE <<>>)
               \o <<IF p \in held THEN 128 + p[2] ELSE p[2]>>
  /\ UNCHANGED <<ring, extended, ifl, locked, view, missed>>

\* Mutant of Push: a full ring overwrites its oldest event.
PushOverwriting(ev) ==
  /\ buf' = [buf EXCEPT ![tail] = ev]
  /\ tail' = (tail + 1) % RingSize
  /\ head' = IF tail' = head THEN (head + 1) % RingSize ELSE head
  /\ UNCHANGED missed

\* KeyRing::push, with missed kept up beside it.
Push(ev) ==
  LET next == (tail + 1) % RingSize IN
  /\ IF next # head
       THEN buf' = [buf EXCEPT ![tail] = ev] /\ tail' = next /\ missed' = missed \ {ev.key}
       ELSE UNCHANGED <<buf, tail>> /\ missed' = missed \cup {ev.key}
  /\ UNCHANGED head

\* Mutant of FeedScancode: the prefix is never forgotten.
FeedScancodeSticky(sc) ==
  IF sc = E0
    THEN extended' = TRUE /\ UNCHANGED <<ring, missed>>
    ELSE LET dk == ScancodeToDoom(sc % 128, extended) IN
         /\ UNCHANGED extended
         /\ IF dk # 0 THEN Push([pressed |-> sc < 128, key |-> dk])
                      ELSE UNCHANGED <<ring, missed>>

FeedScancode(sc) ==
  IF sc = E0
    THEN extended' = TRUE /\ UNCHANGED <<ring, missed>>
    ELSE LET dk == ScancodeToDoom(sc % 128, extended) IN
         /\ extended' = FALSE
         /\ IF dk # 0 THEN Push([pressed |-> sc < 128, key |-> dk])
                      ELSE UNCHANGED <<ring, missed>>

\* The keyboard handler reads a byte and feeds it.  It spins for ever on a ring
\* that the thread it interrupted has locked.
KeyboardInterrupt ==
  /\ ifl /\ wire # <<>> /\ ~locked
  /\ FeedScancode(Head(wire))
  /\ wire' = Tail(wire)
  /\ UNCHANGED <<ifl, locked, held, view>>

\* DG_GetKey: without_interrupts, then the lock ...
LockRing ==
  /\ ~locked
  /\ ifl' = FALSE /\ locked' = TRUE
  /\ UNCHANGED <<ring, extended, wire, held, view, missed>>

\* ... and KeyRing::pop, the unlock, the flag restored and the event reported.
Pop ==
  /\ locked
  /\ IF head = tail
       THEN UNCHANGED <<head, view>>
       ELSE LET ev == buf[head] IN
            /\ head' = (head + 1) % RingSize
            /\ view' = IF ev.pressed THEN view \cup {ev.key} ELSE view \ {ev.key}
  /\ locked' = FALSE /\ ifl' = TRUE
  /\ UNCHANGED <<buf, tail, extended, wire, held, missed>>

RingNext == LockRing \/ Pop \/ KeyboardInterrupt \/ \E p \in Phys : Type(p)

RingSpec == RingInit /\ [][RingNext]_ringvars

-----------------------------------------------------------------------------
Queued == IF tail >= head THEN tail - head ELSE RingSize - head + tail
Contents == [i \in 1 .. Queued |-> buf[(head + i - 1) % RingSize]]

Queue == INSTANCE BoundedQueue WITH Cap <- RingSize - 1, q <- Contents

\* The ring is a first-in first-out queue of RingSize - 1 events that loses only
\* the newest: push never disturbs an event that is queued, and neither index
\* overtakes the other however often they wrap (ffi/mod.rs:42-54).
ImplementsQueue == Queue!Spec

\* The handler never meets a ring locked by the thread it interrupted, which
\* would stop the machine: the lock is held only with interrupts off
\* (ffi/mod.rs:132, 240).
HandlerNeverSpins == ifl => ~locked

\* How the key k will stand when Doom has taken every event out of the ring.
Final(k) ==
  LET I == {i \in 1 .. Queued : Contents[i].key = k}
  IN IF I = {} THEN k \in view
     ELSE Contents[CHOOSE i \in I : \A j \in I : j <= i].pressed

Alone(p) == \A r \in Phys \ {p} : DoomKey(r) # DoomKey(p)

\* With no byte on the wire, Doom will see a key down exactly while it is held,
\* whatever the order of presses, releases, prefixes and polls: only a key
\* whose latest event was dropped, or which shares its Doom key with another
\* (the left and right control keys), can appear stuck (ffi/mod.rs:118-136).
DoomSeesKeysHeld ==
  wire = <<>> => \A p \in Phys :
    DoomKey(p) # 0 /\ Alone(p) /\ DoomKey(p) \notin missed
      => (Final(DoomKey(p)) <=> p \in held)

\* Both, with the handler never in the way of the thread (ffi/mod.rs:118-136, 240).
KeysReachDoom == HandlerNeverSpins /\ DoomSeesKeysHeld
=============================================================================
