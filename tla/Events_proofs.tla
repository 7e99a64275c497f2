----------------------------- MODULE Events_proofs -----------------------------
(***************************************************************************)
(* Proofs about module Events, for any number of services and streams, any *)
(* size of the queues and any changes.                                     *)
(*                                                                         *)
(* A change moves from the outbox of its service to the channel, from the  *)
(* channel to a queue and from the queue to the browser.  The invariant    *)
(* compares the changes at two of these places: what is further on was     *)
(* recorded before what is behind it, if one service recorded both.        *)
(***************************************************************************)
EXTENDS Events, TLAPS

Changes == [doc : Doc, by : Writer]
Outboxes == [tx : SUBSET Nat, pending : Seq(Nat), now : Seq(Nat)]
Streams == [state : {"closed", "open", "ended"}, browser : {"reads", "stalls", "gone"},
            queue : Seq(Nat), got : Seq(Nat), missed : SUBSET Nat]

TypeOK ==
  /\ log \in Seq(Changes) /\ committed \subseteq Nat /\ deleted \subseteq Doc
  /\ out \in [Writer -> Outboxes] /\ channel \in Seq(Nat) /\ subs \in [Sub -> Streams]
  /\ mode \in {"redis", "memory"} /\ reader \in {"running", "dead", "stopped"}
  /\ stop \in {"no", "stopping", "closing", "done", "failed"}
  /\ table \subseteq Sub /\ rest \subseteq Sub /\ wait \subseteq Sub
  /\ lost \subseteq Nat /\ faults \in Nat

\* Where a change has been announced, c comes before d; l is the log.
Before(l, c, d) == c # d /\ (l[c].by = l[d].by => c < d)

\* Within a sequence, and between what two places hold; the end of a stream is no change.
Ordered(l, q)    == \A i, j \in 1..Len(q) : i < j /\ q[i] # End /\ q[j] # End => Before(l, q[i], q[j])
Precedes(l, A, B) == \A c \in A \ {End}, d \in B \ {End} : Before(l, c, d)

Waiting(w) == ToSet(out[w].now) \cup ToSet(out[w].pending)
Heard(s)   == ToSet(subs[s].got) \cup ToSet(subs[s].queue)

\* Every change is where its service and its transaction let it be.
Places ==
  /\ committed \subseteq 1..Len(log)
  /\ \A w \in Writer :
       /\ out[w].tx \subseteq 1..Len(log) /\ ToSet(out[w].pending) \subseteq out[w].tx
       /\ ToSet(out[w].now) \subseteq committed
       /\ \A c \in out[w].tx \cup ToSet(out[w].now) : log[c].by = w
       /\ out[w].tx # {} => out[w].now = <<>>
  /\ ToSet(channel) \subseteq committed
  /\ \A s \in Sub : Heard(s) \subseteq committed \cup {End}
  /\ mode = "memory" => channel = <<>>

\* The order between two places and within one.
Order ==
  /\ Ordered(log, channel)
  /\ \A w \in Writer :
       /\ Ordered(log, out[w].now) /\ Ordered(log, out[w].pending)
       /\ Precedes(log, ToSet(channel), Waiting(w))
  /\ \A s \in Sub :
       /\ Ordered(log, subs[s].got) /\ Ordered(log, subs[s].queue)
       /\ Precedes(log, ToSet(subs[s].got), ToSet(subs[s].queue))
       /\ Precedes(log, Heard(s), ToSet(channel))
       /\ \A w \in Writer : Precedes(log, Heard(s), Waiting(w))

IInv == TypeOK /\ Places /\ Order

-----------------------------------------------------------------------------
(* Sequences.                                                              *)

LEMMA NothingThere ==
  ToSet(<<>>) = {} /\ \A l : Ordered(l, <<>>)
<1>1. DOMAIN <<>> = {} /\ Len(<<>>) = 0
  OBVIOUS
<1>2. ToSet(<<>>) = {}
  BY <1>1 DEF ToSet
<1>3. \A l : Ordered(l, <<>>)
  BY <1>1 DEF Ordered
<1> QED BY <1>2, <1>3

LEMMA AppendSeq ==
  ASSUME NEW q \in Seq(Nat), NEW c \in Nat
  PROVE  /\ Append(q, c) \in Seq(Nat)
         /\ ToSet(Append(q, c)) = ToSet(q) \cup {c}
         /\ \A l : Ordered(l, q) /\ Precedes(l, ToSet(q), {c}) => Ordered(l, Append(q, c))
<1>1. /\ Append(q, c) \in Seq(Nat) /\ Len(Append(q, c)) = Len(q) + 1 /\ Len(q) \in Nat
      /\ Append(q, c)[Len(q) + 1] = c /\ \A i \in 1..Len(q) : Append(q, c)[i] = q[i]
  OBVIOUS
<1>2. DOMAIN q = 1..Len(q) /\ DOMAIN Append(q, c) = 1..(Len(q) + 1)
  OBVIOUS
<1>3. ToSet(Append(q, c)) = ToSet(q) \cup {c}
  BY <1>1, <1>2 DEF ToSet
<1>4. ASSUME NEW l, Ordered(l, q), Precedes(l, ToSet(q), {c}) PROVE Ordered(l, Append(q, c))
  <2> SUFFICES ASSUME NEW i \in 1..(Len(q) + 1), NEW j \in 1..(Len(q) + 1), i < j,
                      Append(q, c)[i] # End, Append(q, c)[j] # End
               PROVE  Before(l, Append(q, c)[i], Append(q, c)[j])
    BY <1>1 DEF Ordered
  <2>1. i \in 1..Len(q) /\ Append(q, c)[i] = q[i] /\ q[i] \in ToSet(q)
    BY <1>1, <1>2 DEF ToSet
  <2>2. CASE j \in 1..Len(q)
    BY <1>1, <1>4, <2>1, <2>2 DEF Ordered
  <2>3. CASE j = Len(q) + 1
    BY <1>1, <1>4, <2>1, <2>3 DEF Precedes
  <2> QED BY <1>1, <2>2, <2>3
<1> QED BY <1>1, <1>3, <1>4

LEMMA TailSeq ==
  ASSUME NEW q \in Seq(Nat), q # <<>>
  PROVE  /\ Tail(q) \in Seq(Nat) /\ Head(q) \in ToSet(q) /\ Head(q) \in Nat
         /\ ToSet(Tail(q)) \subseteq ToSet(q)
         /\ \A l : Ordered(l, q) => Ordered(l, Tail(q)) /\ Precedes(l, {Head(q)}, ToSet(Tail(q)))
<1>1. /\ Tail(q) \in Seq(Nat) /\ Len(q) \in Nat \ {0} /\ Len(Tail(q)) = Len(q) - 1
      /\ Head(q) = q[1] /\ \A i \in 1..(Len(q) - 1) : Tail(q)[i] = q[i + 1]
  OBVIOUS
<1>2. DOMAIN q = 1..Len(q) /\ DOMAIN Tail(q) = 1..(Len(q) - 1)
  BY <1>1
<1>3. 1 \in DOMAIN q /\ Head(q) \in ToSet(q) /\ Head(q) \in Nat
  BY <1>1, <1>2 DEF ToSet
<1>4. \A i \in 1..(Len(q) - 1) : i + 1 \in 1..Len(q)
  BY <1>1
<1>5. ToSet(Tail(q)) \subseteq ToSet(q)
  BY <1>1, <1>2, <1>4 DEF ToSet
<1>6. ASSUME NEW l, Ordered(l, q) PROVE Ordered(l, Tail(q))
  BY <1>1, <1>4, <1>6 DEF Ordered
<1>7. ASSUME NEW l, Ordered(l, q) PROVE Precedes(l, {Head(q)}, ToSet(Tail(q)))
  <2> SUFFICES ASSUME NEW i \in 1..(Len(q) - 1), Tail(q)[i] # End, Head(q) # End
               PROVE  Before(l, Head(q), Tail(q)[i])
    BY <1>2 DEF Precedes, ToSet
  <2>1. i + 1 \in 1..Len(q) /\ 1 \in 1..Len(q) /\ 1 < i + 1
    BY <1>1
  <2> QED BY <1>1, <1>7, <2>1 DEF Ordered
<1> QED BY <1>1, <1>3, <1>5, <1>6, <1>7

\* What was ordered stays so when the log grows.
LEMMA LogGrows ==
  ASSUME NEW l, NEW m, NEW n \in Nat, \A c \in 1..n : m[c] = l[c]
  PROVE  /\ \A q \in Seq(Nat) : ToSet(q) \subseteq 1..n \cup {End} /\ Ordered(l, q) => Ordered(m, q)
         /\ \A A, B \in SUBSET (1..n \cup {End}) : Precedes(l, A, B) => Precedes(m, A, B)
<1>1. \A c, d \in 1..n : Before(l, c, d) <=> Before(m, c, d)
  BY DEF Before
<1>2. ASSUME NEW q \in Seq(Nat), ToSet(q) \subseteq 1..n \cup {End}, Ordered(l, q) PROVE Ordered(m, q)
  <2>1. \A i \in 1..Len(q) : q[i] \in ToSet(q)
    BY DEF ToSet
  <2> QED BY <1>1, <1>2, <2>1 DEF Ordered, End
<1>3. ASSUME NEW A \in SUBSET (1..n \cup {End}), NEW B \in SUBSET (1..n \cup {End}), Precedes(l, A, B)
      PROVE  Precedes(m, A, B)
  BY <1>1, <1>3 DEF Precedes
<1> QED BY <1>2, <1>3

LEMMA Fields ==
  ASSUME TypeOK
  PROVE  /\ \A w \in Writer : out[w].tx \subseteq Nat /\ out[w].pending \in Seq(Nat) /\ out[w].now \in Seq(Nat)
         /\ \A s \in Sub : subs[s].queue \in Seq(Nat) /\ subs[s].got \in Seq(Nat)
         /\ Len(log) \in Nat /\ DOMAIN log = 1..Len(log)
BY DEF TypeOK, Outboxes, Streams

-----------------------------------------------------------------------------
(* Steps of the streams and of the shutdown.                               *)

\* The end of a stream may be put into a queue, and the channel may be given up.
LEMMA StreamSteps ==
  ASSUME IInv, TypeOK', UNCHANGED <<log, committed, out, mode>>, channel' \in {channel, <<>>},
         \A s \in Sub : /\ subs'[s].got = subs[s].got
                        /\ subs'[s].queue \in {subs[s].queue, Append(subs[s].queue, End)}
  PROVE  IInv'
<1>1. ASSUME NEW s \in Sub
      PROVE  /\ ToSet(subs'[s].queue) \cup {End} = ToSet(subs[s].queue) \cup {End}
             /\ ToSet(subs'[s].queue) \ {End} = ToSet(subs[s].queue) \ {End}
             /\ Ordered(log, subs'[s].queue)
  <2>1. /\ subs[s].queue \in Seq(Nat) /\ End \in Nat /\ Ordered(log, subs[s].queue)
        /\ Precedes(log, ToSet(subs[s].queue), {End})
    BY Fields DEF IInv, Order, End, Precedes
  <2> QED BY <2>1, AppendSeq
<1>2. \A s \in Sub : Heard(s)' \subseteq Heard(s) \cup {End} /\ Heard(s)' \ {End} = Heard(s) \ {End}
  BY <1>1 DEF Heard
<1>3. ToSet(channel') \subseteq ToSet(channel) /\ Ordered(log, channel')
  <2>1. CASE channel' = channel
    BY <2>1 DEF IInv, Order
  <2>2. CASE channel' = <<>>
    BY <2>2, NothingThere
  <2> QED BY <2>1, <2>2
<1>4. Places'
  BY <1>2, <1>3 DEF IInv, Places
<1>5. Order'
  <2>1. \A w \in Writer : Waiting(w)' = Waiting(w)
    BY DEF Waiting
  <2>2. \A w \in Writer : Precedes(log, ToSet(channel'), Waiting(w))
    BY <1>3 DEF IInv, Order, Precedes
  <2>3. ASSUME NEW s \in Sub
        PROVE  /\ Precedes(log, ToSet(subs'[s].got), ToSet(subs'[s].queue))
               /\ Precedes(log, Heard(s)', ToSet(channel'))
               /\ \A w \in Writer : Precedes(log, Heard(s)', Waiting(w))
    BY <1>1, <1>2, <1>3 DEF IInv, Order, Precedes
  <2> QED BY <1>1, <1>3, <2>1, <2>2, <2>3 DEF IInv, Order
<1> QED BY <1>4, <1>5 DEF IInv

\* The browser takes the first of its queue.
LEMMA DeliverKeeps == ASSUME IInv, NEW s \in Sub, Deliver(s) PROVE IInv'
<1> DEFINE c == Head(subs[s].queue)
           drop == c = End \/ subs[s].browser = "gone"
           got == IF drop THEN subs[s].got ELSE Append(subs[s].got, c)
<1>1. /\ subs[s].queue \in Seq(Nat) /\ subs[s].got \in Seq(Nat) /\ subs[s].queue # <<>>
      /\ UNCHANGED <<log, committed, out, deleted, mode, reader, channel, stopping, lost, faults>>
  BY Fields DEF Deliver, IInv
<1>2. /\ Tail(subs[s].queue) \in Seq(Nat) /\ c \in ToSet(subs[s].queue) /\ c \in Nat
      /\ ToSet(Tail(subs[s].queue)) \subseteq ToSet(subs[s].queue)
      /\ Ordered(log, Tail(subs[s].queue)) /\ Precedes(log, {c}, ToSet(Tail(subs[s].queue)))
  BY <1>1, TailSeq DEF IInv, Order
<1>3. /\ got \in Seq(Nat) /\ ToSet(got) \subseteq ToSet(subs[s].got) \cup {c}
      /\ Ordered(log, got)
  <2>1. Ordered(log, subs[s].got) /\ Precedes(log, ToSet(subs[s].got), {c})
    BY <1>2 DEF IInv, Order, Precedes
  <2> QED BY <1>1, <1>2, <2>1, AppendSeq
<1>4. subs' = [subs EXCEPT ![s].queue = Tail(@), ![s].got = got,
                           ![s].state = IF drop THEN "ended" ELSE "open"]
  BY DEF Deliver
<1> HIDE DEF got, c, drop
<1>5. /\ subs' \in [Sub -> Streams] /\ subs'[s].queue = Tail(subs[s].queue) /\ subs'[s].got = got
      /\ \A r \in Sub \ {s} : subs'[r] = subs[r]
  <2>1. \A q \in Seq(Nat), g \in Seq(Nat), t \in {"ended", "open"} :
          [subs[s] EXCEPT !.queue = q, !.got = g, !.state = t] \in Streams
    BY DEF IInv, TypeOK, Streams
  <2> DEFINE r == [subs[s] EXCEPT !.queue = Tail(subs[s].queue), !.got = got,
                                  !.state = IF drop THEN "ended" ELSE "open"]
  <2>2. r \in Streams
    BY <1>2, <1>3, <2>1
  <2>3. r.queue = Tail(subs[s].queue) /\ r.got = got
    BY DEF IInv, TypeOK, Streams
  <2>4. subs' = [subs EXCEPT ![s] = r]
    BY <1>4 DEF IInv, TypeOK
  <2> HIDE DEF r
  <2> QED BY <2>2, <2>3, <2>4 DEF IInv, TypeOK
<1>6. TypeOK'
  BY <1>1, <1>5 DEF IInv, TypeOK, stopping
<1>7. Heard(s)' \subseteq Heard(s) /\ \A r \in Sub \ {s} : Heard(r)' = Heard(r)
  BY <1>2, <1>3, <1>5 DEF Heard
<1>8. Places'
  BY <1>1, <1>7 DEF IInv, Places
<1>9. Order'
  <2>1. \A w \in Writer : Waiting(w)' = Waiting(w)
    BY <1>1 DEF Waiting
  <2>2. Precedes(log, ToSet(subs'[s].got), ToSet(subs'[s].queue))
    BY <1>2, <1>3, <1>5 DEF IInv, Order, Precedes
  <2>3. ASSUME NEW r \in Sub
        PROVE  /\ Precedes(log, Heard(r)', ToSet(channel))
               /\ \A w \in Writer : Precedes(log, Heard(r)', Waiting(w))
    BY <1>7 DEF IInv, Order, Precedes
  <2> QED BY <1>1, <1>2, <1>3, <1>5, <2>1, <2>2, <2>3 DEF IInv, Order
<1> QED BY <1>6, <1>8, <1>9 DEF IInv

-----------------------------------------------------------------------------
(* Steps of the outboxes.                                                  *)

\* A place is left alone, loses its first change, or is given up.
Shrunk(q, r) == r = q \/ r = <<>> \/ (q # <<>> /\ r = Tail(q))

LEMMA ShrunkSeq ==
  ASSUME NEW q \in Seq(Nat), NEW r, Shrunk(q, r)
  PROVE  /\ r \in Seq(Nat) /\ ToSet(r) \subseteq ToSet(q)
         /\ q = <<>> => r = <<>>
         /\ \A l : Ordered(l, q) => Ordered(l, r)
<1>1. CASE r = q
  BY <1>1
<1>2. CASE r = <<>>
  <2>1. ToSet(r) = {} /\ \A l : Ordered(l, r)
    BY <1>2, NothingThere
  <2> QED BY <1>2, <2>1
<1>3. CASE q # <<>> /\ r = Tail(q)
  BY <1>3, TailSeq
<1> QED BY <1>1, <1>2, <1>3 DEF Shrunk

\* What a service gives up, in an outbox, disturbs nothing.
LEMMA OutboxShrinks ==
  ASSUME IInv, UNCHANGED <<log, committed, channel, subs, mode>>, TypeOK',
         \A w \in Writer :
           /\ Shrunk(out[w].now, out'[w].now) /\ Shrunk(out[w].pending, out'[w].pending)
           /\ out'[w].tx \subseteq out[w].tx /\ ToSet(out'[w].pending) \subseteq out'[w].tx
  PROVE  IInv'
<1>1. ASSUME NEW w \in Writer
      PROVE  /\ ToSet(out'[w].now) \subseteq ToSet(out[w].now) /\ ToSet(out'[w].pending) \subseteq ToSet(out[w].pending)
             /\ out[w].now = <<>> => out'[w].now = <<>>
             /\ Ordered(log, out'[w].now) /\ Ordered(log, out'[w].pending)
  BY Fields, ShrunkSeq DEF IInv, Order
<1>2. \A s \in Sub : Heard(s)' = Heard(s)
  BY DEF Heard
<1>3. \A w \in Writer : Waiting(w)' \subseteq Waiting(w)
  BY <1>1 DEF Waiting
<1>4. Places'
  BY <1>1, <1>2 DEF IInv, Places
<1>5. Order'
  BY <1>1, <1>2, <1>3 DEF IInv, Order, Precedes
<1> QED BY <1>4, <1>5 DEF IInv

\* The first change a service is publishing: where it goes, the others are behind it.
LEMMA FirstOfOutbox ==
  ASSUME IInv, NEW w \in Writer, out[w].now # <<>>, out' = [out EXCEPT ![w].now = Tail(@)]
  PROVE  LET c == Head(out[w].now) IN
         /\ out' \in [Writer -> Outboxes] /\ c \in committed /\ c \in 1..Len(log) /\ c # End
         /\ \A v \in Writer : /\ Shrunk(out[v].now, out'[v].now) /\ out'[v].pending = out[v].pending
                              /\ out'[v].tx = out[v].tx /\ Precedes(log, {c}, Waiting(v)')
         /\ Precedes(log, ToSet(channel), {c}) /\ \A s \in Sub : Precedes(log, Heard(s), {c})
<1> DEFINE c == Head(out[w].now)
<1>1. /\ out[w].now \in Seq(Nat) /\ c \in ToSet(out[w].now) /\ Tail(out[w].now) \in Seq(Nat)
      /\ ToSet(Tail(out[w].now)) \subseteq ToSet(out[w].now)
      /\ Precedes(log, {c}, ToSet(Tail(out[w].now)))
  BY Fields, TailSeq DEF IInv, Order
<1>2. c \in committed /\ c \in 1..Len(log) /\ c # End /\ log[c].by = w /\ c \in Waiting(w)
  BY <1>1, Fields DEF IInv, Places, End, Waiting
<1>3. /\ out' \in [Writer -> Outboxes] /\ out'[w].now = Tail(out[w].now)
      /\ out'[w].pending = out[w].pending /\ out'[w].tx = out[w].tx
      /\ \A v \in Writer \ {w} : out'[v] = out[v]
  <2>1. \A q \in Seq(Nat) : [out[w] EXCEPT !.now = q] \in Outboxes
    BY DEF IInv, TypeOK, Outboxes
  <2>2. out' = [out EXCEPT ![w] = [out[w] EXCEPT !.now = Tail(out[w].now)]]
    BY DEF IInv, TypeOK
  <2> QED BY <1>1, <2>1, <2>2 DEF IInv, TypeOK, Outboxes
<1>4. out[w].tx = {} /\ ToSet(out[w].pending) = {}
  BY DEF IInv, Places
<1> HIDE DEF c
<1>5. ASSUME NEW v \in Writer \ {w} PROVE Precedes(log, {c}, Waiting(v)')
  <2>1. \A d \in Waiting(v) : log[d].by = v
    BY DEF IInv, Places, Waiting
  <2>2. Waiting(v)' = Waiting(v)
    BY <1>3 DEF Waiting
  <2> QED BY <1>2, <2>1, <2>2 DEF Precedes, Before
<1>6. Precedes(log, {c}, Waiting(w)')
  BY <1>1, <1>3, <1>4 DEF Waiting
<1>7. \A v \in Writer : Shrunk(out[v].now, out'[v].now) /\ out'[v].pending = out[v].pending /\ out'[v].tx = out[v].tx
  BY <1>3 DEF Shrunk
<1>8. Precedes(log, ToSet(channel), {c}) /\ \A s \in Sub : Precedes(log, Heard(s), {c})
  BY <1>2 DEF IInv, Order, Precedes
<1> QED BY <1>2, <1>3, <1>5, <1>6, <1>7, <1>8 DEF c

\* A change goes to the streams that want it and have room.
LEMMA FanOutKeeps ==
  ASSUME IInv, NEW c \in 1..Len(log), c # End, subs' = FanOut(c),
         \A s \in Sub : Precedes(log, Heard(s), {c})
  PROVE  /\ subs' \in [Sub -> Streams]
         /\ \A s \in Sub : /\ Heard(s)' \subseteq Heard(s) \cup {c}
                           /\ subs'[s].got = subs[s].got /\ Ordered(log, subs'[s].queue)
                           /\ Precedes(log, ToSet(subs[s].got), ToSet(subs'[s].queue))
<1>1. ASSUME NEW s \in Sub
      PROVE  /\ subs'[s] \in Streams /\ subs'[s].got = subs[s].got
             /\ subs'[s].queue \in {subs[s].queue, Append(subs[s].queue, c)}
  <2>1. subs[s] \in Streams /\ c \in Nat
    BY Fields DEF IInv, TypeOK
  <2>2. /\ [subs[s] EXCEPT !.queue = Append(subs[s].queue, c)] \in Streams
        /\ [subs[s] EXCEPT !.missed = subs[s].missed \cup {c}] \in Streams
    <3>1. \A q \in Seq(Nat) : [subs[s] EXCEPT !.queue = q] \in Streams
      BY <2>1 DEF Streams
    <3>2. \A m \in SUBSET Nat : [subs[s] EXCEPT !.missed = m] \in Streams
      BY <2>1 DEF Streams
    <3>3. Append(subs[s].queue, c) \in Seq(Nat) /\ subs[s].missed \cup {c} \in SUBSET Nat
      BY <2>1 DEF Streams
    <3> QED BY <3>1, <3>2, <3>3
  <2>3. subs'[s] \in {subs[s], [subs[s] EXCEPT !.queue = Append(subs[s].queue, c)],
                      [subs[s] EXCEPT !.missed = subs[s].missed \cup {c}]}
    BY DEF FanOut
  <2> QED BY <2>1, <2>2, <2>3 DEF Streams
<1>2. subs' \in [Sub -> Streams]
  BY <1>1 DEF FanOut
<1>3. ASSUME NEW s \in Sub
      PROVE  /\ ToSet(subs'[s].queue) \subseteq ToSet(subs[s].queue) \cup {c}
             /\ Ordered(log, subs'[s].queue)
  <2>1. /\ subs[s].queue \in Seq(Nat) /\ c \in Nat /\ Ordered(log, subs[s].queue)
        /\ Precedes(log, ToSet(subs[s].queue), {c})
    BY Fields DEF IInv, Order, Heard, Precedes
  <2> QED BY <1>1, <2>1, AppendSeq
<1>4. ASSUME NEW s \in Sub PROVE Precedes(log, ToSet(subs[s].got), ToSet(subs'[s].queue))
  BY <1>3 DEF IInv, Order, Heard, Precedes
<1> QED BY <1>1, <1>2, <1>3, <1>4 DEF Heard

LEMMA ReadKeeps == ASSUME IInv, Read PROVE IInv'
<1> DEFINE c == Head(channel)
<1>1. /\ channel \in Seq(Nat) /\ channel # <<>> /\ channel' = Tail(channel) /\ subs' = FanOut(c)
      /\ UNCHANGED <<log, committed, out, deleted, mode, reader, stopping, lost, faults>>
  BY DEF Read, IInv, TypeOK
<1>2. /\ channel' \in Seq(Nat) /\ c \in ToSet(channel) /\ ToSet(channel') \subseteq ToSet(channel)
      /\ Ordered(log, channel') /\ Precedes(log, {c}, ToSet(channel'))
  BY <1>1, TailSeq DEF IInv, Order
<1>3. c \in committed /\ c \in 1..Len(log) /\ c # End
  <2>1. c \in committed /\ c \in 1..Len(log)
    BY <1>2 DEF IInv, Places
  <2> QED BY <2>1 DEF End
<1> HIDE DEF c
<1>4. \A s \in Sub : Precedes(log, Heard(s), {c})
  BY <1>2 DEF IInv, Order, Precedes
<1>5. /\ subs' \in [Sub -> Streams]
      /\ \A s \in Sub : /\ Heard(s)' \subseteq Heard(s) \cup {c}
                        /\ subs'[s].got = subs[s].got /\ Ordered(log, subs'[s].queue)
                        /\ Precedes(log, ToSet(subs[s].got), ToSet(subs'[s].queue))
  BY <1>1, <1>3, <1>4, FanOutKeeps
<1>6. \A w \in Writer : Waiting(w)' = Waiting(w) /\ Precedes(log, {c}, Waiting(w))
  BY <1>1, <1>2 DEF Waiting, IInv, Order, Precedes
<1>7. TypeOK'
  BY <1>1, <1>2, <1>5 DEF IInv, TypeOK, stopping
<1>8. Places'
  BY <1>1, <1>2, <1>3, <1>5 DEF IInv, Places
<1>9. Order'
  <2>1. \A w \in Writer : Precedes(log, ToSet(channel'), Waiting(w))
    BY <1>2 DEF IInv, Order, Precedes
  <2>2. \A s \in Sub : Precedes(log, Heard(s)', ToSet(channel'))
    BY <1>2, <1>5 DEF IInv, Order, Precedes
  <2>3. \A s \in Sub, w \in Writer : Precedes(log, Heard(s)', Waiting(w))
    BY <1>5, <1>6 DEF IInv, Order, Precedes
  <2> QED BY <1>1, <1>2, <1>5, <1>6, <2>1, <2>2, <2>3 DEF IInv, Order
<1> QED BY <1>7, <1>8, <1>9 DEF IInv

\* A change goes to the channel, or is handed out by the process that publishes it.
LEMMA PublishKeeps == ASSUME IInv, NEW w \in Writer, Publish(w) PROVE IInv'
<1> DEFINE c == Head(out[w].now)
<1>1. /\ out[w].now # <<>> /\ out' = [out EXCEPT ![w].now = Tail(@)]
      /\ UNCHANGED <<log, committed, deleted, mode, reader, stopping>>
  BY DEF Publish
<1>2. /\ out' \in [Writer -> Outboxes] /\ c \in committed /\ c \in 1..Len(log) /\ c # End
      /\ \A v \in Writer : /\ Shrunk(out[v].now, out'[v].now) /\ out'[v].pending = out[v].pending
                           /\ out'[v].tx = out[v].tx /\ Precedes(log, {c}, Waiting(v)')
      /\ Precedes(log, ToSet(channel), {c}) /\ \A s \in Sub : Precedes(log, Heard(s), {c})
  BY <1>1, FirstOfOutbox
<1>3. \/ channel' = Append(channel, c) /\ UNCHANGED <<subs, lost, faults>> /\ mode = "redis"
      \/ subs' = FanOut(c) /\ UNCHANGED <<channel, lost, faults>> /\ mode = "memory"
      \/ lost' = lost \cup {c} /\ faults' \in {faults, faults + 1} /\ UNCHANGED <<channel, subs>>
  BY DEF Publish, Fault
<1> HIDE DEF c
<1>4. c \in Nat /\ channel \in Seq(Nat) /\ ToSet(channel) \subseteq committed
  BY <1>2, Fields DEF IInv, TypeOK, Places
<1>5. ASSUME NEW v \in Writer
      PROVE  /\ ToSet(out'[v].now) \subseteq ToSet(out[v].now) /\ Waiting(v)' \subseteq Waiting(v)
             /\ out[v].now = <<>> => out'[v].now = <<>>
             /\ Ordered(log, out'[v].now) /\ Ordered(log, out'[v].pending)
  <2>1. /\ out[v].now \in Seq(Nat) /\ Ordered(log, out[v].now) /\ Ordered(log, out[v].pending)
    BY Fields DEF IInv, Order
  <2> QED BY <1>2, <2>1, ShrunkSeq DEF Waiting
<1>6. /\ committed' \subseteq 1..Len(log')
      /\ \A v \in Writer :
           /\ out'[v].tx \subseteq 1..Len(log') /\ ToSet(out'[v].pending) \subseteq out'[v].tx
           /\ ToSet(out'[v].now) \subseteq committed'
           /\ \A d \in out'[v].tx \cup ToSet(out'[v].now) : log'[d].by = v
           /\ out'[v].tx # {} => out'[v].now = <<>>
  <2>1. committed' = committed /\ log' = log
    BY <1>1
  <2>2. committed \subseteq 1..Len(log)
    BY DEF IInv, Places
  <2>3. ASSUME NEW v \in Writer
        PROVE  /\ out'[v].tx \subseteq 1..Len(log) /\ ToSet(out'[v].pending) \subseteq out'[v].tx
               /\ ToSet(out'[v].now) \subseteq committed
               /\ \A d \in out'[v].tx \cup ToSet(out'[v].now) : log[d].by = v
               /\ out'[v].tx # {} => out'[v].now = <<>>
    BY <1>2, <1>5 DEF IInv, Places
  <2> QED BY <2>1, <2>2, <2>3
<1>7. CASE channel' = Append(channel, c) /\ UNCHANGED <<subs, lost, faults>> /\ mode = "redis"
  <2>1. /\ channel' \in Seq(Nat) /\ ToSet(channel') = ToSet(channel) \cup {c}
        /\ Ordered(log, channel')
    BY <1>2, <1>4, <1>7, AppendSeq DEF IInv, Order
  <2>2. \A s \in Sub : Heard(s)' = Heard(s)
    BY <1>7 DEF Heard
  <2>3. TypeOK'
    BY <1>1, <1>2, <1>7, <2>1 DEF IInv, TypeOK, stopping
  <2>4. Places'
    BY <1>1, <1>2, <1>7, <1>6, <2>1, <2>2 DEF IInv, Places
  <2>5. \A v \in Writer : Precedes(log, ToSet(channel'), Waiting(v)')
    BY <1>2, <1>5, <2>1 DEF IInv, Order, Precedes
  <2>6. \A s \in Sub : /\ Precedes(log, Heard(s), ToSet(channel'))
                       /\ \A v \in Writer : Precedes(log, Heard(s), Waiting(v)')
    BY <1>2, <1>5, <2>1 DEF IInv, Order, Precedes
  <2>7. Order'
    BY <1>1, <1>5, <1>7, <2>1, <2>2, <2>5, <2>6 DEF IInv, Order
  <2> QED BY <2>3, <2>4, <2>7 DEF IInv
<1>8. CASE subs' = FanOut(c) /\ UNCHANGED <<channel, lost, faults>> /\ mode = "memory"
  <2>1. /\ subs' \in [Sub -> Streams]
        /\ \A s \in Sub : /\ Heard(s)' \subseteq Heard(s) \cup {c}
                          /\ subs'[s].got = subs[s].got /\ Ordered(log, subs'[s].queue)
                          /\ Precedes(log, ToSet(subs[s].got), ToSet(subs'[s].queue))
    BY <1>2, <1>8, FanOutKeeps
  <2>2. ToSet(channel) = {}
    BY <1>8, NothingThere DEF IInv, Places
  <2>3. TypeOK'
    BY <1>1, <1>2, <1>8, <2>1 DEF IInv, TypeOK, stopping
  <2>4. Places'
    BY <1>1, <1>2, <1>8, <1>6, <2>1 DEF IInv, Places
  <2>5. \A s \in Sub, v \in Writer : Precedes(log, Heard(s)', Waiting(v)')
    BY <1>2, <1>5, <2>1 DEF IInv, Order, Precedes
  <2>6. /\ \A v \in Writer : Precedes(log, ToSet(channel), Waiting(v)')
        /\ \A s \in Sub : Precedes(log, Heard(s)', ToSet(channel))
    BY <2>2 DEF Precedes
  <2>7. Order'
    BY <1>1, <1>5, <1>8, <2>1, <2>5, <2>6 DEF IInv, Order
  <2> QED BY <2>3, <2>4, <2>7 DEF IInv
<1>9. CASE lost' = lost \cup {c} /\ faults' \in {faults, faults + 1} /\ UNCHANGED <<channel, subs>>
  <2>1. TypeOK'
    BY <1>1, <1>2, <1>4, <1>9 DEF IInv, TypeOK, stopping
  <2>2. \A v \in Writer : Shrunk(out[v].pending, out'[v].pending) /\ ToSet(out'[v].pending) \subseteq out'[v].tx
    BY <1>2 DEF IInv, Places, Shrunk
  <2> QED BY <1>1, <1>2, <1>9, <2>1, <2>2, OutboxShrinks
<1> QED BY <1>3, <1>7, <1>8, <1>9

\* A change is recorded: it comes after everything that was recorded before.
LEMMA RecordKeeps == ASSUME IInv, NEW w \in Writer, Record(w) PROVE IInv'
<1> DEFINE n == Len(log) + 1
<1>1. /\ log \in Seq(Changes) /\ Len(log) \in Nat /\ out[w].now = <<>>
      /\ UNCHANGED <<committed, deleted, mode, reader, channel, subs, stopping, lost, faults>>
  BY Fields DEF Record, IInv, TypeOK
<1>2. PICK d \in Doc : log' = Append(log, [doc |-> d, by |-> w])
  BY DEF Record
<1>3. /\ log' \in Seq(Changes) /\ Len(log') = n /\ log'[n].by = w
      /\ \A c \in 1..Len(log) : log'[c] = log[c]
  <2>1. [doc |-> d, by |-> w] \in Changes
    BY DEF Changes
  <2> QED BY <1>1, <1>2, <2>1
<1>4. n \in Nat /\ n # End /\ \A c \in 1..Len(log) : c \in 1..n /\ c < n
  BY <1>1 DEF End
<1>5. /\ out' \in [Writer -> Outboxes] /\ out'[w].tx = out[w].tx \cup {n}
      /\ out'[w].pending = Append(out[w].pending, n) /\ out'[w].now = out[w].now
      /\ \A v \in Writer \ {w} : out'[v] = out[v]
  <2>1. \A t \in SUBSET Nat, q \in Seq(Nat) : [out[w] EXCEPT !.tx = t, !.pending = q] \in Outboxes
    BY DEF IInv, TypeOK, Outboxes
  <2>2. out' = [out EXCEPT ![w] = [out[w] EXCEPT !.tx = out[w].tx \cup {n}, !.pending = Append(out[w].pending, n)]]
    BY DEF Record, IInv, TypeOK
  <2>3. out[w].tx \cup {n} \in SUBSET Nat /\ Append(out[w].pending, n) \in Seq(Nat)
    BY <1>4, Fields, AppendSeq DEF IInv
  <2> QED BY <2>1, <2>2, <2>3 DEF IInv, TypeOK, Outboxes
<1> DEFINE Old == 1..Len(log) \cup {End}
<1>6. /\ ToSet(channel) \subseteq Old /\ \A s \in Sub : Heard(s) \subseteq Old
      /\ \A v \in Writer : out[v].tx \subseteq Old /\ Waiting(v) \subseteq Old
  BY DEF IInv, Places, Waiting
<1>7. /\ \A q \in Seq(Nat) : ToSet(q) \subseteq Old /\ Ordered(log, q) => Ordered(log', q)
      /\ \A A, B \in SUBSET Old : Precedes(log, A, B) => Precedes(log', A, B)
  BY <1>1, <1>3, LogGrows
<1>8. \A A \in SUBSET Old : Precedes(log', A, {n})
  BY <1>4 DEF Precedes, Before
<1>9. ToSet(out'[w].pending) = ToSet(out[w].pending) \cup {n} /\ ToSet(out[w].pending) \subseteq Old
  BY <1>4, <1>5, <1>6, Fields, AppendSeq DEF IInv, Waiting
<1>10. Waiting(w)' = Waiting(w) \cup {n} /\ \A v \in Writer \ {w} : Waiting(v)' = Waiting(v)
  BY <1>5, <1>9 DEF Waiting
<1>11. Ordered(log', out'[w].pending)
  <2>1. Ordered(log', out[w].pending) /\ Precedes(log', ToSet(out[w].pending), {n})
    BY <1>7, <1>8, <1>9, Fields DEF IInv, Order
  <2>2. out[w].pending \in Seq(Nat)
    BY Fields DEF IInv
  <2> HIDE DEF n
  <2>3. Ordered(log', Append(out[w].pending, n))
    BY <1>4, <2>1, <2>2, AppendSeq
  <2> QED BY <1>5, <2>3
<1> HIDE DEF n, Old
<1>12. TypeOK'
  BY <1>1, <1>3, <1>5 DEF IInv, TypeOK, stopping
<1>13. Places'
  <2>1. 1..Len(log) \subseteq 1..n /\ n \in 1..n
    BY <1>1, <1>4 DEF n
  <2>2. ASSUME NEW v \in Writer
        PROVE  /\ out'[v].tx \subseteq 1..n /\ ToSet(out'[v].pending) \subseteq out'[v].tx
               /\ ToSet(out'[v].now) \subseteq committed
               /\ out'[v].tx # {} => out'[v].now = <<>>
    <3>1. CASE v = w
      BY <1>1, <1>5, <1>9, <2>1, <3>1 DEF IInv, Places
    <3>2. CASE v # w
      BY <1>5, <2>1, <3>2 DEF IInv, Places
    <3> QED BY <3>1, <3>2
  <2>3. ASSUME NEW v \in Writer, NEW c \in out'[v].tx \cup ToSet(out'[v].now) PROVE log'[c].by = v
    <3>1. (c = n /\ v = w) \/ c \in out[v].tx \cup ToSet(out[v].now)
      BY <1>5, <2>3
    <3>2. c \in out[v].tx \cup ToSet(out[v].now) => c \in 1..Len(log) /\ log[c].by = v
      BY DEF IInv, Places
    <3> QED BY <1>3, <3>1, <3>2
  <2> QED BY <1>1, <1>3, <2>1, <2>2, <2>3 DEF IInv, Places, Heard
<1>14. Order'
  <2>1. Ordered(log', channel) /\ \A v \in Writer : Ordered(log', out'[v].now) /\ Ordered(log', out'[v].pending)
    <3>1. Ordered(log', channel)
      BY <1>6, <1>7 DEF IInv, Order, TypeOK
    <3>2. \A v \in Writer : Ordered(log', out[v].now) /\ Ordered(log', out[v].pending)
      BY <1>6, <1>7, Fields DEF IInv, Order, Waiting
    <3> QED BY <1>5, <1>11, <3>1, <3>2
  <2>2. ASSUME NEW A \in SUBSET Old, \A v \in Writer : Precedes(log, A, Waiting(v))
        PROVE  \A v \in Writer : Precedes(log', A, Waiting(v)')
    <3>1. \A v \in Writer : Precedes(log', A, Waiting(v))
      BY <1>6, <1>7, <2>2
    <3>2. Precedes(log', A, {n})
      BY <1>8
    <3> QED BY <1>10, <3>1, <3>2 DEF Precedes
  <2>3. \A v \in Writer : Precedes(log', ToSet(channel), Waiting(v)')
    BY <1>6, <2>2 DEF IInv, Order
  <2>4. ASSUME NEW s \in Sub
        PROVE  /\ Ordered(log', subs[s].got) /\ Ordered(log', subs[s].queue)
               /\ Precedes(log', ToSet(subs[s].got), ToSet(subs[s].queue))
               /\ Precedes(log', Heard(s), ToSet(channel))
               /\ \A v \in Writer : Precedes(log', Heard(s), Waiting(v)')
    <3>1. ToSet(subs[s].got) \subseteq Old /\ ToSet(subs[s].queue) \subseteq Old /\ Heard(s) \subseteq Old
      BY <1>6 DEF Heard
    <3>2. Ordered(log', subs[s].got) /\ Ordered(log', subs[s].queue)
      BY <1>7, <3>1, Fields DEF IInv, Order
    <3>3. Precedes(log', ToSet(subs[s].got), ToSet(subs[s].queue)) /\ Precedes(log', Heard(s), ToSet(channel))
      BY <1>6, <1>7, <3>1 DEF IInv, Order
    <3> QED BY <2>2, <3>1, <3>2, <3>3 DEF IInv, Order
  <2> QED BY <1>1, <2>1, <2>3, <2>4 DEF Order, Heard
<1> QED BY <1>12, <1>13, <1>14 DEF IInv

\* A commit: what was recorded in the transaction may be announced.
LEMMA CommitKeeps == ASSUME IInv, NEW w \in Writer, Commit(w) PROVE IInv'
<1>1. /\ out[w].tx # {} /\ committed' = committed \cup out[w].tx
      /\ out' = [out EXCEPT ![w] = [tx |-> {}, pending |-> <<>>, now |-> out[w].pending]]
      /\ UNCHANGED <<log, deleted, mode, reader, channel, subs, stopping, lost, faults>>
  BY DEF Commit, IInv, TypeOK
<1>2. /\ out' \in [Writer -> Outboxes] /\ out'[w].tx = {} /\ out'[w].pending = <<>>
      /\ out'[w].now = out[w].pending /\ \A v \in Writer \ {w} : out'[v] = out[v]
  <2>1. [tx |-> {}, pending |-> <<>>, now |-> out[w].pending] \in Outboxes
    BY Fields DEF IInv, Outboxes
  <2> QED BY <1>1, <2>1 DEF IInv, TypeOK
<1>3. ToSet(out'[w].pending) = {} /\ \A l : Ordered(l, out'[w].pending)
  BY <1>2, NothingThere
<1>4. \A s \in Sub : Heard(s)' = Heard(s)
  BY <1>1 DEF Heard
<1>5. TypeOK'
  BY <1>1, <1>2, Fields DEF IInv, TypeOK, stopping
<1>6. Places'
  <2>1. committed' \subseteq 1..Len(log) /\ committed \subseteq committed'
    BY <1>1 DEF IInv, Places
  <2>2. ASSUME NEW v \in Writer
        PROVE  /\ out'[v].tx \subseteq 1..Len(log) /\ ToSet(out'[v].pending) \subseteq out'[v].tx
               /\ ToSet(out'[v].now) \subseteq committed'
               /\ \A c \in out'[v].tx \cup ToSet(out'[v].now) : log[c].by = v
               /\ out'[v].tx # {} => out'[v].now = <<>>
    <3>1. CASE v = w
      BY <1>1, <1>2, <1>3, <3>1 DEF IInv, Places
    <3>2. CASE v # w
      BY <1>2, <2>1, <3>2 DEF IInv, Places
    <3> QED BY <3>1, <3>2
  <2> QED BY <1>1, <1>4, <2>1, <2>2 DEF IInv, Places
<1>7. Order'
  <2>1. \A v \in Writer : Waiting(v)' \subseteq Waiting(v)
    BY <1>2, <1>3 DEF Waiting
  <2>2. \A v \in Writer : Ordered(log, out'[v].now) /\ Ordered(log, out'[v].pending)
    BY <1>2, <1>3 DEF IInv, Order
  <2>3. /\ \A v \in Writer : Precedes(log, ToSet(channel), Waiting(v)')
        /\ \A s \in Sub, v \in Writer : Precedes(log, Heard(s), Waiting(v)')
    BY <2>1 DEF IInv, Order, Precedes
  <2> QED BY <1>1, <1>4, <2>2, <2>3 DEF IInv, Order
<1> QED BY <1>5, <1>6, <1>7 DEF IInv

\* What was recorded is rolled back, or a service dies or cannot publish.
LEMMA GiveUpKeeps == ASSUME IInv, NEW w \in Writer, Rollback(w) \/ LoseOutbox(w) PROVE IInv'
<1>1. /\ UNCHANGED <<log, committed, deleted, mode, reader, channel, subs, stopping>>
      /\ \/ out' = [out EXCEPT ![w].tx = {}, ![w].pending = <<>>] /\ UNCHANGED <<lost, faults>>
         \/ /\ out' = [out EXCEPT ![w] = [tx |-> {}, pending |-> <<>>, now |-> <<>>]]
            /\ lost' = lost \cup ToSet(out[w].now) /\ faults' = faults + 1
  BY DEF Rollback, LoseOutbox, Fault
<1>2. /\ out' \in [Writer -> Outboxes] /\ out'[w].tx = {} /\ out'[w].pending = <<>>
      /\ out'[w].now \in {out[w].now, <<>>} /\ \A v \in Writer \ {w} : out'[v] = out[v]
  <2>1. \A t \in SUBSET Nat, q \in Seq(Nat) : [out[w] EXCEPT !.tx = t, !.pending = q] \in Outboxes
    BY DEF IInv, TypeOK, Outboxes
  <2>2. <<>> \in Seq(Nat) /\ [tx |-> {}, pending |-> <<>>, now |-> <<>>] \in Outboxes
    BY DEF Outboxes
  <2>3. CASE out' = [out EXCEPT ![w].tx = {}, ![w].pending = <<>>]
    <3>1. out' = [out EXCEPT ![w] = [out[w] EXCEPT !.tx = {}, !.pending = <<>>]]
      BY <2>3 DEF IInv, TypeOK
    <3> QED BY <2>1, <2>2, <3>1 DEF IInv, TypeOK, Outboxes
  <2>4. CASE out' = [out EXCEPT ![w] = [tx |-> {}, pending |-> <<>>, now |-> <<>>]]
    BY <2>2, <2>4 DEF IInv, TypeOK
  <2> QED BY <1>1, <2>3, <2>4
<1>3. lost' \subseteq Nat /\ faults' \in Nat
  <2>1. ToSet(out[w].now) \subseteq Nat
    BY DEF IInv, TypeOK, Places
  <2> QED BY <1>1, <2>1 DEF IInv, TypeOK
<1>4. TypeOK'
  BY <1>1, <1>2, <1>3 DEF IInv, TypeOK, stopping
<1>5. ASSUME NEW v \in Writer
      PROVE  /\ Shrunk(out[v].now, out'[v].now) /\ Shrunk(out[v].pending, out'[v].pending)
             /\ out'[v].tx \subseteq out[v].tx /\ ToSet(out'[v].pending) \subseteq out'[v].tx
  <2>1. CASE v = w
    BY <1>2, <2>1, NothingThere DEF Shrunk
  <2>2. CASE v # w
    BY <1>2, <2>2 DEF Shrunk, IInv, Places
  <2> QED BY <2>1, <2>2
<1> QED BY <1>1, <1>4, <1>5, OutboxShrinks

-----------------------------------------------------------------------------
(* The theorems.                                                           *)

\* What opens, breaks or ends streams, and what ends the reader.
LEMMA OtherSteps ==
  ASSUME IInv,
         \/ \E d \in Doc : DeleteProject(d)
         \/ \E s \in Sub : Subscribe(s) \/ Stall(s) \/ Disconnect(s) \/ Cancel(s)
         \/ ReaderDies \/ Stop \/ StopFails \/ CloseAll \/ Resume \/ CloseFails
  PROVE  IInv'
<1>1. /\ UNCHANGED <<log, committed, out, mode>> /\ channel' \in {channel, <<>>}
      /\ reader' \in {reader, "dead", "stopped"} /\ deleted' \subseteq Doc
  <2>1. deleted \subseteq Doc
    BY DEF IInv, TypeOK
  <2>2. CASE \/ \E d \in Doc : DeleteProject(d)
             \/ \E s \in Sub : Subscribe(s) \/ Stall(s) \/ Disconnect(s) \/ Cancel(s)
    BY <2>1, <2>2 DEF DeleteProject, Subscribe, Stall, Disconnect, Cancel
  <2>3. CASE ReaderDies \/ Stop \/ StopFails \/ CloseAll \/ Resume \/ CloseFails
    BY <2>1, <2>3 DEF ReaderDies, Stop, StopFails, CloseAll, Resume, CloseFails
  <2> QED BY <2>2, <2>3
<1>2. lost' \subseteq Nat /\ faults' \in Nat
  <2>1. ToSet(channel) \subseteq Nat /\ lost \subseteq Nat /\ faults \in Nat
    BY DEF IInv, TypeOK, Places
  <2>2. CASE \/ \E d \in Doc : DeleteProject(d)
             \/ \E s \in Sub : Subscribe(s) \/ Stall(s) \/ Disconnect(s) \/ Cancel(s)
    <3>1. lost' = lost /\ faults' \in {faults, faults + 1}
      BY <2>2 DEF DeleteProject, Subscribe, Stall, Disconnect, Cancel, Fault
    <3> QED BY <2>1, <3>1
  <2>3. CASE ReaderDies \/ Stop
    <3>1. lost' = lost \cup ToSet(channel) /\ faults' \in {faults, faults + 1}
      BY <2>3 DEF ReaderDies, Stop, Fault
    <3>2. lost' \subseteq Nat
      BY <2>1, <3>1
    <3>3. faults' \in Nat
      BY <2>1, <3>1
    <3> QED BY <3>2, <3>3
  <2>4. CASE StopFails \/ CloseAll \/ Resume \/ CloseFails
    <3>1. lost' = lost /\ faults' \in {faults, faults + 1}
      BY <2>4 DEF StopFails, CloseAll, Resume, CloseFails, Fault
    <3> QED BY <2>1, <3>1
  <2> QED BY <2>2, <2>3, <2>4
<1>3. ASSUME NEW T \in SUBSET Sub PROVE \A s \in Sub :
        /\ Ended(T)[s] \in Streams /\ Ended(T)[s].got = subs[s].got
        /\ Ended(T)[s].queue \in {subs[s].queue, Append(subs[s].queue, End)}
  <2> SUFFICES ASSUME NEW s \in Sub
               PROVE  /\ Ended(T)[s] \in Streams /\ Ended(T)[s].got = subs[s].got
                      /\ Ended(T)[s].queue \in {subs[s].queue, Append(subs[s].queue, End)}
    OBVIOUS
  <2>1. subs[s] \in Streams /\ Append(subs[s].queue, End) \in Seq(Nat)
    BY Fields, AppendSeq DEF IInv, TypeOK, End
  <2>2. \A q \in Seq(Nat) : [subs[s] EXCEPT !.queue = q] \in Streams
    BY <2>1 DEF Streams
  <2>3. Ended(T)[s] \in {subs[s], [subs[s] EXCEPT !.queue = Append(subs[s].queue, End)]}
    BY DEF Ended
  <2> QED BY <2>1, <2>2, <2>3 DEF Streams
<1>4. \A s \in Sub : /\ subs'[s] \in Streams /\ subs'[s].got = subs[s].got
                     /\ subs'[s].queue \in {subs[s].queue, Append(subs[s].queue, End)}
  <2>1. CASE UNCHANGED subs
    BY <2>1 DEF IInv, TypeOK
  <2>2. ASSUME NEW s \in Sub, \/ \E m \in SUBSET Nat : subs' = [subs EXCEPT ![s].state = "open", ![s].missed = m]
                              \/ \E b \in {"stalls", "gone"} : subs' = [subs EXCEPT ![s].browser = b]
                              \/ subs' = [subs EXCEPT ![s].state = "ended"]
        PROVE  \A r \in Sub : subs'[r] \in Streams /\ subs'[r].got = subs[r].got /\ subs'[r].queue = subs[r].queue
    <3>1. /\ subs \in [Sub -> Streams] /\ subs[s] \in Streams
          /\ \A m \in SUBSET Nat : [subs[s] EXCEPT !.state = "open", !.missed = m] \in Streams
          /\ [subs[s] EXCEPT !.state = "ended"] \in Streams
          /\ \A b \in {"stalls", "gone"} : [subs[s] EXCEPT !.browser = b] \in Streams
      BY DEF IInv, TypeOK, Streams
    <3>2. ASSUME subs' = [subs EXCEPT ![s].state = "ended"]
          PROVE  \A r \in Sub : subs'[r] \in Streams /\ subs'[r].got = subs[r].got /\ subs'[r].queue = subs[r].queue
      <4>1. subs'[s] = [subs[s] EXCEPT !.state = "ended"] /\ \A r \in Sub \ {s} : subs'[r] = subs[r]
        BY <3>1, <3>2
      <4>2. subs'[s].got = subs[s].got /\ subs'[s].queue = subs[s].queue
        BY <3>1, <4>1 DEF Streams
      <4> QED BY <3>1, <4>1, <4>2
    <3>3. ASSUME NEW b \in {"stalls", "gone"}, subs' = [subs EXCEPT ![s].browser = b]
          PROVE  \A r \in Sub : subs'[r] \in Streams /\ subs'[r].got = subs[r].got /\ subs'[r].queue = subs[r].queue
      <4>1. subs'[s] = [subs[s] EXCEPT !.browser = b] /\ \A r \in Sub \ {s} : subs'[r] = subs[r]
        BY <3>1, <3>3
      <4>2. subs'[s].got = subs[s].got /\ subs'[s].queue = subs[s].queue
        BY <3>1, <4>1 DEF Streams
      <4> QED BY <3>1, <4>1, <4>2
    <3>4. ASSUME NEW m \in SUBSET Nat, subs' = [subs EXCEPT ![s].state = "open", ![s].missed = m]
          PROVE  \A r \in Sub : subs'[r] \in Streams /\ subs'[r].got = subs[r].got /\ subs'[r].queue = subs[r].queue
      <4>1. /\ subs'[s] = [subs[s] EXCEPT !.state = "open", !.missed = m]
            /\ \A r \in Sub \ {s} : subs'[r] = subs[r]
        BY <3>1, <3>4
      <4>2. subs'[s].got = subs[s].got /\ subs'[s].queue = subs[s].queue
        BY <3>1, <4>1 DEF Streams
      <4> QED BY <3>1, <4>1, <4>2
    <3> QED BY <2>2, <3>2, <3>3, <3>4
  <2>3. ASSUME NEW T \in SUBSET Sub, subs' = Ended(T)
        PROVE  \A s \in Sub : /\ subs'[s] \in Streams /\ subs'[s].got = subs[s].got
                              /\ subs'[s].queue \in {subs[s].queue, Append(subs[s].queue, End)}
    BY <1>3, <2>3
  <2>4. CASE CloseAll
    <3>1. PICK T \in SUBSET {s \in (IF stop = "stopping" THEN Open ELSE rest) : ~Full(s)} : subs' = Ended(T)
      BY <2>4 DEF CloseAll
    <3>2. T \in SUBSET Sub
      BY DEF Open, IInv, TypeOK
    <3> QED BY <2>3, <3>1, <3>2
  <2>5. CASE Resume
    BY <2>3, <2>5 DEF Resume, IInv, TypeOK
  <2>6. ASSUME NEW s \in Sub, Subscribe(s)
        PROVE  \E m \in SUBSET Nat : subs' = [subs EXCEPT ![s].state = "open", ![s].missed = m]
    <3>1. {c \in committed : Wants(s, c) /\ ~InFlight(c)} \in SUBSET Nat
      BY DEF IInv, TypeOK
    <3> QED BY <2>6, <3>1 DEF Subscribe
  <2>7. CASE \E s \in Sub : Subscribe(s) \/ Stall(s) \/ Disconnect(s) \/ Cancel(s)
    <3>1. PICK s \in Sub : Subscribe(s) \/ Stall(s) \/ Disconnect(s) \/ Cancel(s)
      BY <2>7
    <3> QED BY <2>2, <2>6, <3>1 DEF Stall, Disconnect, Cancel
  <2>8. CASE (\E d \in Doc : DeleteProject(d)) \/ ReaderDies \/ Stop \/ StopFails \/ CloseFails
    BY <2>1, <2>8 DEF DeleteProject, ReaderDies, Stop, StopFails, CloseFails
  <2> QED BY <2>4, <2>5, <2>7, <2>8
<1>5. subs' \in [Sub -> Streams]
  <2>1. \E f : subs' = [s \in Sub |-> f[s]]
    BY DEF DeleteProject, Subscribe, Stall, Disconnect, Cancel, ReaderDies, Stop, StopFails, CloseAll, Resume, CloseFails,
           Ended, IInv, TypeOK
  <2> QED BY <1>4, <2>1
<1>6. /\ stop' \in {"no", "stopping", "closing", "done", "failed"}
      /\ table' \subseteq Sub /\ rest' \subseteq Sub /\ wait' \subseteq Sub
  <2>1. /\ stop \in {"no", "stopping", "closing", "done", "failed"}
        /\ table \subseteq Sub /\ rest \subseteq Sub /\ wait \subseteq Sub /\ Open \subseteq Sub
    BY DEF Open, IInv, TypeOK
  <2>2. CASE CloseAll
    <3>1. (IF stop = "stopping" THEN Open ELSE rest) \subseteq Sub
      BY <2>1
    <3> QED BY <2>1, <2>2, <3>1 DEF CloseAll
  <2>3. CASE \/ \E d \in Doc : DeleteProject(d)
             \/ \E s \in Sub : Subscribe(s) \/ Stall(s) \/ Disconnect(s) \/ Cancel(s)
             \/ ReaderDies \/ Stop \/ StopFails \/ Resume \/ CloseFails
    BY <2>1, <2>3 DEF DeleteProject, Subscribe, Stall, Disconnect, Cancel, ReaderDies, Stop, StopFails, Resume, CloseFails, stopping
  <2> QED BY <2>2, <2>3
<1>7. channel' \in Seq(Nat)
  <2>1. channel \in Seq(Nat) /\ <<>> \in Seq(Nat)
    BY DEF IInv, TypeOK
  <2> QED BY <1>1, <2>1
<1>8. TypeOK'
  BY <1>1, <1>2, <1>5, <1>6, <1>7 DEF IInv, TypeOK
<1> QED BY <1>1, <1>4, <1>8, StreamSteps

LEMMA InitInv == Init => IInv
<1> SUFFICES ASSUME Init PROVE IInv
  OBVIOUS
<1>1. Closed \in Streams /\ Closed.got = <<>> /\ Closed.queue = <<>>
  BY DEF Closed, Streams
<1>2. [tx |-> {}, pending |-> <<>>, now |-> <<>>] \in Outboxes
  BY DEF Outboxes
<1>3. TypeOK
  BY <1>1, <1>2 DEF Init, TypeOK
<1>4. ToSet(channel) = {} /\ \A l : Ordered(l, channel)
  BY NothingThere DEF Init
<1>5. \A w \in Writer : /\ out[w].tx = {} /\ out[w].now = <<>> /\ out[w].pending = <<>>
  BY DEF Init
<1>6. \A w \in Writer : /\ ToSet(out[w].now) = {} /\ ToSet(out[w].pending) = {} /\ Waiting(w) = {}
                        /\ \A l : Ordered(l, out[w].now) /\ Ordered(l, out[w].pending)
  BY <1>5, NothingThere DEF Waiting
<1>7. \A s \in Sub : subs[s].got = <<>> /\ subs[s].queue = <<>>
  BY <1>1 DEF Init
<1>8. \A s \in Sub : /\ ToSet(subs[s].got) = {} /\ Heard(s) = {}
                     /\ \A l : Ordered(l, subs[s].got) /\ Ordered(l, subs[s].queue)
  BY <1>7, NothingThere DEF Heard
<1>9. Places
  BY <1>4, <1>5, <1>6, <1>8 DEF Init, Places
<1>10. Order
  BY <1>4, <1>6, <1>8 DEF Order, Precedes
<1> QED BY <1>3, <1>9, <1>10 DEF IInv

LEMMA Inductive == IInv /\ [Next]_vars => IInv'
<1> SUFFICES ASSUME IInv, [Next]_vars PROVE IInv'
  OBVIOUS
<1>1. ASSUME NEW w \in Writer, Record(w) \/ Commit(w) \/ Rollback(w) \/ Publish(w) \/ LoseOutbox(w)
      PROVE  IInv'
  BY <1>1, RecordKeeps, CommitKeeps, GiveUpKeeps, PublishKeeps
<1>2. ASSUME NEW s \in Sub, Deliver(s) PROVE IInv'
  BY <1>2, DeliverKeeps
<1>3. CASE Read
  BY <1>3, ReadKeeps
<1>4. CASE \/ \E d \in Doc : DeleteProject(d)
           \/ \E s \in Sub : Subscribe(s) \/ Stall(s) \/ Disconnect(s) \/ Cancel(s)
           \/ ReaderDies \/ Stop \/ StopFails \/ CloseAll \/ Resume \/ CloseFails
  BY <1>4, OtherSteps
<1>5. CASE UNCHANGED vars
  <2>1. TypeOK'
    BY <1>5 DEF vars, stopping, IInv, TypeOK
  <2> QED BY <1>5, <2>1, StreamSteps DEF vars
<1> QED BY <1>1, <1>2, <1>3, <1>4, <1>5 DEF Next

LEMMA Invariant == Spec => []IInv
BY InitInv, Inductive, PTL DEF Spec

LEMMA PassedSeq ==
  ASSUME IInv, NEW s \in Sub
  PROVE  /\ DOMAIN Passed(s) = 1..Len(Passed(s))
         /\ ToSet(Passed(s)) = Heard(s)
         /\ Ordered(log, Passed(s))
<1> DEFINE g == subs[s].got
           q == subs[s].queue
<1>1. /\ g \in Seq(Nat) /\ q \in Seq(Nat) /\ Ordered(log, g) /\ Ordered(log, q)
      /\ Precedes(log, ToSet(g), ToSet(q)) /\ Passed(s) = g \o q /\ Heard(s) = ToSet(g) \cup ToSet(q)
  BY Fields DEF IInv, Order, Passed, Heard
<1> HIDE DEF g, q
<1>2. /\ g \o q \in Seq(Nat) /\ Len(g \o q) = Len(g) + Len(q) /\ Len(g) \in Nat /\ Len(q) \in Nat
      /\ \A i \in 1..Len(g) : (g \o q)[i] = g[i]
      /\ \A i \in 1..Len(q) : (g \o q)[Len(g) + i] = q[i]
  BY <1>1
<1>3. DOMAIN (g \o q) = 1..(Len(g) + Len(q)) /\ DOMAIN g = 1..Len(g) /\ DOMAIN q = 1..Len(q)
  BY <1>1, <1>2
<1>4. \A i \in 1..(Len(g) + Len(q)) : i \in 1..Len(g) \/ \E j \in 1..Len(q) : i = Len(g) + j
  <2> SUFFICES ASSUME NEW i \in 1..(Len(g) + Len(q)), i \notin 1..Len(g)
               PROVE  i - Len(g) \in 1..Len(q) /\ i = Len(g) + (i - Len(g))
    OBVIOUS
  <2> QED BY <1>2
<1>5. \A i \in 1..Len(g) : g[i] \in ToSet(g)
  BY <1>3 DEF ToSet
<1>6. \A i \in 1..Len(q) : q[i] \in ToSet(q) /\ Len(g) + i \in 1..(Len(g) + Len(q))
  <2>1. \A i \in 1..Len(q) : q[i] \in ToSet(q)
    BY <1>3 DEF ToSet
  <2> QED BY <1>2, <2>1
<1>7. ToSet(g \o q) = ToSet(g) \cup ToSet(q)
  <2>1. ToSet(g \o q) \subseteq ToSet(g) \cup ToSet(q)
    <3> SUFFICES ASSUME NEW i \in 1..(Len(g) + Len(q)) PROVE (g \o q)[i] \in ToSet(g) \cup ToSet(q)
      BY <1>3 DEF ToSet
    <3> QED BY <1>2, <1>4, <1>5, <1>6
  <2>2. ToSet(g) \subseteq ToSet(g \o q)
    BY <1>2, <1>3 DEF ToSet
  <2>3. ToSet(q) \subseteq ToSet(g \o q)
    BY <1>2, <1>3, <1>6 DEF ToSet
  <2> QED BY <2>1, <2>2, <2>3
<1>8. Ordered(log, g \o q)
  <2> SUFFICES ASSUME NEW i \in 1..(Len(g) + Len(q)), NEW j \in 1..(Len(g) + Len(q)), i < j,
                      (g \o q)[i] # End, (g \o q)[j] # End
               PROVE  Before(log, (g \o q)[i], (g \o q)[j])
    BY <1>2 DEF Ordered
  <2>1. CASE i \in 1..Len(g) /\ j \in 1..Len(g)
    BY <1>1, <1>2, <2>1 DEF Ordered
  <2>2. ASSUME i \in 1..Len(g), NEW k \in 1..Len(q), j = Len(g) + k
        PROVE  Before(log, (g \o q)[i], (g \o q)[j])
    BY <1>1, <1>2, <1>5, <1>6, <2>2 DEF Precedes
  <2>3. ASSUME NEW h \in 1..Len(q), i = Len(g) + h, NEW k \in 1..Len(q), j = Len(g) + k
        PROVE  Before(log, (g \o q)[i], (g \o q)[j])
    <3>1. h < k
      BY <1>2, <2>3
    <3> QED BY <1>1, <1>2, <2>3, <3>1 DEF Ordered
  <2>4. j \in 1..Len(g) => i \in 1..Len(g)
    BY <1>2
  <2> QED BY <1>4, <2>1, <2>2, <2>3, <2>4
<1> QED BY <1>1, <1>2, <1>3, <1>7, <1>8

\* The log, the outboxes, the channel, the streams and the shutdown have their types.
THEOREM TypeCorrect == Spec => []TypeOK
<1>1. IInv => TypeOK
  BY DEF IInv
<1> QED BY <1>1, Invariant, PTL

\* Whatever fails, races or is rolled back: a browser, and its queue, hold only changes whose
\* transaction is committed.
THEOREM OnlyCommittedIsHeard == Spec => []SeenAfterCommit
<1>1. IInv => SeenAfterCommit
  BY PassedSeq DEF IInv, Places, SeenAfterCommit
<1> QED BY <1>1, Invariant, PTL

\* No stream gets a change twice, and those of one service arrive in the order they were made,
\* through Redis or without it.
THEOREM StreamsAreInOrder == Spec => []InOrder
<1>1. IInv => InOrder
  <2> SUFFICES ASSUME IInv, NEW s \in Sub, NEW i \in DOMAIN Passed(s), NEW j \in DOMAIN Passed(s),
                      i < j, Passed(s)[i] # End, Passed(s)[j] # End
               PROVE  Before(log, Passed(s)[i], Passed(s)[j])
    BY DEF InOrder, Before
  <2> QED BY PassedSeq DEF Ordered
<1> QED BY <1>1, Invariant, PTL
================================================================================
