------------------------ MODULE LoadStoreQueueProofs ------------------------
(***************************************************************************)
(* The load/store queue for every program, queue size and predictor: the   *)
(* uops that commit load and store what they would in program order, and   *)
(* fences hold back what is behind them.                                   *)
(*                                                                         *)
(* The argument.  Stores to one chunk issue in program order, each taking  *)
(* over the bytes of the one before it; so the newest issued store in      *)
(* front of a uop, over what memory holds, is the chunk as the program     *)
(* order has it (Image).  An issued load holds the bytes of that image: a  *)
(* store that issues later and would change it finds the load and sends    *)
(* it back, and a commit moves bytes from the queue to memory without      *)
(* changing any image.                                                     *)
(***************************************************************************)
EXTENDS LoadStoreQueue, FiniteSetTheorems, SequenceTheorems, WellFoundedInduction, TLAPS

IsSt(i) == prog[i].op = "st"

\* The stores in front of uop k that have issued to chunk c.
Sources(k, c) == {q \in Older(k) : IsSt(q) /\ At(q).issued /\ At(q).physaddr = c}

\* What chunk c holds for uop k.
Image(k, c) ==
  IF Sources(k, c) = {} THEN memory[c]
  ELSE Merge(memory[c], At(Nearest(Sources(k, c))).data, At(Nearest(Sources(k, c))).bytemask)

\* The flags of an entry agree with its state, and its address with its operand.
StateOk(i) ==
  /\ At(i).issued <=> At(i).state \notin {"dispatch", "queued"}
  /\ ~ IsFence(i) =>
       /\ At(i).issued => At(i).addrvalid
       /\ At(i).datavalid => At(i).issued
       /\ At(i).addrvalid => Completed(prog[i].ra) /\ At(i).physaddr = PhysAddr(i)
  /\ IsSt(i) /\ At(i).issued => At(i).datavalid /\ Ready(prog[i].rc)

\* An issued load holds what the stores in front of it and memory give it.
LoadOk(i) ==
  IsLoad(i) /\ At(i).issued => At(i).data = Extract(Image(i, At(i).physaddr), prog[i].bytes)

\* The addresses in front of an issued store are known, and stores to its chunk have issued.
OrderOk(i) ==
  IsSt(i) /\ At(i).issued =>
    \A q \in Older(i) : IsSt(q) =>
      /\ At(q).addrvalid
      /\ At(q).physaddr = At(i).physaddr => At(q).issued /\ At(q).bytemask \subseteq At(i).bytemask

\* An issued store holds its own bytes over those of the stores it covers.
StoreOk(i) ==
  IsSt(i) /\ At(i).issued =>
    /\ prog[i].bytes \subseteq At(i).bytemask
    /\ \A b \in At(i).bytemask :
         At(i).data[b] = IF b \in prog[i].bytes THEN StoreWord(prog[i], i, Value(prog[i].rc))[b]
                         ELSE Image(i, At(i).physaddr)[b]

\* Fence i holds back uop j.
Stops(i, j) == IsFence(i) /\ IF IsLoad(j) THEN prog[i].lfence ELSE IsSt(j) /\ prog[i].sfence

\* A fence is woken at the head of the queue only.
FenceOk(i) ==
  IsFence(i) => /\ At(i).addrvalid <=> At(i).state = "completed"
                /\ At(i).addrvalid => i = head + 1
                /\ At(i).state \notin {"executing", "miss"}

\* A uop that has been dispatched behind a fence not woken yet waits for the last such fence.
WaitOk(j) ==
  \A i \in Older(j) : Stops(i, j) /\ ~ At(i).addrvalid /\ At(j).state # "dispatch" =>
    /\ At(j).state = "queued" /\ At(j).rs \in Older(j) /\ i <= At(j).rs
    /\ IsFence(At(j).rs) /\ ~ At(At(j).rs).addrvalid

EntryOk(i) == StateOk(i) /\ LoadOk(i) /\ OrderOk(i) /\ StoreOk(i) /\ FenceOk(i) /\ WaitOk(i)

QueueInv == TypeOK /\ \A i \in InFlight : EntryOk(i)

-----------------------------------------------------------------------------
\* Positions.

LEMMA LeastNat == ASSUME NEW T \in SUBSET Nat, T # {} PROVE \E x \in T : \A y \in T : x <= y
<1> DEFINE R == OpToRel(<, Nat)
<1>1. PICK x \in T : \A y \in T : ~(<<y, x>> \in R)
  <2> HIDE DEF R
  <2> QED
    BY WFMin, NatLessThanWellFounded DEF R
<1>2. ASSUME NEW y \in T PROVE x <= y
  <2>1. x \in Nat /\ y \in Nat
    OBVIOUS
  <2>2. y < x => <<y, x>> \in R
    BY <2>1 DEF OpToRel
  <2> HIDE DEF R
  <2>3. ~(y < x)
    BY <1>1, <2>2
  <2> QED
    BY <2>1, <2>3
<1> QED
  BY <1>2

LEMMA MinIn == ASSUME NEW S \in SUBSET Nat, S # {} PROVE Min(S) \in S
<1>1. PICK x \in S : \A y \in S : x <= y
  BY LeastNat
<1> QED
  BY <1>1 DEF Min

LEMMA NearestIn ==
  ASSUME NEW n \in Nat, NEW S \in SUBSET (1..n)
  PROVE  /\ S = {} => Nearest(S) = 0
         /\ S # {} => Nearest(S) \in S /\ Nearest(S) # 0 /\ \A y \in S : y <= Nearest(S)
<1>1. ASSUME S # {} PROVE \E x \in S : \A y \in S : x >= y
  <2> DEFINE T == {n - j : j \in S}
  <2>1. \A j \in S : j \in Int /\ n - j \in Nat
    OBVIOUS
  <2>2. T \in SUBSET Nat /\ T # {}
    BY <1>1, <2>1
  <2>3. PICK x \in T : \A y \in T : x <= y
    <3> HIDE DEF T
    <3> QED
      BY <2>2, LeastNat
  <2>4. PICK j \in S : x = n - j
    OBVIOUS
  <2>5. ASSUME NEW m \in S PROVE j >= m
    <3>1. n - m \in T
      OBVIOUS
    <3>2. n - j <= n - m
      BY <2>3, <2>4, <3>1
    <3>3. j \in Int /\ m \in Int
      BY <2>1
    <3> QED
      BY <3>2, <3>3
  <2> QED
    BY <2>5
<1>2. ASSUME S # {} PROVE Max(S) \in S /\ \A y \in S : Max(S) >= y
  BY <1>1, <1>2 DEF Max
<1>3. ASSUME S # {} PROVE Nearest(S) \in S /\ Nearest(S) # 0 /\ \A y \in S : y <= Nearest(S)
  <2>1. Nearest(S) = Max(S)
    BY <1>3 DEF Nearest
  <2>2. Max(S) \in 1..n /\ \A y \in S : y \in 1..n
    BY <1>2, <1>3
  <2> QED
    BY <1>2, <1>3, <2>1, <2>2
<1> QED
  BY <1>3 DEF Nearest

LEMMA NearestIs ==
  ASSUME NEW n \in Nat, NEW S \in SUBSET (1..n), NEW x \in S, \A y \in S : y <= x
  PROVE  Nearest(S) = x
<1>1. Nearest(S) \in S /\ \A y \in S : y <= Nearest(S)
  BY NearestIn
<1>2. Nearest(S) \in 1..n /\ x \in 1..n /\ x <= Nearest(S) /\ Nearest(S) <= x
  BY <1>1
<1> QED
  BY <1>2

\* The uops of the program and the operands they may have.
LEMMA ProgFacts ==
  ASSUME prog \in Programs
  PROVE  /\ prog \in Seq(Uop) /\ Len(prog) \in Nat /\ DOMAIN prog = 1..Len(prog)
         /\ \A i \in 1..Len(prog) :
              /\ prog[i] \in Uop
              /\ \A o \in {prog[i].ra, prog[i].rc} : o \in Nat /\ o < i /\ (o # 0 => prog[o].op = "ld")
              /\ (prog[i].lfence \/ prog[i].sfence) <=> prog[i].op = "mf"
<1>1. WellFormed(prog)
  BY MemoryUopAssumption
<1>2. prog \in Seq(Uop) /\ Len(prog) \in Nat /\ DOMAIN prog = 1..Len(prog)
  BY <1>1 DEF WellFormed
<1>3. ASSUME NEW i \in 1..Len(prog), NEW o \in {prog[i].ra, prog[i].rc}
      PROVE  o \in Nat /\ o < i /\ (o # 0 => prog[o].op = "ld")
  <2>1. prog[i] \in Uop
    BY <1>2
  <2>2. o \in Nat
    BY <2>1 DEF Uop
  <2> QED
    BY <1>1, <1>2, <2>2 DEF WellFormed
<1> QED
  BY <1>1, <1>2, <1>3 DEF WellFormed

LEMMA QueueFacts ==
  ASSUME TypeOK
  PROVE  /\ head \in Nat /\ Len(lsq) \in Nat /\ Len(prog) \in Nat /\ lsq \in Seq(Entry)
         /\ InFlight \in SUBSET (1..Len(prog))
         /\ \A i \in InFlight : i \in Nat /\ i > head /\ i - head \in 1..Len(lsq) /\ At(i) \in Entry
         /\ \A i \in InFlight : prog[i] \in Uop
<1>1. prog \in Programs /\ head \in Position /\ lsq \in Seq(Entry) /\ head + Len(lsq) <= Len(prog)
  BY DEF TypeOK
<1>2. Len(prog) \in Nat /\ \A i \in 1..Len(prog) : prog[i] \in Uop
  BY <1>1, ProgFacts
<1>3. head \in Nat /\ Len(lsq) \in Nat
  BY <1>1, <1>2 DEF Position
<1>4. ASSUME NEW i \in InFlight
      PROVE  i \in 1..Len(prog) /\ i > head /\ i - head \in 1..Len(lsq)
  BY <1>1, <1>2, <1>3 DEF InFlight
<1>5. ASSUME NEW i \in InFlight PROVE At(i) \in Entry
  BY <1>1, <1>3, <1>4 DEF At
<1> QED
  BY <1>1, <1>2, <1>3, <1>4, <1>5

-----------------------------------------------------------------------------
\* How the steps move the entries.

\* One entry changes.
LEMMA SetStep ==
  ASSUME TypeOK, NEW i \in InFlight, NEW e \in Entry, Set(i, e), UNCHANGED head
  PROVE  /\ lsq' \in Seq(Entry) /\ Len(lsq') = Len(lsq) /\ InFlight' = InFlight
         /\ At(i)' = e /\ \A j \in InFlight : j # i => At(j)' = At(j)
<1>1. /\ head \in Nat /\ Len(lsq) \in Nat /\ lsq \in Seq(Entry)
      /\ \A j \in InFlight : j \in Nat /\ j - head \in 1..Len(lsq)
  BY QueueFacts
<1>2. lsq' = [lsq EXCEPT ![i - head] = e]
  BY DEF Set
<1>3. lsq' \in Seq(Entry) /\ Len(lsq') = Len(lsq)
  BY <1>1, <1>2, ExceptSeq
<1>4. \A k \in 1..Len(lsq) : lsq'[k] = IF k = i - head THEN e ELSE lsq[k]
  BY <1>1, <1>2, ExceptSeq
<1>5. InFlight' = InFlight
  BY <1>3 DEF InFlight
<1>6. At(i)' = e
  BY <1>1, <1>4 DEF At
<1>7. ASSUME NEW j \in InFlight, j # i PROVE At(j)' = At(j)
  <2>1. j - head \in 1..Len(lsq) /\ j - head # i - head
    BY <1>1, <1>7
  <2> QED
    BY <1>4, <2>1 DEF At
<1> QED
  BY <1>3, <1>5, <1>6, <1>7

\* A new entry at the end.
LEMMA AppendStep ==
  ASSUME TypeOK, NEW e \in Entry, lsq' = Append(lsq, e), UNCHANGED head, NEW n, n = head + Len(lsq) + 1
  PROVE  /\ lsq' \in Seq(Entry) /\ Len(lsq') = Len(lsq) + 1 /\ InFlight' = InFlight \cup {n} /\ n \in Nat
         /\ At(n)' = e /\ \A j \in InFlight : At(j)' = At(j) /\ j < n
<1>1. /\ head \in Nat /\ Len(lsq) \in Nat /\ lsq \in Seq(Entry)
      /\ \A j \in InFlight : j \in Nat /\ j - head \in 1..Len(lsq)
  BY QueueFacts
<1>2. /\ lsq' \in Seq(Entry) /\ Len(lsq') = Len(lsq) + 1 /\ lsq'[Len(lsq) + 1] = e
      /\ \A k \in 1..Len(lsq) : lsq'[k] = lsq[k]
  BY <1>1
<1>3. InFlight' = InFlight \cup {n} /\ n \in Nat
  BY <1>1, <1>2 DEF InFlight
<1>4. At(n)' = e
  <2>1. n - head = Len(lsq) + 1
    BY <1>1
  <2> QED
    BY <1>2, <2>1 DEF At
<1>5. ASSUME NEW j \in InFlight PROVE At(j)' = At(j) /\ j < n
  <2>1. j - head \in 1..Len(lsq)
    BY <1>1
  <2>2. At(j)' = At(j)
    BY <1>2, <2>1 DEF At
  <2> QED
    BY <1>1, <2>1, <2>2
<1> QED
  BY <1>2, <1>3, <1>4, <1>5

\* The youngest entries go.
LEMMA CutStep ==
  ASSUME TypeOK, NEW k \in Nat, k < Len(lsq), lsq' = SubSeq(lsq, 1, k), UNCHANGED head
  PROVE  /\ lsq' \in Seq(Entry) /\ Len(lsq') = k /\ InFlight' = {j \in InFlight : j <= head + k}
         /\ \A j \in InFlight' : At(j)' = At(j)
<1>1. /\ head \in Nat /\ Len(lsq) \in Nat /\ lsq \in Seq(Entry)
      /\ \A j \in InFlight : j \in Nat /\ j - head \in 1..Len(lsq)
  BY QueueFacts
<1>2. lsq' \in Seq(Entry) /\ Len(lsq') = k /\ \A j \in 1..k : lsq'[j] = lsq[j]
  BY <1>1, SubSeqProperties
<1>3. InFlight' = {j \in InFlight : j <= head + k}
  BY <1>1, <1>2 DEF InFlight
<1>4. ASSUME NEW j \in InFlight' PROVE At(j)' = At(j)
  <2>1. j - head \in 1..k
    BY <1>1, <1>3
  <2> QED
    BY <1>2, <2>1 DEF At
<1> QED
  BY <1>2, <1>3, <1>4

\* The oldest entry goes.
LEMMA TailStep ==
  ASSUME TypeOK, lsq' = Tail(lsq), head' = head + 1, head + 1 \in InFlight
  PROVE  /\ lsq' \in Seq(Entry) /\ Len(lsq') = Len(lsq) - 1 /\ InFlight' = InFlight \ {head + 1}
         /\ \A j \in InFlight' : At(j)' = At(j)
<1>1. /\ head \in Nat /\ Len(lsq) \in Nat /\ lsq \in Seq(Entry)
      /\ \A j \in InFlight : j \in Nat /\ j - head \in 1..Len(lsq)
  BY QueueFacts
<1>2. Len(lsq) # 0 /\ lsq # << >>
  BY <1>1 DEF InFlight
<1>3. /\ lsq' \in Seq(Entry) /\ Len(lsq') = Len(lsq) - 1
      /\ \A k \in 1..(Len(lsq) - 1) : lsq'[k] = lsq[k + 1]
  BY <1>1, <1>2, HeadTailProperties
<1>4. InFlight' = InFlight \ {head + 1}
  BY <1>1, <1>3 DEF InFlight
<1>5. ASSUME NEW j \in InFlight' PROVE At(j)' = At(j)
  <2>1. j \in InFlight /\ j # head + 1
    BY <1>4
  <2>2. j - (head + 1) \in 1..(Len(lsq) - 1) /\ (j - (head + 1)) + 1 = j - head
    BY <1>1, <2>1
  <2>3. lsq'[j - (head + 1)] = lsq[j - head]
    BY <1>3, <2>2
  <2> QED
    BY <2>3 DEF At
<1> QED
  BY <1>3, <1>4, <1>5

\* A fresh entry is one.
LEMMA AllocatedEntry == ASSUME NEW u \in Uop PROVE Allocated(u) \in Entry
<1>1. Zero \in Word
  BY DEF Zero, Word
<1> QED
  BY <1>1 DEF Allocated, Entry, State, Uop

\* The entries from position i on are dispatched again.
LEMMA RedispatchStep ==
  ASSUME TypeOK, NEW i \in InFlight, lsq' = RedispatchFrom(i), UNCHANGED head
  PROVE  /\ lsq' \in Seq(Entry) /\ Len(lsq') = Len(lsq) /\ InFlight' = InFlight
         /\ \A j \in InFlight : At(j)' = IF j < i THEN At(j) ELSE Allocated(prog[j])
<1>1. /\ head \in Nat /\ Len(lsq) \in Nat /\ lsq \in Seq(Entry)
      /\ \A j \in InFlight : j \in Nat /\ j - head \in 1..Len(lsq) /\ prog[j] \in Uop
  BY QueueFacts
<1>2. ASSUME NEW k \in 1..Len(lsq)
      PROVE  /\ (IF k < i - head THEN lsq[k] ELSE Allocated(prog[head + k])) \in Entry
             /\ head + k \in InFlight /\ (head + k) - head = k
  <2>1. head + k \in InFlight /\ (head + k) - head = k
    BY <1>1 DEF InFlight
  <2>2. prog[head + k] \in Uop
    BY <1>1, <2>1
  <2> QED
    BY <1>1, <2>1, <2>2, AllocatedEntry
<1>3. lsq' = [k \in 1..Len(lsq) |-> IF k < i - head THEN lsq[k] ELSE Allocated(prog[head + k])]
  BY DEF RedispatchFrom
<1>4. lsq' \in Seq(Entry) /\ Len(lsq') = Len(lsq)
  BY <1>1, <1>2, <1>3
<1>5. InFlight' = InFlight
  BY <1>4 DEF InFlight
<1>6. ASSUME NEW j \in InFlight PROVE At(j)' = IF j < i THEN At(j) ELSE Allocated(prog[j])
  <2>1. j - head \in 1..Len(lsq) /\ head + (j - head) = j /\ (j - head < i - head <=> j < i)
    BY <1>1
  <2>2. lsq'[j - head] = IF j - head < i - head THEN lsq[j - head] ELSE Allocated(prog[head + (j - head)])
    BY <1>3, <2>1
  <2> QED
    BY <2>1, <2>2 DEF At
<1> QED
  BY <1>4, <1>5, <1>6

-----------------------------------------------------------------------------
\* Types.

LEMMA WordFacts ==
  /\ Zero \in Word
  /\ \A x \in Word, y \in Word : \A m : Merge(x, y, m) \in Word
  /\ \A x \in Word : \A m : Extract(x, m) \in Word
  /\ \A u \in Uop, i \in Nat, x \in Word : StoreWord(u, i, x) \in Word
<1>1. Zero \in Word
  BY DEF Zero, Word
<1>2. \A x \in Word, y \in Word : \A m : Merge(x, y, m) \in Word
  BY DEF Merge, Word
<1>3. \A x \in Word : \A m : Extract(x, m) \in Word
  BY <1>1, <1>2 DEF Extract
<1>4. \A u \in Uop, i \in Nat, x \in Word : StoreWord(u, i, x) \in Word
  BY DEF StoreWord, Word
<1> QED
  BY <1>1, <1>2, <1>3, <1>4

\* The operands of a uop in flight are older, and are loads.
LEMMA OperandFacts ==
  ASSUME TypeOK, NEW i \in InFlight, NEW o \in {prog[i].ra, prog[i].rc}
  PROVE  o \in Nat /\ o < i /\ (o # 0 => IsLoad(o) /\ o \in 1..Len(prog)) /\ Value(o) \in Word
<1>1. i \in 1..Len(prog) /\ Len(prog) \in Nat
  BY QueueFacts
<1>2. prog \in Programs /\ loaded \in [DOMAIN prog -> Word]
  BY DEF TypeOK
<1>3. o \in Nat /\ o < i /\ (o # 0 => prog[o].op = "ld") /\ DOMAIN prog = 1..Len(prog)
  BY <1>1, <1>2, ProgFacts
<1>4. o # 0 => o \in 1..Len(prog)
  BY <1>1, <1>3
<1>5. o \in InFlight => At(o).data \in Word
  BY QueueFacts DEF Entry
<1>6. Value(o) \in Word
  BY <1>2, <1>3, <1>4, <1>5, WordFacts DEF Value
<1> QED
  BY <1>3, <1>4, <1>6 DEF IsLoad

LEMMA PhysAddrType == ASSUME TypeOK, NEW i \in InFlight PROVE PhysAddr(i) \in Chunk
<1>1. prog[i] \in Uop
  BY QueueFacts
<1> QED
  BY <1>1 DEF PhysAddr, ChunkOf, Uop

\* A backward scan from a uop in flight.
LEMMA ScanFacts ==
  ASSUME TypeOK, NEW i \in InFlight, NEW S \in SUBSET Older(i)
  PROVE  /\ Nearest(S) \in Nat /\ Nearest(S) < i
         /\ Nearest(S) # 0 <=> S # {}
         /\ Nearest(S) # 0 => Nearest(S) \in S /\ \A y \in S : y <= Nearest(S)
<1>1. Len(prog) \in Nat /\ InFlight \in SUBSET (1..Len(prog)) /\ i \in Nat /\ i > 0
  BY QueueFacts
<1>2. S \in SUBSET (1..Len(prog)) /\ \A y \in S : y < i /\ y \in Nat
  BY <1>1 DEF Older
<1>3. /\ S = {} => Nearest(S) = 0
      /\ S # {} => Nearest(S) \in S /\ Nearest(S) # 0 /\ \A y \in S : y <= Nearest(S)
  BY <1>1, <1>2, NearestIn
<1>4. CASE S = {}
  <2>1. Nearest(S) = 0
    BY <1>3, <1>4
  <2> QED
    BY <1>1, <1>4, <2>1
<1>5. CASE S # {}
  <2>1. Nearest(S) \in S /\ Nearest(S) # 0 /\ \A y \in S : y <= Nearest(S)
    BY <1>3, <1>5
  <2>2. Nearest(S) \in Nat /\ Nearest(S) < i
    BY <1>2, <2>1
  <2> QED
    BY <1>5, <2>1, <2>2
<1> QED
  BY <1>4, <1>5

\* Uop i becomes e.
Becomes(i, e) ==
  /\ Set(i, e) /\ UNCHANGED <<prog, head, memory, loaded, lsap, annuls>>
  /\ loadsNow' \subseteq Chunk
  /\ e \in Entry /\ e.rs < i /\ (e.rs # 0 => IsStore(e.rs))

LEMMA BecomesType == ASSUME TypeOK, NEW i \in InFlight, NEW e, Becomes(i, e) PROVE TypeOK'
<1>1. /\ Set(i, e) /\ UNCHANGED <<prog, head, memory, loaded, lsap, annuls>>
      /\ loadsNow' \subseteq Chunk
      /\ e \in Entry /\ e.rs < i /\ (e.rs # 0 => IsStore(e.rs))
  BY DEF Becomes
<1>2. /\ lsq' \in Seq(Entry) /\ Len(lsq') = Len(lsq) /\ InFlight' = InFlight
      /\ At(i)' = e /\ \A j \in InFlight : j # i => At(j)' = At(j)
  BY <1>1, SetStep
<1>3. \A j : (IsLoad(j)' <=> IsLoad(j)) /\ (IsStore(j)' <=> IsStore(j))
  BY <1>1 DEF IsLoad, IsStore
<1>4. /\ {j \in InFlight : IsLoad(j)}' = {j \in InFlight : IsLoad(j)}
      /\ {j \in InFlight : IsStore(j)}' = {j \in InFlight : IsStore(j)}
  BY <1>2, <1>3
<1>5. /\ prog \in Programs /\ head \in Position
      /\ lsq \in Seq(Entry) /\ Len(lsq) < LsqSize /\ head + Len(lsq) <= Len(prog)
      /\ memory \in [Chunk -> Word] /\ loaded \in [DOMAIN prog -> Word]
      /\ lsap \in [tags: [Way -> Position], evictmap: SUBSET Way]
      /\ annuls \in 0 .. MaxAnnuls
      /\ Cardinality({j \in InFlight : IsLoad(j)}) <= LdqSize
      /\ Cardinality({j \in InFlight : IsStore(j)}) <= StqSize
      /\ \A j \in InFlight : At(j).rs < j /\ (At(j).rs # 0 => IsStore(At(j).rs))
  BY DEF TypeOK
<1>6. ASSUME NEW j \in InFlight' PROVE (At(j).rs < j /\ (At(j).rs # 0 => IsStore(At(j).rs)))'
  BY <1>1, <1>2, <1>3, <1>5
<1>7. (head \in Position)' /\ (lsap \in [tags: [Way -> Position], evictmap: SUBSET Way])'
  BY <1>1, <1>5 DEF Position
<1> QED
  BY <1>1, <1>2, <1>4, <1>5, <1>6, <1>7 DEF TypeOK

LEMMA AddressedEntry ==
  ASSUME TypeOK, NEW i \in InFlight, NEW sfra \in Nat
  PROVE  /\ Addressed(i, sfra) \in Entry
         /\ Addressed(i, sfra).state = At(i).state /\ Addressed(i, sfra).issued = At(i).issued
         /\ Addressed(i, sfra).addrvalid = TRUE /\ Addressed(i, sfra).datavalid = FALSE
         /\ Addressed(i, sfra).physaddr = PhysAddr(i) /\ Addressed(i, sfra).rs = sfra
         /\ Addressed(i, sfra).data = At(i).data /\ Addressed(i, sfra).bytemask = At(i).bytemask
         /\ Addressed(i, sfra).second = At(i).second
<1>1. At(i) \in Entry /\ PhysAddr(i) \in Chunk
  BY QueueFacts, PhysAddrType
<1> QED
  BY <1>1 DEF Addressed, Entry

\* What each step on one entry makes of it.

LEMMA DispatchBecomes ==
  ASSUME TypeOK, NEW i \in InFlight, Dispatch(i)
  PROVE  \E e : /\ Becomes(i, e) /\ e.state = "queued" /\ e.issued = At(i).issued /\ e.addrvalid = At(i).addrvalid
                /\ e.datavalid = At(i).datavalid /\ e.physaddr = At(i).physaddr /\ e.data = At(i).data
                /\ e.bytemask = At(i).bytemask /\ (FenceBefore(i) # 0 => e.rs = FenceBefore(i))
<1> DEFINE e == [At(i) EXCEPT !.state = "queued", !.rs = IF FenceBefore(i) # 0 THEN FenceBefore(i) ELSE At(i).rs]
           S == {j \in Older(i) : /\ IsFence(j) /\ ~ At(j).addrvalid
                                  /\ \/ IsLoad(i) /\ prog[j].lfence
                                     \/ prog[i].op = "st" /\ prog[j].sfence}
<1>1. Set(i, e) /\ UNCHANGED <<prog, head, memory, loaded, lsap, loadsNow, annuls>>
  BY DEF Dispatch
<1>2. At(i) \in Entry /\ At(i).rs < i /\ (At(i).rs # 0 => IsStore(At(i).rs)) /\ loadsNow \subseteq Chunk
  BY QueueFacts DEF TypeOK
<1>3. FenceBefore(i) \in Nat /\ FenceBefore(i) < i /\ (FenceBefore(i) # 0 => FenceBefore(i) \in S)
  <2>1. S \in SUBSET Older(i) /\ FenceBefore(i) = Nearest(S)
    BY DEF FenceBefore
  <2> HIDE DEF S
  <2> QED
    BY <2>1, ScanFacts
<1>4. FenceBefore(i) # 0 => IsStore(FenceBefore(i))
  BY <1>3 DEF IsFence, IsStore
<1>5. e \in Entry /\ (e.rs = IF FenceBefore(i) # 0 THEN FenceBefore(i) ELSE At(i).rs)
  BY <1>2, <1>3 DEF Entry, State
<1>6. /\ e.state = "queued" /\ e.issued = At(i).issued /\ e.addrvalid = At(i).addrvalid
      /\ e.datavalid = At(i).datavalid /\ e.physaddr = At(i).physaddr /\ e.data = At(i).data
      /\ e.bytemask = At(i).bytemask
  BY <1>2 DEF Entry
<1> HIDE DEF e
<1>7. Becomes(i, e)
  BY <1>1, <1>2, <1>3, <1>4, <1>5 DEF Becomes
<1> QED
  BY <1>5, <1>6, <1>7

\* The scans of issueload() and issuestore().
LEMMA LoadScan ==
  ASSUME TypeOK, NEW i \in InFlight, NEW sfra, sfra = LoadSfra(i)
  PROVE  /\ sfra \in Nat /\ sfra < i /\ (sfra # 0 => IsStore(sfra) /\ sfra \in Older(i))
         /\ sfra # 0 => IF At(sfra).addrvalid THEN ~ IsFence(sfra) /\ At(sfra).physaddr = PhysAddr(i)
                        ELSE prog[sfra].lfence \/ (~ IsFence(sfra) /\ KnownToAlias(i))
         /\ \A j \in Older(i) :
              IsStore(j) /\ At(j).addrvalid /\ ~ IsFence(j) /\ At(j).physaddr = PhysAddr(i) => sfra # 0 /\ j <= sfra
<1> DEFINE S == {j \in Older(i) :
             /\ IsStore(j)
             /\ IF At(j).addrvalid THEN ~ IsFence(j) /\ At(j).physaddr = PhysAddr(i)
                ELSE prog[j].lfence \/ (~ IsFence(j) /\ KnownToAlias(i))}
<1>1. S \in SUBSET Older(i) /\ sfra = Nearest(S)
  BY DEF LoadSfra
<1>2. /\ sfra \in Nat /\ sfra < i
      /\ sfra # 0 <=> S # {}
      /\ sfra # 0 => sfra \in S /\ \A y \in S : y <= sfra
  <2> HIDE DEF S
  <2> QED
    BY <1>1, ScanFacts
<1>3. ASSUME NEW j \in Older(i), IsStore(j), At(j).addrvalid, ~ IsFence(j), At(j).physaddr = PhysAddr(i)
      PROVE  sfra # 0 /\ j <= sfra
  <2>1. j \in S
    BY <1>3
  <2> QED
    BY <1>2, <2>1
<1>4. sfra # 0 => sfra \in Older(i) /\ IsStore(sfra)
  BY <1>2
<1> QED
  BY <1>2, <1>3, <1>4

LEMMA StoreScan ==
  ASSUME TypeOK, NEW i \in InFlight, NEW sfra, sfra = StoreSfra(i)
  PROVE  /\ sfra \in Nat /\ sfra < i /\ (sfra # 0 => IsStore(sfra) /\ sfra \in Older(i))
         /\ sfra # 0 => IF At(sfra).addrvalid THEN ~ IsFence(sfra) /\ At(sfra).physaddr = PhysAddr(i)
                        ELSE ~ IsFence(sfra) \/ prog[sfra].sfence
         /\ \A j \in Older(i) :
              IsStore(j) /\ ~ IsFence(j) /\ (At(j).addrvalid => At(j).physaddr = PhysAddr(i)) => sfra # 0 /\ j <= sfra
<1> DEFINE S == {j \in Older(i) :
             /\ IsStore(j)
             /\ IF At(j).addrvalid THEN ~ IsFence(j) /\ At(j).physaddr = PhysAddr(i)
                ELSE ~ IsFence(j) \/ prog[j].sfence}
<1>1. S \in SUBSET Older(i) /\ sfra = Nearest(S)
  BY DEF StoreSfra
<1>2. /\ sfra \in Nat /\ sfra < i
      /\ sfra # 0 <=> S # {}
      /\ sfra # 0 => sfra \in S /\ \A y \in S : y <= sfra
  <2> HIDE DEF S
  <2> QED
    BY <1>1, ScanFacts
<1>3. ASSUME NEW j \in Older(i), IsStore(j), ~ IsFence(j), At(j).addrvalid => At(j).physaddr = PhysAddr(i)
      PROVE  sfra # 0 /\ j <= sfra
  <2>1. j \in S
    BY <1>3
  <2> QED
    BY <1>2, <2>1
<1>4. sfra # 0 => sfra \in Older(i) /\ IsStore(sfra)
  BY <1>2
<1> QED
  BY <1>2, <1>3, <1>4

\* The address of uop i is known, but it has to be tried again.
LEMMA ReplayBecomes ==
  ASSUME TypeOK, NEW i \in InFlight, At(i).state = "queued", LoadReplays(i) \/ StoreReplays(i) \/ StoreParallel(i)
  PROVE  \E e : /\ Becomes(i, e) /\ e.state = "queued" /\ e.issued = At(i).issued /\ e.addrvalid = TRUE
                /\ e.datavalid = FALSE /\ e.physaddr = PhysAddr(i) /\ e.data = At(i).data
                /\ e.bytemask = At(i).bytemask
<1> DEFINE sfra == IF IsLoad(i) THEN LoadSfra(i) ELSE StoreSfra(i)
<1>1. sfra \in Nat /\ sfra < i /\ (sfra # 0 => IsStore(sfra)) /\ loadsNow \subseteq Chunk
  BY LoadScan, StoreScan DEF TypeOK
<1>2. PICK e : /\ Replay(i, e)
               /\ e = Addressed(i, sfra) \/ e = [Addressed(i, sfra) EXCEPT !.second = TRUE]
  BY DEF LoadReplays, StoreReplays, StoreParallel, IsLoad
<1> HIDE DEF sfra
<1>3. /\ e \in Entry /\ e.rs = sfra /\ e.state = At(i).state /\ e.issued = At(i).issued /\ e.addrvalid = TRUE
      /\ e.datavalid = FALSE /\ e.physaddr = PhysAddr(i) /\ e.data = At(i).data
      /\ e.bytemask = At(i).bytemask
  <2> DEFINE a == Addressed(i, sfra)
  <2>1. /\ a \in Entry
        /\ a.state = At(i).state /\ a.issued = At(i).issued /\ a.addrvalid = TRUE /\ a.datavalid = FALSE
        /\ a.physaddr = PhysAddr(i) /\ a.rs = sfra /\ a.data = At(i).data /\ a.bytemask = At(i).bytemask
    BY <1>1, AddressedEntry
  <2>2. e = a \/ e = [a EXCEPT !.second = TRUE]
    BY <1>2
  <2> HIDE DEF a
  <2> QED
    BY <2>1, <2>2 DEF Entry
<1>4. Becomes(i, e)
  BY <1>1, <1>2, <1>3 DEF Becomes, Replay
<1> QED
  BY <1>3, <1>4

LEMMA LoadIssuesBecomes ==
  ASSUME TypeOK, NEW i \in InFlight, LoadIssues(i), NEW sfra, sfra = LoadSfra(i)
  PROVE  \E e : /\ Becomes(i, e) /\ e.state \in {"executing", "miss"} /\ e.issued = TRUE /\ e.addrvalid = TRUE
                /\ e.physaddr = PhysAddr(i)
                /\ e.data = Extract(IF sfra = 0 THEN memory[PhysAddr(i)]
                                    ELSE Merge(memory[PhysAddr(i)], At(sfra).data, At(sfra).bytemask), prog[i].bytes)
<1> DEFINE forwarded == IF sfra = 0 THEN {} ELSE At(sfra).bytemask
           word == IF sfra = 0 THEN memory[PhysAddr(i)] ELSE Merge(memory[PhysAddr(i)], At(sfra).data, forwarded)
           a == Addressed(i, sfra)
           d == Extract(word, prog[i].bytes)
           x == [a EXCEPT !.issued = TRUE, !.data = d, !.bytemask = Byte]
<1>1. PICK e : /\ Set(i, e) /\ UNCHANGED <<prog, head, memory, loaded, lsap, annuls>>
               /\ loadsNow' = loadsNow \cup {PhysAddr(i)}
               /\ \/ e = [x EXCEPT !.state = "executing", !.datavalid = TRUE, !.second = TRUE]
                  \/ e = [x EXCEPT !.state = "miss"]
  BY DEF LoadIssues
<1>2. sfra \in Nat /\ sfra < i /\ (sfra # 0 => IsStore(sfra) /\ sfra \in InFlight)
  BY LoadScan DEF Older
<1>3. PhysAddr(i) \in Chunk /\ loadsNow \subseteq Chunk /\ memory \in [Chunk -> Word]
  BY PhysAddrType DEF TypeOK
<1>4. d \in Word
  <2>1. sfra # 0 => At(sfra).data \in Word
    BY <1>2, QueueFacts DEF Entry
  <2>2. word \in Word
    BY <1>3, <2>1, WordFacts
  <2> HIDE DEF word
  <2> QED
    BY <2>2, WordFacts
<1>5. a \in Entry /\ a.addrvalid = TRUE /\ a.physaddr = PhysAddr(i) /\ a.rs = sfra
  BY <1>2, AddressedEntry
<1>6. /\ e \in Entry /\ e.rs = sfra /\ e.state \in {"executing", "miss"} /\ e.issued = TRUE /\ e.addrvalid = TRUE
      /\ e.physaddr = PhysAddr(i) /\ e.data = d
  <2> HIDE DEF a, d
  <2> QED
    BY <1>1, <1>4, <1>5 DEF Entry, State
<1>7. Becomes(i, e)
  BY <1>1, <1>2, <1>3, <1>6 DEF Becomes
<1> QED
  BY <1>6, <1>7

LEMMA StoreIssuesBecomes ==
  ASSUME TypeOK, NEW i \in InFlight, StoreIssues(i), NEW sfra, sfra = StoreSfra(i)
  PROVE  \E e : /\ Becomes(i, e) /\ e.state = "executing" /\ e.issued = TRUE /\ e.addrvalid = TRUE
                /\ e.datavalid = TRUE /\ e.physaddr = PhysAddr(i)
                /\ e.data = Merge(IF sfra = 0 THEN Zero ELSE At(sfra).data,
                                  StoreWord(prog[i], i, Value(prog[i].rc)), prog[i].bytes)
                /\ e.bytemask = (IF sfra = 0 THEN {} ELSE At(sfra).bytemask) \cup prog[i].bytes
<1> DEFINE below == IF sfra = 0 THEN Zero ELSE At(sfra).data
           mask == IF sfra = 0 THEN {} ELSE At(sfra).bytemask
           rc == StoreWord(prog[i], i, Value(prog[i].rc))
           a == Addressed(i, sfra)
           d == Merge(below, rc, prog[i].bytes)
           m == mask \cup prog[i].bytes
<1>1. PICK e : /\ Set(i, e) /\ UNCHANGED <<prog, head, memory, loaded, lsap, loadsNow, annuls>>
               /\ e = [a EXCEPT !.state = "executing", !.issued = TRUE, !.datavalid = TRUE, !.second = TRUE,
                                !.data = d, !.bytemask = m]
  BY DEF StoreIssues
<1>2. sfra \in Nat /\ sfra < i /\ (sfra # 0 => IsStore(sfra) /\ sfra \in InFlight)
  BY StoreScan DEF Older
<1>3. loadsNow \subseteq Chunk
  BY DEF TypeOK
<1>4. d \in Word /\ m \in SUBSET Byte
  <2>1. sfra # 0 => At(sfra).data \in Word /\ At(sfra).bytemask \in SUBSET Byte
    BY <1>2, QueueFacts DEF Entry
  <2>2. below \in Word
    BY <2>1, WordFacts
  <2>3. prog[i] \in Uop /\ i \in Nat /\ Value(prog[i].rc) \in Word
    BY QueueFacts, OperandFacts
  <2>4. rc \in Word
    BY <2>3, WordFacts
  <2>5. m \in SUBSET Byte
    BY <2>1, <2>3 DEF Uop
  <2> HIDE DEF below, rc
  <2> QED
    BY <2>2, <2>4, <2>5, WordFacts
<1>5. a \in Entry /\ a.addrvalid = TRUE /\ a.physaddr = PhysAddr(i) /\ a.rs = sfra
  BY <1>2, AddressedEntry
<1>6. /\ e \in Entry /\ e.rs = sfra /\ e.state = "executing" /\ e.issued = TRUE /\ e.addrvalid = TRUE
      /\ e.datavalid = TRUE /\ e.physaddr = PhysAddr(i) /\ e.data = d /\ e.bytemask = m
  <2> HIDE DEF a, d, m
  <2> QED
    BY <1>1, <1>4, <1>5 DEF Entry, State
<1>7. Becomes(i, e)
  BY <1>1, <1>2, <1>3, <1>6 DEF Becomes
<1> QED
  BY <1>6, <1>7

LEMMA FenceIssuesBecomes ==
  ASSUME TypeOK, NEW i \in InFlight, FenceIssues(i)
  PROVE  \E e : /\ Becomes(i, e) /\ e.state = "fence" /\ e.issued = TRUE /\ e.addrvalid = FALSE
<1>1. PICK e : /\ Set(i, e) /\ UNCHANGED <<prog, head, memory, loaded, lsap, loadsNow, annuls>>
               /\ e = [At(i) EXCEPT !.state = "fence", !.issued = TRUE, !.addrvalid = FALSE, !.datavalid = FALSE,
                                    !.data = Zero, !.bytemask = Byte]
  BY DEF FenceIssues
<1>2. At(i) \in Entry /\ At(i).rs < i /\ (At(i).rs # 0 => IsStore(At(i).rs)) /\ loadsNow \subseteq Chunk
  BY QueueFacts DEF TypeOK
<1>3. e \in Entry /\ e.state = "fence" /\ e.issued = TRUE /\ e.addrvalid = FALSE /\ e.rs = At(i).rs
  BY <1>1, <1>2, WordFacts DEF Entry, State
<1>4. Becomes(i, e)
  BY <1>1, <1>2, <1>3 DEF Becomes
<1> QED
  BY <1>3, <1>4

\* A uop completes: its latency has passed, its line has arrived, or, a fence, it is at the head.
LEMMA CompletesBecomes ==
  ASSUME TypeOK, NEW i \in InFlight, Complete(i) \/ LoadWakeup(i) \/ FenceWakeup(i)
  PROVE  \E e : /\ Becomes(i, e) /\ e.state = "completed" /\ e.issued = At(i).issued
                /\ e.addrvalid = (At(i).addrvalid \/ FenceWakeup(i))
                /\ e.datavalid = (At(i).datavalid \/ ~ Complete(i))
                /\ e.physaddr = At(i).physaddr /\ e.data = At(i).data /\ e.bytemask = At(i).bytemask
<1>1. PICK e : /\ Set(i, e) /\ UNCHANGED <<prog, head, memory, loaded, lsap, loadsNow, annuls>>
               /\ \/ Complete(i) /\ e = [At(i) EXCEPT !.state = "completed"]
                  \/ LoadWakeup(i) /\ e = [At(i) EXCEPT !.state = "completed", !.datavalid = TRUE]
                  \/ /\ FenceWakeup(i)
                     /\ e = [At(i) EXCEPT !.state = "completed", !.addrvalid = TRUE, !.datavalid = TRUE, !.second = TRUE]
  BY DEF Complete, LoadWakeup, FenceWakeup
<1>2. /\ Complete(i) => At(i).state = "executing"
      /\ LoadWakeup(i) => At(i).state = "miss"
      /\ FenceWakeup(i) => At(i).state = "fence"
  BY DEF Complete, LoadWakeup, FenceWakeup
<1>3. At(i) \in Entry /\ At(i).rs < i /\ (At(i).rs # 0 => IsStore(At(i).rs)) /\ loadsNow \subseteq Chunk
  BY QueueFacts DEF TypeOK
<1>4. /\ e \in Entry /\ e.rs = At(i).rs /\ e.state = "completed" /\ e.issued = At(i).issued
      /\ e.physaddr = At(i).physaddr /\ e.data = At(i).data /\ e.bytemask = At(i).bytemask
  BY <1>1, <1>3 DEF Entry, State
<1>5. /\ e.addrvalid = (At(i).addrvalid \/ FenceWakeup(i))
      /\ e.datavalid = (At(i).datavalid \/ ~ Complete(i))
  <2>1. At(i).addrvalid \in BOOLEAN /\ At(i).datavalid \in BOOLEAN
    BY <1>3 DEF Entry
  <2>2. CASE Complete(i)
    <3>1. ~ FenceWakeup(i) /\ ~ LoadWakeup(i)
      BY <1>2, <2>2
    <3>2. e.addrvalid = At(i).addrvalid /\ e.datavalid = At(i).datavalid
      BY <1>1, <1>3, <3>1 DEF Entry
    <3> QED
      BY <2>1, <2>2, <3>1, <3>2
  <2>3. CASE LoadWakeup(i)
    <3>1. ~ FenceWakeup(i) /\ ~ Complete(i)
      BY <1>2, <2>3
    <3>2. e.addrvalid = At(i).addrvalid /\ e.datavalid = TRUE
      BY <1>1, <1>3, <3>1 DEF Entry
    <3> QED
      BY <2>1, <2>3, <3>1, <3>2
  <2>4. CASE FenceWakeup(i)
    <3>1. ~ LoadWakeup(i) /\ ~ Complete(i)
      BY <1>2, <2>4
    <3>2. e.addrvalid = TRUE /\ e.datavalid = TRUE
      BY <1>1, <1>3, <3>1 DEF Entry
    <3> QED
      BY <2>1, <2>4, <3>1, <3>2
  <2> QED
    BY <2>2, <2>3, <2>4
<1>6. Becomes(i, e)
  BY <1>1, <1>3, <1>4 DEF Becomes
<1> QED
  BY <1>4, <1>5, <1>6

-----------------------------------------------------------------------------
\* A step on one entry: the others.

\* Uop i may become e: what others rely on stays, a store issues behind no younger access to
\* its chunk, and a fence wakes at the head.
Held(i, e) ==
  /\ At(i).issued => e.issued /\ e.data = At(i).data /\ e.physaddr = At(i).physaddr /\ e.bytemask = At(i).bytemask
  /\ At(i).state = "completed" => e.state = "completed"
  /\ At(i).issued /\ At(i).datavalid => e.datavalid
  /\ At(i).addrvalid => e.addrvalid /\ (~ IsFence(i) => e.physaddr = At(i).physaddr)
  /\ IsSt(i) /\ e.issued /\ ~ At(i).issued =>
       \A j \in Younger(i) : At(j).issued /\ ~ IsFence(j) => At(j).physaddr # e.physaddr
  /\ IsFence(i) /\ e.addrvalid /\ ~ At(i).addrvalid => i = head + 1

\* The frame of such a step.
LEMMA BecomesFrame ==
  ASSUME TypeOK, NEW i \in InFlight, NEW e, Becomes(i, e)
  PROVE  /\ InFlight' = InFlight /\ At(i)' = e /\ (\A j \in InFlight : j # i => At(j)' = At(j))
         /\ prog' = prog /\ head' = head /\ memory' = memory /\ loaded' = loaded
         /\ \A j : /\ IsLoad(j)' <=> IsLoad(j)
                   /\ IsSt(j)' <=> IsSt(j)
                   /\ IsFence(j)' <=> IsFence(j)
                   /\ Older(j)' = Older(j)
<1>1. Set(i, e) /\ UNCHANGED <<prog, head, memory, loaded>> /\ e \in Entry
  BY DEF Becomes
<1>2. InFlight' = InFlight /\ At(i)' = e /\ \A j \in InFlight : j # i => At(j)' = At(j)
  BY <1>1, SetStep
<1>3. ASSUME NEW j
      PROVE  /\ IsLoad(j)' <=> IsLoad(j)
             /\ IsSt(j)' <=> IsSt(j)
             /\ IsFence(j)' <=> IsFence(j)
             /\ Older(j)' = Older(j)
  BY <1>1, <1>2 DEF IsLoad, IsSt, IsFence, Older
<1> QED
  BY <1>1, <1>2, <1>3

LEMMA OperandKept ==
  ASSUME QueueInv, NEW i \in InFlight, NEW e, Becomes(i, e), Held(i, e), NEW o
  PROVE  /\ Completed(o) => Completed(o)'
         /\ Ready(o) => Ready(o)'
         /\ Completed(o) \/ Ready(o) => Value(o)' = Value(o)
<1>1. /\ InFlight' = InFlight /\ At(i)' = e /\ (\A j \in InFlight : j # i => At(j)' = At(j))
      /\ loaded' = loaded
  BY BecomesFrame DEF QueueInv
<1>2. CASE o \notin InFlight
  BY <1>1, <1>2 DEF Completed, Ready, Value
<1>3. CASE o \in InFlight /\ o # i
  BY <1>1, <1>3 DEF Completed, Ready, Value
<1>4. CASE o \in InFlight /\ o = i
  <2>1. At(i).state = "completed" => At(i).issued
    <3>1. StateOk(i)
      BY DEF QueueInv, EntryOk
    <3> QED
      BY <3>1 DEF StateOk
  <2>2. Completed(o) => Completed(o)'
    BY <1>1, <1>4 DEF Completed, Held
  <2>3. Ready(o) => Ready(o)'
    BY <1>1, <1>4 DEF Ready, Held
  <2>4. ASSUME Completed(o) \/ Ready(o) PROVE Value(o)' = Value(o)
    <3>1. At(i).issued
      BY <1>4, <2>1, <2>4 DEF Completed, Ready
    <3>2. At(o)'.data = At(o).data
      BY <1>1, <1>4, <3>1 DEF Held
    <3> QED
      BY <1>1, <1>4, <3>2 DEF Value
  <2> QED
    BY <2>2, <2>3, <2>4
<1> QED
  BY <1>2, <1>3, <1>4

\* Images depend on memory and on the issued stores in front only.
LEMMA ImageSame ==
  ASSUME TypeOK, NEW k \in InFlight, NEW c, memory'[c] = memory[c], Sources(k, c)' = Sources(k, c),
         \A q \in Sources(k, c) : At(q)'.data = At(q).data /\ At(q)'.bytemask = At(q).bytemask
  PROVE  Image(k, c)' = Image(k, c)
<1>1. Sources(k, c) \in SUBSET Older(k)
  BY DEF Sources
<1>2. CASE Sources(k, c) = {}
  BY <1>2 DEF Image
<1>3. CASE Sources(k, c) # {}
  <2>0. PICK n : n = Nearest(Sources(k, c))
    OBVIOUS
  <2>1. n \in Sources(k, c)
    BY <1>1, <1>3, <2>0, ScanFacts
  <2>2. At(n)'.data = At(n).data /\ At(n)'.bytemask = At(n).bytemask
    BY <2>1
  <2>3. Nearest(Sources(k, c))' = n
    BY <2>0 DEF Nearest
  <2>4. Image(k, c) = Merge(memory[c], At(n).data, At(n).bytemask)
    BY <1>3, <2>0 DEF Image
  <2>5. Image(k, c)' = Merge(memory[c], At(n)'.data, At(n)'.bytemask)
    <3>1. At(Nearest(Sources(k, c)))' = At(n)'
      BY <2>3 DEF At
    <3>2. Image(k, c)' = Merge(memory[c], At(Nearest(Sources(k, c))).data, At(Nearest(Sources(k, c))).bytemask)'
      BY <1>3 DEF Image
    <3> QED
      BY <3>1, <3>2 DEF Merge
  <2> QED
    BY <2>2, <2>4, <2>5
<1> QED
  BY <1>2, <1>3

LEMMA ImageKept ==
  ASSUME QueueInv, NEW i \in InFlight, NEW e, Becomes(i, e), Held(i, e), NEW k \in InFlight, NEW c,
         i < k /\ IsSt(i) /\ e.issued /\ e.physaddr = c => At(i).issued
  PROVE  Image(k, c)' = Image(k, c)
<1>1. /\ InFlight' = InFlight /\ At(i)' = e /\ (\A j \in InFlight : j # i => At(j)' = At(j))
      /\ memory' = memory
      /\ \A j : (IsSt(j)' <=> IsSt(j)) /\ Older(j)' = Older(j)
  BY BecomesFrame DEF QueueInv
<1>2. ASSUME NEW q \in Older(k)
      PROVE  IsSt(q)' /\ At(q)'.issued /\ At(q)'.physaddr = c <=> IsSt(q) /\ At(q).issued /\ At(q).physaddr = c
  <2>1. q \in InFlight /\ q < k
    BY DEF Older
  <2>2. CASE q # i
    BY <1>1, <2>1, <2>2
  <2>3. CASE q = i
    BY <1>1, <2>1, <2>3 DEF Held
  <2> QED
    BY <2>2, <2>3
<1>3. Sources(k, c)' = Sources(k, c)
  BY <1>1, <1>2 DEF Sources
<1>4. ASSUME NEW q \in Sources(k, c) PROVE At(q)'.data = At(q).data /\ At(q)'.bytemask = At(q).bytemask
  <2>1. q \in InFlight /\ At(q).issued
    BY DEF Sources, Older
  <2> QED
    BY <1>1, <2>1 DEF Held
<1>5. TypeOK
  BY DEF QueueInv
<1> QED
  BY <1>1, <1>3, <1>4, <1>5, ImageSame

LEMMA OthersStay ==
  ASSUME QueueInv, NEW i \in InFlight, NEW e, Becomes(i, e), Held(i, e), NEW j \in InFlight, j # i
  PROVE  EntryOk(j)'
<1>1. /\ InFlight' = InFlight /\ At(i)' = e /\ (\A q \in InFlight : q # i => At(q)' = At(q))
      /\ prog' = prog /\ head' = head
      /\ \A q : /\ IsLoad(q)' <=> IsLoad(q)
                /\ IsSt(q)' <=> IsSt(q)
                /\ IsFence(q)' <=> IsFence(q)
                /\ Older(q)' = Older(q)
  BY BecomesFrame DEF QueueInv
<1>2. At(j)' = At(j)
  BY <1>1
<1>3. StateOk(j) /\ LoadOk(j) /\ OrderOk(j) /\ StoreOk(j) /\ FenceOk(j) /\ WaitOk(j)
  BY DEF QueueInv, EntryOk
<1>4. \A o : /\ Completed(o) => Completed(o)'
             /\ Ready(o) => Ready(o)'
             /\ Completed(o) \/ Ready(o) => Value(o)' = Value(o)
  BY OperandKept
<1>5. \A c : (i < j /\ IsSt(i) /\ e.issued /\ e.physaddr = c => At(i).issued) => Image(j, c)' = Image(j, c)
  BY ImageKept
<1>6. head \in Nat /\ \A q \in InFlight : q \in Nat /\ q > head
  BY QueueFacts DEF QueueInv
<1>7. At(j).issued /\ ~ IsFence(j) => Image(j, At(j).physaddr)' = Image(j, At(j).physaddr)
  <2> SUFFICES ASSUME At(j).issued, ~ IsFence(j) PROVE Image(j, At(j).physaddr)' = Image(j, At(j).physaddr)
    OBVIOUS
  <2>1. PICK c : c = At(j).physaddr
    OBVIOUS
  <2>2. i < j /\ IsSt(i) /\ e.issued /\ e.physaddr = c => At(i).issued
    BY <2>1 DEF Held, Younger
  <2>3. Image(j, c)' = Image(j, c)
    BY <1>5, <2>2
  <2>4. At(j)'.physaddr = c
    BY <1>2, <2>1
  <2>5. Image(j, At(j).physaddr)' = Image(j, c)'
    BY <2>4 DEF Image, Sources
  <2> QED
    BY <2>1, <2>3, <2>5
<1>8. StateOk(j)'
  <2>1. Completed(prog[j].ra) => Completed(prog[j].ra)' /\ PhysAddr(j)' = PhysAddr(j)
    <3>1. PICK o : o = prog[j].ra
      OBVIOUS
    <3>2. Completed(o) => Completed(o)' /\ Value(o)' = Value(o)
      BY <1>4
    <3>3. Completed(prog[j].ra)' <=> Completed(o)'
      BY <1>1, <3>1 DEF Completed
    <3>4. Value(prog[j].ra)' = Value(o)'
      BY <1>1, <3>1 DEF Value
    <3> QED
      BY <1>1, <3>1, <3>2, <3>3, <3>4 DEF PhysAddr
  <2>2. Ready(prog[j].rc) => Ready(prog[j].rc)'
    <3>1. PICK o : o = prog[j].rc
      OBVIOUS
    <3>2. Ready(prog[j].rc)' <=> Ready(o)'
      BY <1>1, <3>1 DEF Ready
    <3> QED
      BY <1>4, <3>1, <3>2
  <2> QED
    BY <1>1, <1>2, <1>3, <2>1, <2>2 DEF StateOk
<1>9. LoadOk(j)'
  <2>1. IsLoad(j) => ~ IsFence(j)
    BY DEF IsLoad, IsFence
  <2> QED
    BY <1>1, <1>2, <1>3, <1>7, <2>1 DEF LoadOk
<1>10. OrderOk(j)'
  <2> SUFFICES ASSUME IsSt(j), At(j).issued, NEW q \in Older(j), IsSt(q)
               PROVE  /\ At(q)'.addrvalid
                      /\ At(q)'.physaddr = At(j).physaddr => At(q)'.issued /\ At(q)'.bytemask \subseteq At(j).bytemask
    BY <1>1, <1>2 DEF OrderOk
  <2>1. /\ At(q).addrvalid /\ q \in InFlight /\ ~ IsFence(q)
        /\ At(q).physaddr = At(j).physaddr => At(q).issued /\ At(q).bytemask \subseteq At(j).bytemask
    BY <1>3 DEF OrderOk, Older, IsSt, IsFence
  <2>2. CASE q # i
    BY <1>1, <2>1, <2>2
  <2>3. CASE q = i
    <3>1. e.addrvalid /\ e.physaddr = At(i).physaddr
      BY <2>1, <2>3 DEF Held
    <3>2. At(i).issued => e.issued /\ e.bytemask = At(i).bytemask
      BY DEF Held
    <3> QED
      BY <1>1, <2>1, <2>3, <3>1, <3>2
  <2> QED
    BY <2>2, <2>3
<1>11. StoreOk(j)'
  <2> SUFFICES ASSUME IsSt(j), At(j).issued PROVE StoreOk(j)'
    BY <1>1, <1>2 DEF StoreOk
  <2>1. Image(j, At(j).physaddr)' = Image(j, At(j).physaddr)
    BY <1>7 DEF IsSt, IsFence
  <2>2. Value(prog[j].rc)' = Value(prog[j].rc)
    <3>1. PICK o : o = prog[j].rc
      OBVIOUS
    <3>2. Ready(o)
      BY <1>3, <3>1 DEF StateOk
    <3>3. Value(o)' = Value(o)
      BY <1>4, <3>2
    <3> QED
      BY <1>1, <3>1, <3>3 DEF Value
  <2> QED
    BY <1>1, <1>2, <1>3, <2>1, <2>2 DEF StoreOk
<1>12. FenceOk(j)'
  BY <1>1, <1>2, <1>3 DEF FenceOk
<1>13. WaitOk(j)'
  <2>3. PICK r : r = At(j).rs
    OBVIOUS
  <2> SUFFICES ASSUME NEW q \in Older(j), Stops(q, j), ~ At(q)'.addrvalid, At(j).state # "dispatch"
               PROVE  /\ At(j).state = "queued" /\ r \in Older(j) /\ q <= r
                      /\ IsFence(r) /\ ~ At(r)'.addrvalid
    <3>1. \A q : Stops(q, j)' <=> Stops(q, j)
      BY <1>1 DEF Stops
    <3>4. At(At(j).rs)' = At(r)' /\ (IsFence(At(j).rs)' <=> IsFence(r)) /\ At(j)'.rs = r
      BY <1>1, <1>2, <2>3 DEF At, IsFence
    <3>5. WaitOk(j)' = (\A q \in Older(j)' : Stops(q, j)' /\ ~ At(q)'.addrvalid /\ At(j)'.state # "dispatch" =>
                          /\ At(j)'.state = "queued" /\ At(j)'.rs \in Older(j)' /\ q <= At(j)'.rs
                          /\ IsFence(At(j).rs)' /\ ~ At(At(j).rs)'.addrvalid)
      BY DEF WaitOk
    <3> QED
      BY <1>1, <1>2, <3>1, <3>4, <3>5
  <2>1. q \in InFlight /\ IsFence(q) /\ q >= head + 1
    BY <1>6 DEF Older, Stops
  <2>2. ~ At(q).addrvalid
    <3>1. q # i => At(q)' = At(q)
      BY <1>1, <2>1
    <3>2. At(i).addrvalid => e.addrvalid
      BY DEF Held
    <3> QED
      BY <1>1, <3>1, <3>2
  <2>4. At(j).state = "queued" /\ r \in Older(j) /\ q <= r /\ IsFence(r) /\ ~ At(r).addrvalid
    BY <1>3, <2>2, <2>3 DEF WaitOk
  <2>5. ~ At(r)'.addrvalid
    <3>1. CASE r # i
      BY <1>1, <2>4, <3>1 DEF Older
    <3>2. CASE r = i
      <4>1. SUFFICES ASSUME e.addrvalid PROVE FALSE
        BY <1>1, <3>2
      <4>2. i = head + 1
        BY <2>4, <3>2, <4>1 DEF Held
      <4>3. q = i
        BY <1>6, <2>1, <2>4, <3>2, <4>2
      <4> QED
        BY <1>1, <4>1, <4>3
    <3> QED
      BY <3>1, <3>2
  <2> QED
    BY <2>3, <2>4, <2>5
<1> QED
  BY <1>8, <1>9, <1>10, <1>11, <1>12, <1>13 DEF EntryOk

-----------------------------------------------------------------------------
\* A step on one entry: the entry itself.

LEMMA OwnFacts ==
  ASSUME QueueInv, NEW i \in InFlight, NEW e, Becomes(i, e), Held(i, e)
  PROVE  /\ Completed(prog[i].ra) => Completed(prog[i].ra)' /\ PhysAddr(i)' = PhysAddr(i)
         /\ Ready(prog[i].rc) => Ready(prog[i].rc)' /\ Value(prog[i].rc)' = Value(prog[i].rc)
         /\ \A c : Image(i, c)' = Image(i, c)
         /\ \A q \in Older(i) : q \in InFlight /\ At(q)' = At(q)
<1>1. /\ prog' = prog
      /\ \A q \in InFlight : q # i => At(q)' = At(q)
  BY BecomesFrame DEF QueueInv
<1>2. i \in Nat
  BY QueueFacts DEF QueueInv
<1>3. Completed(prog[i].ra) => Completed(prog[i].ra)' /\ PhysAddr(i)' = PhysAddr(i)
  <2>1. PICK o : o = prog[i].ra
    OBVIOUS
  <2>2. Completed(o) => Completed(o)' /\ Value(o)' = Value(o)
    BY OperandKept
  <2>3. (Completed(prog[i].ra)' <=> Completed(o)') /\ Value(prog[i].ra)' = Value(o)'
    BY <1>1, <2>1 DEF Completed, Value
  <2> QED
    BY <1>1, <2>1, <2>2, <2>3 DEF PhysAddr
<1>4. Ready(prog[i].rc) => Ready(prog[i].rc)' /\ Value(prog[i].rc)' = Value(prog[i].rc)
  <2>1. PICK o : o = prog[i].rc
    OBVIOUS
  <2>2. Ready(o) => Ready(o)' /\ Value(o)' = Value(o)
    BY OperandKept
  <2>3. (Ready(prog[i].rc)' <=> Ready(o)') /\ Value(prog[i].rc)' = Value(o)'
    BY <1>1, <2>1 DEF Ready, Value
  <2> QED
    BY <2>1, <2>2, <2>3
<1>5. ASSUME NEW c PROVE Image(i, c)' = Image(i, c)
  BY <1>2, ImageKept
<1>6. ASSUME NEW q \in Older(i) PROVE q \in InFlight /\ At(q)' = At(q)
  BY <1>1, <1>2 DEF Older
<1> QED
  BY <1>3, <1>4, <1>5, <1>6

\* A uop that may issue has no fence in front of it that holds it back.
LEMMA NoFence ==
  ASSUME QueueInv, NEW i \in InFlight, MayIssue(i), NEW q \in Older(i), Stops(q, i)
  PROVE  At(q).addrvalid
<1> SUFFICES ASSUME ~ At(q).addrvalid PROVE FALSE
  OBVIOUS
<1>1. PICK r : r = At(i).rs
  OBVIOUS
<1>2. At(i).state = "queued" /\ Completed(r)
  BY <1>1 DEF MayIssue
<1>3. WaitOk(i)
  BY DEF QueueInv, EntryOk
<1>4. r \in Older(i) /\ IsFence(r) /\ ~ At(r).addrvalid
  BY <1>1, <1>2, <1>3 DEF WaitOk
<1>5. r \in InFlight
  BY <1>4 DEF Older
<1>6. FenceOk(r)
  BY <1>5 DEF QueueInv, EntryOk
<1> QED
  BY <1>2, <1>4, <1>5, <1>6 DEF FenceOk, Completed

\* The image a scan finds.
LEMMA ScanImage ==
  ASSUME QueueInv, NEW i \in InFlight, NEW c, NEW sfra,
         \A q \in Older(i) : IsSt(q) /\ At(q).addrvalid /\ At(q).physaddr = c => sfra # 0 /\ q <= sfra,
         sfra # 0 => sfra \in Older(i) /\ IsSt(sfra) /\ Resolved(sfra) /\ At(sfra).physaddr = c
  PROVE  /\ Image(i, c) = IF sfra = 0 THEN memory[c] ELSE Merge(memory[c], At(sfra).data, At(sfra).bytemask)
         /\ sfra # 0 => At(sfra).issued
<1>1. ASSUME NEW q \in InFlight, IsSt(q)
      PROVE  (At(q).issued => At(q).addrvalid) /\ (At(q).datavalid => At(q).issued)
  <2>1. StateOk(q)
    BY DEF QueueInv, EntryOk
  <2> QED
    BY <1>1, <2>1 DEF StateOk, IsSt, IsFence
<1>2. \A q \in Sources(i, c) : sfra # 0 /\ q <= sfra
  BY <1>1 DEF Sources, Older
<1>3. sfra # 0 => At(sfra).issued /\ sfra \in Sources(i, c)
  BY <1>1 DEF Sources, Older, Resolved
<1>4. CASE sfra = 0
  <2>1. Sources(i, c) = {}
    BY <1>2, <1>4
  <2> QED
    BY <1>4, <2>1 DEF Image
<1>5. CASE sfra # 0
  <2>1. Len(prog) \in Nat /\ Sources(i, c) \in SUBSET (1..Len(prog))
    <3>1. Len(prog) \in Nat /\ InFlight \in SUBSET (1..Len(prog))
      BY QueueFacts DEF QueueInv
    <3> QED
      BY <3>1 DEF Sources, Older
  <2>2. Nearest(Sources(i, c)) = sfra
    BY <1>2, <1>3, <1>5, <2>1, NearestIs
  <2> QED
    BY <1>3, <1>5, <2>2 DEF Image
<1> QED
  BY <1>4, <1>5

LEMMA DispatchOk ==
  ASSUME QueueInv, NEW i \in InFlight, Dispatch(i)
  PROVE  \E e : Becomes(i, e) /\ Held(i, e) /\ EntryOk(i)'
<1>1. PICK e : /\ Becomes(i, e) /\ e.state = "queued" /\ e.issued = At(i).issued /\ e.addrvalid = At(i).addrvalid
               /\ e.datavalid = At(i).datavalid /\ e.physaddr = At(i).physaddr /\ e.data = At(i).data
               /\ e.bytemask = At(i).bytemask /\ (FenceBefore(i) # 0 => e.rs = FenceBefore(i))
  BY DispatchBecomes DEF QueueInv
<1>2. StateOk(i) /\ FenceOk(i) /\ At(i).state = "dispatch"
  BY DEF QueueInv, EntryOk, Dispatch
<1>3. ~ At(i).issued
  BY <1>2 DEF StateOk
<1>4. Held(i, e)
  BY <1>1, <1>2, <1>3 DEF Held
<1>5. /\ At(i)' = e /\ prog' = prog /\ head' = head
      /\ \A q : /\ IsLoad(q)' <=> IsLoad(q)
                /\ IsSt(q)' <=> IsSt(q)
                /\ IsFence(q)' <=> IsFence(q)
                /\ Older(q)' = Older(q)
  BY <1>1, BecomesFrame DEF QueueInv
<1>6. /\ Completed(prog[i].ra) => Completed(prog[i].ra)' /\ PhysAddr(i)' = PhysAddr(i)
      /\ \A q \in Older(i) : q \in InFlight /\ At(q)' = At(q)
  BY <1>1, <1>4, OwnFacts
<1>7. StateOk(i)'
  BY <1>1, <1>2, <1>3, <1>5, <1>6 DEF StateOk
<1>8. LoadOk(i)' /\ OrderOk(i)' /\ StoreOk(i)'
  BY <1>1, <1>3, <1>5 DEF LoadOk, OrderOk, StoreOk
<1>9. FenceOk(i)'
  BY <1>1, <1>2, <1>5 DEF FenceOk
<1>10. WaitOk(i)'
  <2>1. PICK r : r = FenceBefore(i)
    OBVIOUS
  <2> DEFINE S == {j \in Older(i) : /\ IsFence(j) /\ ~ At(j).addrvalid
                                  /\ \/ IsLoad(i) /\ prog[j].lfence
                                     \/ prog[i].op = "st" /\ prog[j].sfence}
  <2>2. S \in SUBSET Older(i) /\ r = Nearest(S)
    BY <2>1 DEF FenceBefore
  <2>3. (r # 0 <=> S # {}) /\ (r # 0 => r \in S /\ \A y \in S : y <= r)
    <3> HIDE DEF S
    <3> QED
      BY <2>2, ScanFacts DEF QueueInv
  <2> SUFFICES ASSUME NEW q \in Older(i), Stops(q, i), ~ At(q).addrvalid
               PROVE  r # 0 /\ r \in Older(i) /\ q <= r /\ IsFence(r) /\ ~ At(r).addrvalid
    <3>1. \A q : Stops(q, i)' <=> Stops(q, i)
      BY <1>5 DEF Stops
    <3>2. r # 0 => At(i)'.rs = r
      BY <1>1, <1>5, <2>1
    <3>3. r # 0 => At(At(i).rs)' = At(r)' /\ (IsFence(At(i).rs)' <=> IsFence(r))
      BY <1>5, <3>2 DEF At, IsFence
    <3>4. WaitOk(i)' = (\A q \in Older(i)' : Stops(q, i)' /\ ~ At(q)'.addrvalid /\ At(i)'.state # "dispatch" =>
                          /\ At(i)'.state = "queued" /\ At(i)'.rs \in Older(i)' /\ q <= At(i)'.rs
                          /\ IsFence(At(i).rs)' /\ ~ At(At(i).rs)'.addrvalid)
      BY DEF WaitOk
    <3> QED
      BY <1>1, <1>5, <1>6, <3>1, <3>2, <3>3, <3>4
  <2>4. q \in S
    BY DEF Stops, IsSt
  <2> QED
    BY <2>3, <2>4
<1> QED
  BY <1>1, <1>4, <1>7, <1>8, <1>9, <1>10 DEF EntryOk

LEMMA ClearWait ==
  ASSUME QueueInv, NEW i \in InFlight, NEW e, Becomes(i, e), Held(i, e),
         \A q \in Older(i) : Stops(q, i) => At(q).addrvalid
  PROVE  WaitOk(i)'
<1>1. prog' = prog /\ \A q : (IsLoad(q)' <=> IsLoad(q)) /\ (IsSt(q)' <=> IsSt(q)) /\ (IsFence(q)' <=> IsFence(q))
                             /\ Older(q)' = Older(q)
  BY BecomesFrame DEF QueueInv
<1>2. \A q \in Older(i) : At(q)' = At(q)
  BY OwnFacts
<1>3. \A q : Stops(q, i)' <=> Stops(q, i)
  BY <1>1 DEF Stops
<1> QED
  BY <1>1, <1>2, <1>3 DEF WaitOk

LEMMA ReplayOk ==
  ASSUME QueueInv, NEW i \in InFlight, LoadReplays(i) \/ StoreReplays(i) \/ StoreParallel(i)
  PROVE  \E e : Becomes(i, e) /\ Held(i, e) /\ EntryOk(i)'
<1>1. /\ MayIssue(i) /\ At(i).state = "queued" /\ Completed(prog[i].ra)
      /\ ~ IsFence(i)
  BY DEF LoadReplays, StoreReplays, StoreParallel, MayIssue, IsLoad, IsFence
<1>2. PICK e : /\ Becomes(i, e) /\ e.state = "queued" /\ e.issued = At(i).issued /\ e.addrvalid = TRUE
               /\ e.datavalid = FALSE /\ e.physaddr = PhysAddr(i)
  BY <1>1, ReplayBecomes DEF QueueInv
<1>3. StateOk(i)
  BY DEF QueueInv, EntryOk
<1>4. ~ At(i).issued /\ (At(i).addrvalid => At(i).physaddr = PhysAddr(i))
  BY <1>1, <1>3 DEF StateOk
<1>5. Held(i, e)
  BY <1>1, <1>2, <1>4 DEF Held
<1>6. /\ At(i)' = e /\ prog' = prog
      /\ \A q : /\ IsLoad(q)' <=> IsLoad(q)
                /\ IsSt(q)' <=> IsSt(q)
                /\ IsFence(q)' <=> IsFence(q)
  BY <1>2, BecomesFrame DEF QueueInv
<1>7. Completed(prog[i].ra)' /\ PhysAddr(i)' = PhysAddr(i)
  BY <1>1, <1>2, <1>5, OwnFacts
<1>8. StateOk(i)'
  BY <1>1, <1>2, <1>4, <1>6, <1>7 DEF StateOk
<1>9. LoadOk(i)' /\ OrderOk(i)' /\ StoreOk(i)' /\ FenceOk(i)'
  BY <1>1, <1>2, <1>4, <1>6 DEF LoadOk, OrderOk, StoreOk, FenceOk
<1>10. WaitOk(i)'
  BY <1>1, <1>2, <1>5, NoFence, ClearWait
<1> QED
  BY <1>2, <1>5, <1>8, <1>9, <1>10 DEF EntryOk

LEMMA LoadIssuesOk ==
  ASSUME QueueInv, NEW i \in InFlight, LoadIssues(i)
  PROVE  \E e : Becomes(i, e) /\ Held(i, e) /\ EntryOk(i)'
<1>0. PICK sfra : sfra = LoadSfra(i)
  OBVIOUS
<1>1. /\ MayIssue(i) /\ At(i).state = "queued" /\ Completed(prog[i].ra)
      /\ IsLoad(i) /\ ~ IsFence(i) /\ ~ IsSt(i) /\ (sfra # 0 => Resolved(sfra))
  BY <1>0 DEF LoadIssues, MayIssue, IsLoad, IsFence, IsSt
<1>2. PICK c : c = PhysAddr(i)
  OBVIOUS
<1>3. PICK e : /\ Becomes(i, e) /\ e.state \in {"executing", "miss"} /\ e.issued = TRUE /\ e.addrvalid = TRUE
               /\ e.physaddr = c
               /\ e.data = Extract(IF sfra = 0 THEN memory[c]
                                   ELSE Merge(memory[c], At(sfra).data, At(sfra).bytemask), prog[i].bytes)
  BY <1>0, <1>2, LoadIssuesBecomes DEF QueueInv
<1>4. StateOk(i)
  BY DEF QueueInv, EntryOk
<1>5. ~ At(i).issued /\ (At(i).addrvalid => At(i).physaddr = c)
  BY <1>1, <1>2, <1>4 DEF StateOk
<1>6. Held(i, e)
  BY <1>1, <1>3, <1>5 DEF Held
<1>7. /\ At(i)' = e /\ prog' = prog
      /\ \A q : /\ IsLoad(q)' <=> IsLoad(q)
                /\ IsSt(q)' <=> IsSt(q)
                /\ IsFence(q)' <=> IsFence(q)
  BY <1>3, BecomesFrame DEF QueueInv
<1>8. Completed(prog[i].ra)' /\ PhysAddr(i)' = PhysAddr(i) /\ Image(i, c)' = Image(i, c)
  BY <1>1, <1>3, <1>6, OwnFacts
<1>9. StateOk(i)'
  BY <1>1, <1>2, <1>3, <1>7, <1>8 DEF StateOk
<1>10. LoadOk(i)'
  <2>1. Image(i, c) = IF sfra = 0 THEN memory[c] ELSE Merge(memory[c], At(sfra).data, At(sfra).bytemask)
    <3>1. /\ sfra # 0 => IsStore(sfra) /\ sfra \in Older(i)
          /\ sfra # 0 => IF At(sfra).addrvalid THEN ~ IsFence(sfra) /\ At(sfra).physaddr = c
                         ELSE prog[sfra].lfence \/ (~ IsFence(sfra) /\ KnownToAlias(i))
          /\ \A j \in Older(i) :
               IsStore(j) /\ At(j).addrvalid /\ ~ IsFence(j) /\ At(j).physaddr = c => sfra # 0 /\ j <= sfra
      BY <1>0, <1>2, LoadScan DEF QueueInv
    <3>2. ASSUME NEW q \in Older(i), IsSt(q), At(q).addrvalid, At(q).physaddr = c PROVE sfra # 0 /\ q <= sfra
      BY <3>1, <3>2 DEF IsSt, IsFence, IsStore
    <3>3. ASSUME sfra # 0 PROVE sfra \in Older(i) /\ IsSt(sfra) /\ Resolved(sfra) /\ At(sfra).physaddr = c
      <4>1. sfra \in Older(i) /\ IsStore(sfra) /\ ~ IsFence(sfra) /\ Resolved(sfra) /\ At(sfra).physaddr = c
        BY <1>1, <3>1, <3>3 DEF Resolved
      <4>2. prog[sfra] \in Uop
        BY <4>1, QueueFacts DEF Older, QueueInv
      <4> QED
        BY <4>1, <4>2 DEF IsStore, IsFence, IsSt, Uop
    <3> QED
      BY <3>2, <3>3, ScanImage
  <2>2. e.data = Extract(Image(i, c), prog[i].bytes)
    BY <1>3, <2>1
  <2>3. Image(i, At(i).physaddr)' = Image(i, c)'
    <3>1. At(i)'.physaddr = c
      BY <1>3, <1>7
    <3> QED
      BY <3>1 DEF Image, Sources
  <2> QED
    BY <1>7, <1>8, <2>2, <2>3 DEF LoadOk
<1>11. OrderOk(i)' /\ StoreOk(i)' /\ FenceOk(i)'
  BY <1>1, <1>7 DEF OrderOk, StoreOk, FenceOk
<1>12. WaitOk(i)'
  BY <1>1, <1>3, <1>6, NoFence, ClearWait
<1> QED
  BY <1>3, <1>6, <1>9, <1>10, <1>11, <1>12 DEF EntryOk

LEMMA FenceIssuesOk ==
  ASSUME QueueInv, NEW i \in InFlight, FenceIssues(i)
  PROVE  \E e : Becomes(i, e) /\ Held(i, e) /\ EntryOk(i)'
<1>1. At(i).state = "queued" /\ IsFence(i) /\ ~ IsLoad(i) /\ ~ IsSt(i)
  BY DEF FenceIssues, MayIssue, IsLoad, IsFence, IsSt
<1>2. PICK e : Becomes(i, e) /\ e.state = "fence" /\ e.issued = TRUE /\ e.addrvalid = FALSE
  BY FenceIssuesBecomes DEF QueueInv
<1>3. StateOk(i) /\ FenceOk(i)
  BY DEF QueueInv, EntryOk
<1>4. ~ At(i).issued /\ ~ At(i).addrvalid
  BY <1>1, <1>3 DEF StateOk, FenceOk
<1>5. Held(i, e)
  BY <1>1, <1>2, <1>4 DEF Held
<1>6. /\ At(i)' = e /\ prog' = prog
      /\ \A q : /\ IsLoad(q)' <=> IsLoad(q)
                /\ IsSt(q)' <=> IsSt(q)
                /\ IsFence(q)' <=> IsFence(q)
  BY <1>2, BecomesFrame DEF QueueInv
<1>7. StateOk(i)' /\ FenceOk(i)'
  BY <1>1, <1>2, <1>6 DEF StateOk, FenceOk
<1>8. LoadOk(i)' /\ OrderOk(i)' /\ StoreOk(i)'
  BY <1>1, <1>6 DEF LoadOk, OrderOk, StoreOk
<1>9. WaitOk(i)'
  BY <1>1, <1>6 DEF WaitOk, Stops
<1> QED
  BY <1>2, <1>5, <1>7, <1>8, <1>9 DEF EntryOk

LEMMA StoreIssuesOk ==
  ASSUME QueueInv, NEW i \in InFlight, StoreIssues(i)
  PROVE  \E e : Becomes(i, e) /\ Held(i, e) /\ EntryOk(i)'
<1>0. PICK sfra : sfra = StoreSfra(i)
  OBVIOUS
<1>1. /\ MayIssue(i) /\ At(i).state = "queued" /\ Completed(prog[i].ra)
      /\ IsSt(i) /\ ~ IsFence(i) /\ ~ IsLoad(i) /\ (sfra # 0 => Resolved(sfra))
      /\ Ready(prog[i].rc) /\ Aliased(i) = {}
  BY <1>0 DEF StoreIssues, StoreReady, MayIssue, IsLoad, IsFence, IsSt
<1>2. PICK c : c = PhysAddr(i)
  OBVIOUS
<1>3. PICK rc : rc = StoreWord(prog[i], i, Value(prog[i].rc))
  OBVIOUS
<1>4. PICK e : /\ Becomes(i, e) /\ e.state = "executing" /\ e.issued = TRUE /\ e.addrvalid = TRUE
               /\ e.datavalid = TRUE /\ e.physaddr = c
               /\ e.data = Merge(IF sfra = 0 THEN Zero ELSE At(sfra).data, rc, prog[i].bytes)
               /\ e.bytemask = (IF sfra = 0 THEN {} ELSE At(sfra).bytemask) \cup prog[i].bytes
  BY <1>0, <1>2, <1>3, StoreIssuesBecomes DEF QueueInv
<1>5. StateOk(i)
  BY DEF QueueInv, EntryOk
<1>6. ~ At(i).issued /\ (At(i).addrvalid => At(i).physaddr = c)
  BY <1>1, <1>2, <1>5 DEF StateOk
<1>7. ASSUME NEW j \in Younger(i), At(j).issued, ~ IsFence(j), At(j).physaddr = c PROVE FALSE
  <2>1. j \in InFlight /\ i < j /\ i \in Older(j)
    <3>1. j \in InFlight /\ j > i /\ i \in Nat /\ j \in Nat
      BY QueueFacts DEF Younger, QueueInv
    <3> QED
      BY <3>1 DEF Older
  <2>2. StateOk(j) /\ OrderOk(j) /\ prog[j] \in Uop
    BY <2>1, QueueFacts DEF QueueInv, EntryOk
  <2>3. At(j).addrvalid
    BY <1>7, <2>2 DEF StateOk
  <2>4. CASE IsLoad(j)
    <3>1. j \in Aliased(i)
      BY <1>2, <1>7, <2>3, <2>4 DEF Aliased
    <3> QED
      BY <1>1, <3>1
  <2>5. CASE IsSt(j)
    <3>1. At(i).addrvalid /\ (At(i).physaddr = At(j).physaddr => At(i).issued)
      BY <1>1, <1>7, <2>1, <2>2, <2>5 DEF OrderOk
    <3> QED
      BY <1>6, <1>7, <3>1
  <2> QED
    BY <1>7, <2>2, <2>4, <2>5 DEF IsLoad, IsSt, IsFence, Uop
<1>8. Held(i, e)
  BY <1>1, <1>4, <1>6, <1>7 DEF Held
<1>9. /\ At(i)' = e /\ prog' = prog
      /\ \A q : /\ IsLoad(q)' <=> IsLoad(q)
                /\ IsSt(q)' <=> IsSt(q)
                /\ IsFence(q)' <=> IsFence(q)
                /\ Older(q)' = Older(q)
  BY <1>4, BecomesFrame DEF QueueInv
<1>10. /\ Completed(prog[i].ra)' /\ PhysAddr(i)' = PhysAddr(i) /\ Image(i, c)' = Image(i, c)
       /\ Ready(prog[i].rc)' /\ Value(prog[i].rc)' = Value(prog[i].rc)
       /\ \A q \in Older(i) : q \in InFlight /\ At(q)' = At(q)
  BY <1>1, <1>4, <1>8, OwnFacts
<1>11. StateOk(i)'
  BY <1>1, <1>2, <1>4, <1>9, <1>10 DEF StateOk
<1>12. /\ sfra # 0 => sfra \in Older(i) /\ IsSt(sfra) /\ Resolved(sfra) /\ At(sfra).physaddr = c
       /\ \A q \in Older(i) : IsSt(q) /\ (At(q).addrvalid => At(q).physaddr = c) => sfra # 0 /\ q <= sfra
  <2>1. /\ sfra # 0 => IsStore(sfra) /\ sfra \in Older(i)
        /\ sfra # 0 => IF At(sfra).addrvalid THEN ~ IsFence(sfra) /\ At(sfra).physaddr = c
                       ELSE ~ IsFence(sfra) \/ prog[sfra].sfence
        /\ \A j \in Older(i) :
             IsStore(j) /\ ~ IsFence(j) /\ (At(j).addrvalid => At(j).physaddr = c) => sfra # 0 /\ j <= sfra
    BY <1>0, <1>2, StoreScan DEF QueueInv
  <2>2. ASSUME NEW q \in Older(i), IsSt(q), At(q).addrvalid => At(q).physaddr = c PROVE sfra # 0 /\ q <= sfra
    BY <2>1, <2>2 DEF IsSt, IsFence, IsStore
  <2>3. ASSUME sfra # 0 PROVE sfra \in Older(i) /\ IsSt(sfra) /\ Resolved(sfra) /\ At(sfra).physaddr = c
    <3>1. sfra \in Older(i) /\ IsStore(sfra) /\ ~ IsFence(sfra) /\ Resolved(sfra) /\ At(sfra).physaddr = c
      BY <1>1, <2>1, <2>3 DEF Resolved
    <3>2. prog[sfra] \in Uop
      BY <3>1, QueueFacts DEF Older, QueueInv
    <3> QED
      BY <3>1, <3>2 DEF IsStore, IsFence, IsSt, Uop
  <2> QED
    BY <2>2, <2>3
<1>13. /\ Image(i, c) = IF sfra = 0 THEN memory[c] ELSE Merge(memory[c], At(sfra).data, At(sfra).bytemask)
       /\ sfra # 0 => At(sfra).issued
  BY <1>12, ScanImage
<1>14. OrderOk(i)'
  <2> SUFFICES ASSUME NEW q \in Older(i), IsSt(q)
               PROVE  At(q).addrvalid /\ (At(q).physaddr = c => At(q).issued /\ At(q).bytemask \subseteq e.bytemask)
    BY <1>4, <1>9, <1>10 DEF OrderOk
  <2> SUFFICES ASSUME At(q).addrvalid => At(q).physaddr = c
               PROVE  At(q).addrvalid /\ At(q).issued /\ At(q).bytemask \subseteq e.bytemask
    OBVIOUS
  <2>1. sfra # 0 /\ q <= sfra
    BY <1>12
  <2>2. /\ sfra \in InFlight /\ IsSt(sfra) /\ At(sfra).addrvalid /\ At(sfra).issued /\ At(sfra).physaddr = c
        /\ At(sfra).bytemask \subseteq e.bytemask
    BY <1>4, <1>12, <1>13, <2>1 DEF Older, Resolved
  <2>3. CASE q = sfra
    BY <2>2, <2>3
  <2>4. CASE q # sfra
    <3>1. q \in InFlight /\ q < sfra
      <4>1. q \in InFlight /\ q \in Nat /\ sfra \in Nat
        BY <2>2, QueueFacts DEF Older, QueueInv
      <4> QED
        BY <2>1, <2>4, <4>1
    <3>2. OrderOk(sfra) /\ q \in Older(sfra)
      BY <2>2, <3>1 DEF QueueInv, EntryOk, Older
    <3>3. At(q).addrvalid /\ (At(q).physaddr = c => At(q).issued /\ At(q).bytemask \subseteq At(sfra).bytemask)
      BY <2>2, <3>2 DEF OrderOk
    <3> QED
      BY <2>2, <3>3
  <2> QED
    BY <2>3, <2>4
<1>15. StoreOk(i)'
  <2>1. Image(i, At(i).physaddr)' = Image(i, c)
    <3>1. At(i)'.physaddr = c
      BY <1>4, <1>9
    <3>2. Image(i, At(i).physaddr)' = Image(i, c)'
      BY <3>1 DEF Image, Sources
    <3> QED
      BY <1>10, <3>2
  <2>2. ASSUME NEW b \in e.bytemask PROVE e.data[b] = IF b \in prog[i].bytes THEN rc[b] ELSE Image(i, c)[b]
    <3>1. b \in Byte
      <4>1. e.bytemask \in SUBSET Byte
        BY <1>4 DEF Becomes, Entry
      <4> QED
        BY <4>1
    <3>2. e.data[b] = IF b \in prog[i].bytes THEN rc[b] ELSE (IF sfra = 0 THEN Zero ELSE At(sfra).data)[b]
      BY <1>4, <3>1 DEF Merge
    <3>3. b \notin prog[i].bytes => sfra # 0 /\ b \in At(sfra).bytemask
      BY <1>4
    <3>4. b \notin prog[i].bytes => Image(i, c)[b] = At(sfra).data[b]
      BY <1>13, <3>1, <3>3 DEF Merge
    <3> QED
      BY <3>2, <3>3, <3>4
  <2>3. StoreWord(prog[i], i, Value(prog[i].rc))' = rc
    BY <1>3, <1>9, <1>10 DEF StoreWord
  <2>4. prog[i].bytes \subseteq e.bytemask
    BY <1>4
  <2> QED
    BY <1>9, <2>1, <2>2, <2>3, <2>4 DEF StoreOk
<1>16. LoadOk(i)' /\ FenceOk(i)'
  BY <1>1, <1>9 DEF LoadOk, FenceOk
<1>17. WaitOk(i)'
  BY <1>1, <1>4, <1>8, NoFence, ClearWait
<1> QED
  BY <1>4, <1>8, <1>11, <1>14, <1>15, <1>16, <1>17 DEF EntryOk

LEMMA CompletesOk ==
  ASSUME QueueInv, NEW i \in InFlight, Complete(i) \/ LoadWakeup(i) \/ FenceWakeup(i)
  PROVE  \E e : Becomes(i, e) /\ Held(i, e) /\ EntryOk(i)'
<1>1. PICK e : /\ Becomes(i, e) /\ e.state = "completed" /\ e.issued = At(i).issued
               /\ e.addrvalid = (At(i).addrvalid \/ FenceWakeup(i))
               /\ e.datavalid = (At(i).datavalid \/ ~ Complete(i))
               /\ e.physaddr = At(i).physaddr /\ e.data = At(i).data /\ e.bytemask = At(i).bytemask
  BY CompletesBecomes DEF QueueInv
<1>2. StateOk(i) /\ LoadOk(i) /\ OrderOk(i) /\ StoreOk(i) /\ FenceOk(i) /\ WaitOk(i)
  BY DEF QueueInv, EntryOk
<1>3. /\ At(i).state \in {"executing", "miss", "fence"}
      /\ Complete(i) \/ LoadWakeup(i) => At(i).state # "fence"
      /\ FenceWakeup(i) => i = head + 1
  BY DEF Complete, LoadWakeup, FenceWakeup
<1>4. At(i).issued
  BY <1>2, <1>3 DEF StateOk
<1>5. IsFence(i) => FenceWakeup(i)
  BY <1>2, <1>3 DEF FenceOk
<1>6. ~ IsFence(i) => At(i).addrvalid
  BY <1>2, <1>4 DEF StateOk
<1>7. Held(i, e)
  <2>1. At(i).datavalid => e.datavalid
    BY <1>1
  <2>2. At(i).addrvalid => e.addrvalid
    BY <1>1
  <2> QED
    BY <1>1, <1>3, <1>4, <1>5, <2>1, <2>2 DEF Held
<1>8. /\ At(i)' = e /\ prog' = prog /\ head' = head
      /\ \A q : /\ IsLoad(q)' <=> IsLoad(q)
                /\ IsSt(q)' <=> IsSt(q)
                /\ IsFence(q)' <=> IsFence(q)
                /\ Older(q)' = Older(q)
  BY <1>1, BecomesFrame DEF QueueInv
<1>9. /\ Completed(prog[i].ra) => Completed(prog[i].ra)' /\ PhysAddr(i)' = PhysAddr(i)
      /\ Ready(prog[i].rc) => Ready(prog[i].rc)' /\ Value(prog[i].rc)' = Value(prog[i].rc)
      /\ \A c : Image(i, c)' = Image(i, c)
      /\ \A q \in Older(i) : q \in InFlight /\ At(q)' = At(q)
  BY <1>1, <1>7, OwnFacts
<1>10. Image(i, At(i).physaddr)' = Image(i, At(i).physaddr)
  <2>1. PICK c : c = At(i).physaddr
    OBVIOUS
  <2>2. At(i)'.physaddr = c
    BY <1>1, <1>8, <2>1
  <2>3. Image(i, At(i).physaddr)' = Image(i, c)'
    BY <2>2 DEF Image, Sources
  <2> QED
    BY <1>9, <2>1, <2>3
<1>11. StateOk(i)'
  <2>1. e.issued /\ e.addrvalid /\ (At(i).datavalid => e.datavalid)
    BY <1>1, <1>4, <1>5, <1>6
  <2> QED
    BY <1>1, <1>2, <1>4, <1>6, <1>8, <1>9, <2>1 DEF StateOk
<1>12. LoadOk(i)'
  BY <1>1, <1>2, <1>4, <1>8, <1>10 DEF LoadOk
<1>13. OrderOk(i)'
  BY <1>1, <1>2, <1>4, <1>8, <1>9 DEF OrderOk
<1>14. StoreOk(i)'
  <2>1. IsSt(i) => Ready(prog[i].rc)
    BY <1>2, <1>4 DEF StateOk
  <2> QED
    BY <1>1, <1>2, <1>4, <1>8, <1>9, <1>10, <2>1 DEF StoreOk
<1>15. FenceOk(i)'
  <2>1. IsFence(i) => e.addrvalid /\ i = head + 1
    BY <1>1, <1>3, <1>5
  <2> QED
    BY <1>1, <1>8, <2>1 DEF FenceOk
<1>16. WaitOk(i)'
  <2>1. \A q \in Older(i) : Stops(q, i) => At(q).addrvalid
    BY <1>2, <1>3 DEF WaitOk
  <2> QED
    BY <1>1, <1>7, <2>1, ClearWait
<1> QED
  BY <1>1, <1>7, <1>11, <1>12, <1>13, <1>14, <1>15, <1>16 DEF EntryOk

-----------------------------------------------------------------------------
\* Entries come and go at the young end.

\* Up to uop j nothing changes.
SameUpTo(j) ==
  /\ UNCHANGED <<prog, head, memory, loaded>>
  /\ \A q \in Nat : q <= j => (q \in InFlight' <=> q \in InFlight)
  /\ \A q \in InFlight : q <= j => At(q)' = At(q)

LEMMA OldStays == ASSUME QueueInv, NEW j \in InFlight, SameUpTo(j), InFlight' \in SUBSET Nat PROVE EntryOk(j)'
<1>1. prog' = prog /\ head' = head /\ memory' = memory /\ loaded' = loaded
  BY DEF SameUpTo
<1>2. j \in Nat /\ InFlight \in SUBSET Nat /\ \A q \in InFlight : q \in Nat
  BY QueueFacts DEF QueueInv
<1>3. At(j)' = At(j)
  BY <1>2 DEF SameUpTo
<1>4. Older(j)' = Older(j)
  <2>1. ASSUME NEW q PROVE q \in InFlight' /\ q < j <=> q \in InFlight /\ q < j
    <3>1. q \in Nat /\ q <= j => (q \in InFlight' <=> q \in InFlight)
      BY DEF SameUpTo
    <3>2. (q \in InFlight' => q \in Nat) /\ (q \in InFlight => q \in Nat)
      BY <1>2
    <3>3. q \in Nat /\ q < j => q <= j
      BY <1>2
    <3> QED
      BY <3>1, <3>2, <3>3
  <2> QED
    BY <2>1 DEF Older
<1>5. \A q \in Older(j) : q \in InFlight /\ At(q)' = At(q)
  BY <1>2 DEF Older, SameUpTo
<1>6. \A q : /\ IsLoad(q)' <=> IsLoad(q)
             /\ IsSt(q)' <=> IsSt(q)
             /\ IsFence(q)' <=> IsFence(q)
             /\ Stops(q, j)' <=> Stops(q, j)
  BY <1>1 DEF IsLoad, IsSt, IsFence, Stops
<1>7. StateOk(j) /\ LoadOk(j) /\ OrderOk(j) /\ StoreOk(j) /\ FenceOk(j) /\ WaitOk(j)
  BY DEF QueueInv, EntryOk
<1>8. ASSUME NEW o \in {prog[j].ra, prog[j].rc}
      PROVE  (Completed(o)' <=> Completed(o)) /\ (Ready(o)' <=> Ready(o)) /\ Value(o)' = Value(o)
  <2>1. o \in Nat /\ o <= j
    BY <1>2, OperandFacts DEF QueueInv
  <2>2. (o \in InFlight' <=> o \in InFlight) /\ (o \in InFlight => At(o)' = At(o))
    BY <2>1 DEF SameUpTo
  <2> QED
    BY <1>1, <2>2 DEF Completed, Ready, Value
<1>9. /\ Completed(prog[j].ra)' <=> Completed(prog[j].ra)
      /\ Value(prog[j].ra)' = Value(prog[j].ra)
      /\ Ready(prog[j].rc)' <=> Ready(prog[j].rc)
      /\ Value(prog[j].rc)' = Value(prog[j].rc)
  <2>1. PICK a : a = prog[j].ra
    OBVIOUS
  <2>2. PICK c : c = prog[j].rc
    OBVIOUS
  <2>3. (Completed(prog[j].ra)' <=> Completed(a)') /\ Value(prog[j].ra)' = Value(a)'
    BY <1>1, <2>1 DEF Completed, Value
  <2>4. (Ready(prog[j].rc)' <=> Ready(c)') /\ Value(prog[j].rc)' = Value(c)'
    BY <1>1, <2>2 DEF Ready, Value
  <2>5. (Completed(a)' <=> Completed(a)) /\ Value(a)' = Value(a) /\ (Ready(c)' <=> Ready(c)) /\ Value(c)' = Value(c)
    BY <1>8, <2>1, <2>2
  <2> QED
    BY <2>1, <2>2, <2>3, <2>4, <2>5
<1>10. ASSUME NEW c PROVE Image(j, c)' = Image(j, c)
  <2>1. Sources(j, c)' = Sources(j, c)
    BY <1>4, <1>5, <1>6 DEF Sources
  <2>2. \A q \in Sources(j, c) : At(q)'.data = At(q).data /\ At(q)'.bytemask = At(q).bytemask
    BY <1>5 DEF Sources
  <2> QED
    BY <1>1, <2>1, <2>2, ImageSame DEF QueueInv
<1>11. Image(j, At(j).physaddr)' = Image(j, At(j).physaddr)
  <2>1. PICK c : c = At(j).physaddr
    OBVIOUS
  <2>2. At(j)'.physaddr = c
    BY <1>3, <2>1
  <2>3. Image(j, At(j).physaddr)' = Image(j, c)'
    BY <2>2 DEF Image, Sources
  <2> QED
    BY <1>10, <2>1, <2>3
<1>12. StateOk(j)'
  <2>1. PhysAddr(j)' = PhysAddr(j)
    BY <1>1, <1>9 DEF PhysAddr
  <2> QED
    BY <1>3, <1>6, <1>7, <1>9, <2>1 DEF StateOk
<1>13. LoadOk(j)'
  BY <1>1, <1>3, <1>6, <1>7, <1>11 DEF LoadOk
<1>14. OrderOk(j)'
  BY <1>3, <1>4, <1>5, <1>6, <1>7 DEF OrderOk
<1>15. StoreOk(j)'
  BY <1>1, <1>3, <1>6, <1>7, <1>9, <1>11 DEF StoreOk
<1>16. FenceOk(j)'
  BY <1>1, <1>3, <1>6, <1>7 DEF FenceOk
<1>17. WaitOk(j)'
  <2>1. PICK r : r = At(j).rs
    OBVIOUS
  <2>2. At(At(j).rs)' = At(r)' /\ (IsFence(At(j).rs)' <=> IsFence(r)) /\ At(j)'.rs = r
    BY <1>1, <1>3, <2>1 DEF At, IsFence
  <2>3. WaitOk(j)' = (\A q \in Older(j)' : Stops(q, j)' /\ ~ At(q)'.addrvalid /\ At(j)'.state # "dispatch" =>
                        /\ At(j)'.state = "queued" /\ At(j)'.rs \in Older(j)' /\ q <= At(j)'.rs
                        /\ IsFence(At(j).rs)' /\ ~ At(At(j).rs)'.addrvalid)
    BY DEF WaitOk
  <2>4. \A q \in Older(j) : Stops(q, j) /\ ~ At(q).addrvalid /\ At(j).state # "dispatch" =>
          /\ At(j).state = "queued" /\ r \in Older(j) /\ q <= r
          /\ IsFence(r) /\ ~ At(r).addrvalid
    BY <1>7, <2>1 DEF WaitOk
  <2> QED
    BY <1>3, <1>4, <1>5, <1>6, <2>2, <2>3, <2>4
<1> QED
  BY <1>12, <1>13, <1>14, <1>15, <1>16, <1>17 DEF EntryOk

LEMMA FreshOk == ASSUME NEW j, prog' = prog, At(j)' = Allocated(prog[j]) PROVE EntryOk(j)'
<1>1. /\ At(j)'.state = "dispatch" /\ At(j)'.issued = FALSE /\ At(j)'.addrvalid = FALSE /\ At(j)'.datavalid = FALSE
  BY DEF Allocated
<1>2. StateOk(j)'
  BY <1>1 DEF StateOk
<1>3. LoadOk(j)' /\ OrderOk(j)' /\ StoreOk(j)'
  BY <1>1 DEF LoadOk, OrderOk, StoreOk
<1>4. FenceOk(j)' /\ WaitOk(j)'
  BY <1>1 DEF FenceOk, WaitOk
<1> QED
  BY <1>2, <1>3, <1>4 DEF EntryOk

\* The bounds of a queue that loses uops.
LEMMA FewerUops ==
  ASSUME TypeOK, prog' = prog, InFlight' \subseteq InFlight
  PROVE  /\ Cardinality({j \in InFlight : IsLoad(j)})' <= LdqSize
         /\ Cardinality({j \in InFlight : IsStore(j)})' <= StqSize
<1>1. \A j : (IsLoad(j)' <=> IsLoad(j)) /\ (IsStore(j)' <=> IsStore(j))
  BY DEF IsLoad, IsStore
<1>2. IsFiniteSet(InFlight)
  <2>1. head \in Int /\ Len(lsq) \in Int
    BY QueueFacts
  <2>2. head + 1 \in Int /\ head + Len(lsq) \in Int
    BY <2>1
  <2> QED
    BY <2>2, FS_Interval DEF InFlight
<1>3. PICK L : L = {j \in InFlight : IsLoad(j)}
  OBVIOUS
<1>4. PICK S : S = {j \in InFlight : IsStore(j)}
  OBVIOUS
<1>5. PICK M : M = {j \in InFlight : IsLoad(j)}'
  OBVIOUS
<1>6. PICK T : T = {j \in InFlight : IsStore(j)}'
  OBVIOUS
<1>7. IsFiniteSet(L) /\ IsFiniteSet(S)
  BY <1>2, <1>3, <1>4, FS_Subset
<1>8. M \subseteq L /\ T \subseteq S
  BY <1>1, <1>3, <1>4, <1>5, <1>6
<1>9. IsFiniteSet(M) /\ IsFiniteSet(T) /\ Cardinality(M) <= Cardinality(L) /\ Cardinality(T) <= Cardinality(S)
  BY <1>7, <1>8, FS_Subset
<1>10. /\ Cardinality(L) \in Nat /\ Cardinality(S) \in Nat /\ Cardinality(M) \in Nat /\ Cardinality(T) \in Nat
  BY <1>7, <1>9, FS_CardinalityType
<1>11. Cardinality(L) <= LdqSize /\ Cardinality(S) <= StqSize /\ LdqSize \in Nat /\ StqSize \in Nat
  BY <1>3, <1>4, QueueAssumption DEF TypeOK
<1>12. Cardinality(M) <= LdqSize /\ Cardinality(T) <= StqSize
  BY <1>9, <1>10, <1>11
<1> QED
  BY <1>5, <1>6, <1>12

\* One entry more.
LEMMA OneMore ==
  ASSUME NEW S, IsFiniteSet(S), NEW n, NEW k \in Nat, Cardinality(S) < k
  PROVE  Cardinality(S \cup {n}) <= k
<1>1. Cardinality(S) \in Nat
  BY FS_CardinalityType
<1>2. Cardinality(S \cup {n}) = IF n \in S THEN Cardinality(S) ELSE Cardinality(S) + 1
  BY FS_AddElement
<1> QED
  BY <1>1, <1>2

LEMMA AllocateOk == ASSUME QueueInv, Allocate PROVE QueueInv'
<1>0. PICK n : n = head + Len(lsq) + 1
  OBVIOUS
<1>1. /\ n <= Len(prog)
      /\ IsLoad(n) => Cardinality({j \in InFlight : IsLoad(j)}) < LdqSize
      /\ IsStore(n) => Cardinality({j \in InFlight : IsStore(j)}) < StqSize
      /\ LsqSize - 1 - Len(lsq) > 0
      /\ lsq' = Append(lsq, Allocated(prog[n]))
      /\ UNCHANGED <<prog, head, memory, loaded, lsap, loadsNow, annuls>>
  BY <1>0 DEF Allocate, Remaining
<1>2. TypeOK
  BY DEF QueueInv
<1>3. head \in Nat /\ Len(lsq) \in Nat /\ Len(prog) \in Nat /\ InFlight \in SUBSET (1..Len(prog))
  BY <1>2, QueueFacts
<1>4. n \in 1..Len(prog) /\ n \in Nat
  BY <1>0, <1>1, <1>3
<1>5. prog[n] \in Uop
  BY <1>2, <1>4, ProgFacts DEF TypeOK
<1>6. Allocated(prog[n]) \in Entry
  BY <1>5, AllocatedEntry
<1>7. /\ lsq' \in Seq(Entry) /\ Len(lsq') = Len(lsq) + 1 /\ InFlight' = InFlight \cup {n}
      /\ At(n)' = Allocated(prog[n]) /\ \A j \in InFlight : At(j)' = At(j) /\ j < n
  BY <1>0, <1>1, <1>2, <1>6, AppendStep
<1>8. TypeOK'
  <2>1. \A j : (IsLoad(j)' <=> IsLoad(j)) /\ (IsStore(j)' <=> IsStore(j))
    BY <1>1 DEF IsLoad, IsStore
  <2>2. IsFiniteSet(InFlight)
    <3>1. head + 1 \in Int /\ head + Len(lsq) \in Int
      BY <1>3
    <3> QED
      BY <3>1, FS_Interval DEF InFlight
  <2>3. PICK L : L = {j \in InFlight : IsLoad(j)}
    OBVIOUS
  <2>4. PICK S : S = {j \in InFlight : IsStore(j)}
    OBVIOUS
  <2>5. IsFiniteSet(L) /\ IsFiniteSet(S) /\ Cardinality(L) <= LdqSize /\ Cardinality(S) <= StqSize
    <3>1. IsFiniteSet(L) /\ IsFiniteSet(S)
      BY <2>2, <2>3, <2>4, FS_Subset
    <3> QED
      BY <1>2, <2>3, <2>4, <3>1 DEF TypeOK
  <2>6. LdqSize \in Nat /\ StqSize \in Nat /\ LsqSize \in Nat
    BY QueueAssumption
  <2>7. {j \in InFlight : IsLoad(j)}' = IF IsLoad(n) THEN L \cup {n} ELSE L
    BY <1>7, <2>1, <2>3
  <2>8. {j \in InFlight : IsStore(j)}' = IF IsStore(n) THEN S \cup {n} ELSE S
    BY <1>7, <2>1, <2>4
  <2>9. Cardinality(IF IsLoad(n) THEN L \cup {n} ELSE L) <= LdqSize
    BY <1>1, <2>3, <2>5, <2>6, OneMore
  <2>10. Cardinality(IF IsStore(n) THEN S \cup {n} ELSE S) <= StqSize
    BY <1>1, <2>4, <2>5, <2>6, OneMore
  <2>11. ASSUME NEW j \in InFlight' PROVE (At(j).rs < j /\ (At(j).rs # 0 => IsStore(At(j).rs)))'
    <3>1. CASE j = n
      <4>1. At(j)'.rs = 0
        BY <1>7, <3>1 DEF Allocated
      <4> QED
        BY <1>3, <1>0, <3>1, <4>1
    <3>2. CASE j # n
      <4>1. j \in InFlight /\ At(j)' = At(j)
        BY <1>7, <3>2
      <4> QED
        BY <1>2, <2>1, <4>1 DEF TypeOK
    <3> QED
      BY <3>1, <3>2
  <2>12. /\ prog \in Programs /\ head \in Position /\ memory \in [Chunk -> Word] /\ loaded \in [DOMAIN prog -> Word]
         /\ lsap \in [tags: [Way -> Position], evictmap: SUBSET Way]
         /\ loadsNow \subseteq Chunk /\ annuls \in 0 .. MaxAnnuls
    BY <1>2 DEF TypeOK
  <2>13. (head \in Position)' /\ (lsap \in [tags: [Way -> Position], evictmap: SUBSET Way])'
    BY <1>1, <2>12 DEF Position
  <2>14. Len(lsq') < LsqSize /\ head + Len(lsq') <= Len(prog)
    BY <1>0, <1>1, <1>3, <1>7, <2>6
  <2> QED
    BY <1>1, <1>7, <2>7, <2>8, <2>9, <2>10, <2>11, <2>12, <2>13, <2>14 DEF TypeOK
<1>9. ASSUME NEW j \in InFlight' PROVE EntryOk(j)'
  <2>1. CASE j = n
    <3>1. At(j)' = Allocated(prog[j]) /\ prog' = prog
      BY <1>1, <1>7, <2>1
    <3> QED
      BY <3>1, FreshOk
  <2>2. CASE j # n
    <3>1. j \in InFlight /\ j < n /\ j \in Nat
      BY <1>2, <1>7, <2>2, QueueFacts
    <3>2. \A q \in Nat : q <= j => q # n
      BY <1>4, <3>1
    <3>3. SameUpTo(j)
      BY <1>1, <1>7, <3>2 DEF SameUpTo
    <3>4. InFlight' \in SUBSET Nat
      BY <1>3, <1>4, <1>7
    <3> QED
      BY <3>1, <3>3, <3>4, OldStays
  <2> QED
    BY <2>1, <2>2
<1> QED
  BY <1>8, <1>9 DEF QueueInv

LEMMA AnnulOk == ASSUME QueueInv, NEW k \in 0..LsqSize, Annul(k) PROVE QueueInv'
<1>1. /\ annuls < MaxAnnuls /\ k < Len(lsq) /\ lsq' = SubSeq(lsq, 1, k) /\ annuls' = annuls + 1
      /\ UNCHANGED <<prog, head, memory, loaded, lsap, loadsNow>>
  BY DEF Annul
<1>2. TypeOK /\ k \in Nat /\ LsqSize \in Nat /\ MaxAnnuls \in Nat
  BY QueueAssumption DEF QueueInv
<1>3. head \in Nat /\ Len(lsq) \in Nat /\ Len(prog) \in Nat /\ InFlight \in SUBSET (1..Len(prog))
  BY <1>2, QueueFacts
<1>4. /\ lsq' \in Seq(Entry) /\ Len(lsq') = k /\ InFlight' = {j \in InFlight : j <= head + k}
      /\ \A j \in InFlight' : At(j)' = At(j)
  BY <1>1, <1>2, CutStep
<1>5. InFlight' \subseteq InFlight /\ InFlight' \in SUBSET Nat
  <2>1. \A j \in InFlight : j \in Nat
    BY <1>2, QueueFacts
  <2> QED
    BY <1>4, <2>1
<1>6. TypeOK'
  <2>1. \A j : (IsLoad(j)' <=> IsLoad(j)) /\ (IsStore(j)' <=> IsStore(j))
    BY <1>1 DEF IsLoad, IsStore
  <2>2. /\ Cardinality({j \in InFlight : IsLoad(j)})' <= LdqSize
        /\ Cardinality({j \in InFlight : IsStore(j)})' <= StqSize
    BY <1>1, <1>2, <1>5, FewerUops
  <2>3. ASSUME NEW j \in InFlight' PROVE (At(j).rs < j /\ (At(j).rs # 0 => IsStore(At(j).rs)))'
    <3>1. j \in InFlight /\ At(j)' = At(j)
      BY <1>4, <1>5
    <3> QED
      BY <1>2, <2>1, <3>1 DEF TypeOK
  <2>4. /\ prog \in Programs /\ head \in Position /\ memory \in [Chunk -> Word] /\ loaded \in [DOMAIN prog -> Word]
        /\ lsap \in [tags: [Way -> Position], evictmap: SUBSET Way]
        /\ loadsNow \subseteq Chunk /\ annuls \in 0 .. MaxAnnuls
        /\ Len(lsq) < LsqSize /\ head + Len(lsq) <= Len(prog)
    BY <1>2 DEF TypeOK
  <2>5. (head \in Position)' /\ (lsap \in [tags: [Way -> Position], evictmap: SUBSET Way])'
    BY <1>1, <2>4 DEF Position
  <2>6. Len(lsq') < LsqSize /\ head + Len(lsq') <= Len(prog) /\ annuls' \in 0 .. MaxAnnuls
    BY <1>1, <1>2, <1>3, <1>4, <2>4
  <2> QED
    BY <1>1, <1>4, <2>2, <2>3, <2>4, <2>5, <2>6 DEF TypeOK
<1>7. ASSUME NEW j \in InFlight' PROVE EntryOk(j)'
  <2>1. j \in InFlight /\ j \in Nat /\ j <= head + k
    BY <1>4, <1>5
  <2>2. \A q \in Nat : q <= j => q <= head + k
    BY <1>2, <1>3, <2>1
  <2>3. SameUpTo(j)
    <3>1. \A q \in Nat : q <= j => (q \in InFlight' <=> q \in InFlight)
      BY <1>4, <2>2
    <3>2. ASSUME NEW q \in InFlight, q <= j PROVE At(q)' = At(q)
      <4>1. q \in InFlight'
        BY <1>3, <3>1, <3>2
      <4> QED
        BY <1>4, <4>1
    <3> QED
      BY <1>1, <3>1, <3>2 DEF SameUpTo
  <2> QED
    BY <1>5, <2>1, <2>3, OldStays
<1> QED
  BY <1>6, <1>7 DEF QueueInv

\* The predictor keeps its type.
LEMMA SelectType ==
  ASSUME NEW l \in [tags: [Way -> Position], evictmap: SUBSET Way], NEW rip \in Position
  PROVE  Select(l, rip) \in [tags: [Way -> Position], evictmap: SUBSET Way]
<1>1. PICK way : way = IF l.evictmap = Way THEN 1 ELSE Min(Way \ l.evictmap)
  OBVIOUS
<1>2. way \in Way
  <2>1. LsapWays \in Nat /\ LsapWays # 0
    BY QueueAssumption
  <2>2. 1 \in Way
    BY <2>1 DEF Way
  <2>3. l.evictmap # Way => Way \ l.evictmap # {}
    OBVIOUS
  <2>4. Way \ l.evictmap \in SUBSET Nat
    BY <2>1 DEF Way
  <2>5. l.evictmap # Way => Min(Way \ l.evictmap) \in Way
    BY <2>3, <2>4, MinIn
  <2> QED
    BY <1>1, <2>2, <2>5
<1>3. Select(l, rip) = IF \E w \in Way : l.tags[w] = rip THEN l
                       ELSE [tags |-> [l.tags EXCEPT ![way] = rip],
                             evictmap |-> (IF l.evictmap = Way THEN {} ELSE l.evictmap) \cup {way}]
  BY <1>1 DEF Select
<1>4. [l.tags EXCEPT ![way] = rip] \in [Way -> Position]
  OBVIOUS
<1>5. ((IF l.evictmap = Way THEN {} ELSE l.evictmap) \cup {way}) \in SUBSET Way
  BY <1>2
<1> QED
  BY <1>3, <1>4, <1>5

LEMMA StoreAliasesOk == ASSUME QueueInv, NEW i \in InFlight, StoreAliases(i) PROVE QueueInv'
<1>1. /\ Aliased(i) # {} /\ lsap' = Select(lsap, Min(Aliased(i))) /\ lsq' = RedispatchFrom(i)
      /\ UNCHANGED <<prog, head, memory, loaded, loadsNow, annuls>>
  BY DEF StoreAliases
<1>2. TypeOK
  BY DEF QueueInv
<1>3. i \in Nat /\ Len(prog) \in Nat /\ InFlight \in SUBSET (1..Len(prog))
  BY <1>2, QueueFacts
<1>4. /\ lsq' \in Seq(Entry) /\ Len(lsq') = Len(lsq) /\ InFlight' = InFlight
      /\ \A j \in InFlight : At(j)' = IF j < i THEN At(j) ELSE Allocated(prog[j])
  BY <1>1, <1>2, RedispatchStep
<1>5. TypeOK'
  <2>1. \A j : (IsLoad(j)' <=> IsLoad(j)) /\ (IsStore(j)' <=> IsStore(j))
    BY <1>1 DEF IsLoad, IsStore
  <2>2. /\ Cardinality({j \in InFlight : IsLoad(j)})' <= LdqSize
        /\ Cardinality({j \in InFlight : IsStore(j)})' <= StqSize
    BY <1>1, <1>2, <1>4, FewerUops
  <2>3. ASSUME NEW j \in InFlight' PROVE (At(j).rs < j /\ (At(j).rs # 0 => IsStore(At(j).rs)))'
    <3>1. j \in InFlight /\ j \in Nat /\ j > 0
      BY <1>3, <1>4
    <3>2. CASE j < i
      <4>1. At(j)' = At(j)
        BY <1>4, <3>1, <3>2
      <4> QED
        BY <1>2, <2>1, <3>1, <4>1 DEF TypeOK
    <3>3. CASE ~(j < i)
      <4>1. At(j)' = Allocated(prog[j])
        BY <1>4, <3>1, <3>3
      <4>2. At(j)'.rs = 0
        BY <4>1 DEF Allocated
      <4> QED
        BY <3>1, <4>2
    <3> QED
      BY <3>2, <3>3
  <2>4. /\ prog \in Programs /\ head \in Position /\ memory \in [Chunk -> Word] /\ loaded \in [DOMAIN prog -> Word]
        /\ lsap \in [tags: [Way -> Position], evictmap: SUBSET Way]
        /\ loadsNow \subseteq Chunk /\ annuls \in 0 .. MaxAnnuls
        /\ Len(lsq) < LsqSize /\ head + Len(lsq) <= Len(prog)
    BY <1>2 DEF TypeOK
  <2>5. Min(Aliased(i)) \in Position
    <3>1. Aliased(i) \in SUBSET InFlight
      BY DEF Aliased, Younger
    <3>0. \A j \in InFlight : j \in Nat /\ j \in Position
      <4>1. ASSUME NEW j \in InFlight PROVE j \in Nat /\ j \in Position
        <5>1. j \in 1..Len(prog)
          BY <1>3
        <5> QED
          BY <1>3, <5>1 DEF Position
      <4> QED
        BY <4>1
    <3>2. Aliased(i) \in SUBSET Nat
      BY <3>0, <3>1
    <3>3. Min(Aliased(i)) \in InFlight
      BY <1>1, <3>1, <3>2, MinIn
    <3> QED
      BY <3>0, <3>3
  <2>6. lsap' \in [tags: [Way -> Position], evictmap: SUBSET Way]
    BY <1>1, <2>4, <2>5, SelectType
  <2>7. (head \in Position)' /\ (lsap \in [tags: [Way -> Position], evictmap: SUBSET Way])'
    BY <1>1, <2>4, <2>6 DEF Position
  <2> QED
    BY <1>1, <1>4, <2>2, <2>3, <2>4, <2>7 DEF TypeOK
<1>6. ASSUME NEW j \in InFlight' PROVE EntryOk(j)'
  <2>1. j \in InFlight /\ j \in Nat
    BY <1>3, <1>4
  <2>2. CASE j < i
    <3>1. \A q \in InFlight : q <= j => q < i
      BY <1>3, <2>1, <2>2
    <3>2. SameUpTo(j)
      BY <1>1, <1>4, <3>1 DEF SameUpTo
    <3>3. InFlight' \in SUBSET Nat
      BY <1>3, <1>4
    <3> QED
      BY <2>1, <3>2, <3>3, OldStays
  <2>3. CASE ~(j < i)
    <3>1. At(j)' = Allocated(prog[j])
      BY <1>4, <2>1, <2>3
    <3> QED
      BY <1>1, <3>1, FreshOk
  <2> QED
    BY <2>2, <2>3
<1> QED
  BY <1>5, <1>6 DEF QueueInv

\* A step on one entry.
LEMMA EntryStepOk ==
  ASSUME QueueInv, NEW i \in InFlight, NEW e, Becomes(i, e), Held(i, e), EntryOk(i)'
  PROVE  QueueInv'
<1>1. TypeOK'
  BY BecomesType DEF QueueInv
<1>2. InFlight' = InFlight
  BY BecomesFrame DEF QueueInv
<1>3. ASSUME NEW j \in InFlight' PROVE EntryOk(j)'
  <2>1. j \in InFlight
    BY <1>2
  <2> QED
    BY <2>1, OthersStay
<1> QED
  BY <1>1, <1>3 DEF QueueInv

\* A step on no entry.
LEMMA IdleOk ==
  ASSUME QueueInv, NextCycle \/ Finished \/ UNCHANGED vars
  PROVE  QueueInv'
<1>1. UNCHANGED <<prog, head, lsq, memory, loaded, lsap, annuls>> /\ (loadsNow' = loadsNow \/ loadsNow' = {})
  BY DEF NextCycle, Finished, vars
<1>2. InFlight' = InFlight /\ (\A j : At(j)' = At(j)) /\ InFlight \in SUBSET (1..Len(prog)) /\ Len(prog) \in Nat
  BY <1>1, QueueFacts DEF InFlight, At, QueueInv
<1>3. TypeOK'
  <2>1. TypeOK
    BY DEF QueueInv
  <2> QED
    BY <1>1, <2>1 DEF TypeOK, InFlight, At, IsLoad, IsStore, Position
<1>4. ASSUME NEW j \in InFlight' PROVE EntryOk(j)'
  <2>1. j \in InFlight /\ SameUpTo(j) /\ InFlight' \in SUBSET Nat
    BY <1>1, <1>2 DEF SameUpTo
  <2> QED
    BY <2>1, OldStays
<1> QED
  BY <1>3, <1>4 DEF QueueInv

-----------------------------------------------------------------------------
\* Commit.

\* Uop h, the oldest, commits.
Commits(h) ==
  /\ h = head + 1 /\ h \in InFlight /\ At(h).state = "completed"
  /\ memory' = IF IsSt(h) THEN [memory EXCEPT ![At(h).physaddr] = Merge(@, At(h).data, At(h).bytemask)]
                          ELSE memory
  /\ loaded' = IF IsLoad(h) THEN [loaded EXCEPT ![h] = At(h).data] ELSE loaded
  /\ head' = h /\ lsq' = Tail(lsq)
  /\ UNCHANGED <<prog, lsap, loadsNow, annuls>>

LEMMA CommitFrame ==
  ASSUME QueueInv, NEW h, Commits(h)
  PROVE  /\ h \in InFlight /\ h \in Nat /\ h > 0 /\ h \in 1..Len(prog) /\ At(h) \in Entry
         /\ InFlight' = InFlight \ {h} /\ lsq' \in Seq(Entry) /\ Len(lsq') = Len(lsq) - 1
         /\ \A j \in InFlight' : At(j)' = At(j) /\ j \in InFlight /\ j \in Nat /\ j > h
         /\ prog' = prog /\ At(h).issued /\ Older(h) = {}
         /\ \A q : /\ IsLoad(q)' <=> IsLoad(q)
                   /\ IsSt(q)' <=> IsSt(q)
                   /\ IsFence(q)' <=> IsFence(q)
                   /\ \A j : Stops(q, j)' <=> Stops(q, j)
<1>1. TypeOK /\ h = head + 1 /\ h \in InFlight /\ head' = head + 1 /\ lsq' = Tail(lsq) /\ prog' = prog
  BY DEF Commits, QueueInv
<1>2. /\ head \in Nat /\ Len(prog) \in Nat /\ InFlight \in SUBSET (1..Len(prog))
      /\ \A j \in InFlight : j \in Nat /\ j > head /\ At(j) \in Entry
  BY <1>1, QueueFacts
<1>3. /\ lsq' \in Seq(Entry) /\ Len(lsq') = Len(lsq) - 1 /\ InFlight' = InFlight \ {head + 1}
      /\ \A j \in InFlight' : At(j)' = At(j)
  BY <1>1, TailStep
<1>4. ASSUME NEW j \in InFlight' PROVE j \in InFlight /\ j \in Nat /\ j > h
  BY <1>1, <1>2, <1>3
<1>5. At(h).issued
  <2>1. StateOk(h) /\ At(h).state = "completed"
    BY <1>1 DEF QueueInv, EntryOk, Commits
  <2> QED
    BY <2>1 DEF StateOk
<1>6. Older(h) = {}
  <2>1. ASSUME NEW q \in InFlight PROVE ~(q < h)
    BY <1>1, <1>2
  <2> QED
    BY <2>1 DEF Older
<1>7. ASSUME NEW q
      PROVE  /\ IsLoad(q)' <=> IsLoad(q)
             /\ IsSt(q)' <=> IsSt(q)
             /\ IsFence(q)' <=> IsFence(q)
             /\ \A j : Stops(q, j)' <=> Stops(q, j)
  BY <1>1 DEF IsLoad, IsSt, IsFence, Stops
<1>8. h \in Nat /\ h > 0 /\ h \in 1..Len(prog)
  BY <1>1, <1>2
<1> QED
  BY <1>1, <1>2, <1>3, <1>4, <1>5, <1>6, <1>7, <1>8

\* The value of an operand stays, in the register file or in the queue.
LEMMA CommitOperand ==
  ASSUME QueueInv, NEW h, Commits(h), NEW j \in InFlight, NEW o \in {prog[j].ra, prog[j].rc}
  PROVE  /\ Completed(o) => Completed(o)'
         /\ Ready(o) => Ready(o)'
         /\ Value(o)' = Value(o)
<1>1. /\ h \in InFlight /\ h \in Nat /\ h > 0 /\ h \in 1..Len(prog)
      /\ InFlight' = InFlight \ {h} /\ \A q \in InFlight' : At(q)' = At(q)
  BY CommitFrame
<1>2. o \in Nat /\ (o # 0 => IsLoad(o) /\ o \in 1..Len(prog))
  BY OperandFacts DEF QueueInv
<1>3. /\ loaded' = IF IsLoad(h) THEN [loaded EXCEPT ![h] = At(h).data] ELSE loaded
      /\ loaded \in [DOMAIN prog -> Word] /\ DOMAIN prog = 1..Len(prog)
  BY ProgFacts DEF Commits, QueueInv, TypeOK
<1>4. CASE o = h
  <2>1. loaded'[h] = At(h).data
    BY <1>1, <1>2, <1>3, <1>4
  <2> QED
    BY <1>1, <1>4, <2>1 DEF Completed, Ready, Value
<1>5. CASE o # h /\ o \in InFlight
  BY <1>1, <1>5 DEF Completed, Ready, Value
<1>6. CASE o # h /\ o \notin InFlight
  <2>1. o # 0 => loaded'[o] = loaded[o]
    BY <1>1, <1>2, <1>3, <1>6
  <2> QED
    BY <1>1, <1>6, <2>1 DEF Completed, Ready, Value
<1> QED
  BY <1>4, <1>5, <1>6

\* The bytes of a committed store move to memory and change no image.
LEMMA CommitImage ==
  ASSUME QueueInv, NEW h, Commits(h), NEW j \in InFlight', NEW c \in Chunk
  PROVE  Image(j, c)' = Image(j, c)
<1>1. /\ h \in InFlight /\ h \in Nat /\ At(h).issued
      /\ InFlight' = InFlight \ {h} /\ \A q \in InFlight' : At(q)' = At(q) /\ q \in InFlight /\ q \in Nat /\ q > h
      /\ \A q : IsSt(q)' <=> IsSt(q)
  BY CommitFrame
<1>2. /\ memory \in [Chunk -> Word] /\ At(h).physaddr \in Chunk
      /\ \A q \in InFlight : q \in Nat
      /\ Len(prog) \in Nat /\ InFlight \in SUBSET (1..Len(prog))
  BY <1>1, QueueFacts DEF QueueInv, TypeOK, Entry
<1>3. memory' = IF IsSt(h) THEN [memory EXCEPT ![At(h).physaddr] = Merge(memory[At(h).physaddr], At(h).data, At(h).bytemask)]
                           ELSE memory
  BY DEF Commits
<1>4. Older(j)' = Older(j) \ {h}
  BY <1>1 DEF Older
<1>5. Sources(j, c)' = Sources(j, c) \ {h}
  <2>1. \A q \in Older(j)' : At(q)' = At(q)
    BY <1>1 DEF Older
  <2> QED
    BY <1>1, <1>4, <2>1 DEF Sources
<1>6. Sources(j, c) \in SUBSET InFlight /\ Sources(j, c) \in SUBSET (1..Len(prog))
  BY <1>2 DEF Sources, Older
<1>7. CASE h \notin Sources(j, c)
  <2>1. Sources(j, c)' = Sources(j, c)
    BY <1>5, <1>7
  <2>2. memory'[c] = memory[c]
    <3>1. IsSt(h) => At(h).physaddr # c
      BY <1>1, <1>7 DEF Sources, Older
    <3> QED
      BY <1>2, <1>3, <3>1
  <2>3. ASSUME NEW q \in Sources(j, c) PROVE At(q)' = At(q)
    BY <1>1, <1>6, <1>7
  <2> QED
    BY <1>1, <2>1, <2>2, <2>3, ImageSame DEF QueueInv
<1>8. CASE h \in Sources(j, c)
  <2>1. IsSt(h) /\ At(h).physaddr = c
    BY <1>8 DEF Sources
  <2>2. memory'[c] = Merge(memory[c], At(h).data, At(h).bytemask)
    BY <1>2, <1>3, <2>1
  <2>3. PICK p : p = Nearest(Sources(j, c))
    OBVIOUS
  <2>4. p \in Sources(j, c) /\ \A q \in Sources(j, c) : q <= p
    BY <1>2, <1>6, <1>8, <2>3, NearestIn
  <2>5. Image(j, c) = Merge(memory[c], At(p).data, At(p).bytemask)
    BY <1>8, <2>3 DEF Image
  <2>6. CASE p = h
    <3>1. ASSUME NEW q \in Sources(j, c), q # h PROVE FALSE
      <4>1. q \in InFlight' /\ q <= h
        BY <1>1, <1>6, <2>4, <2>6, <3>1
      <4>2. q > h /\ q \in Nat
        BY <1>1, <4>1
      <4> QED
        BY <1>1, <4>1, <4>2
    <3>2. Sources(j, c)' = {}
      BY <1>5, <3>1
    <3>3. Image(j, c)' = memory'[c]
      BY <3>2 DEF Image
    <3> QED
      BY <2>2, <2>5, <2>6, <3>3
  <2>7. CASE p # h
    <3>1. p \in Sources(j, c)' /\ Sources(j, c)' \in SUBSET (1..Len(prog)) /\ \A q \in Sources(j, c)' : q <= p
      BY <1>5, <1>6, <2>4, <2>7
    <3>2. PICK T : T = Sources(j, c)'
      OBVIOUS
    <3>3. Nearest(T) = p
      BY <1>2, <3>1, <3>2, NearestIs
    <3>4. Nearest(Sources(j, c))' = p
      BY <3>2, <3>3 DEF Nearest
    <3>5. p \in InFlight' /\ p > h /\ At(p)' = At(p) /\ p \in InFlight /\ IsSt(p) /\ At(p).issued /\ At(p).physaddr = c
      <4>1. p \in InFlight' /\ p \in InFlight /\ IsSt(p) /\ At(p).issued /\ At(p).physaddr = c
        BY <1>1, <1>6, <2>4, <2>7 DEF Sources
      <4> QED
        BY <1>1, <4>1
    <3>6. At(h).bytemask \subseteq At(p).bytemask
      <4>1. OrderOk(p) /\ h \in Older(p)
        <5>1. h < p
          BY <1>1, <3>5
        <5> QED
          BY <1>1, <3>5, <5>1 DEF QueueInv, EntryOk, Older
      <4> QED
        BY <2>1, <3>5, <4>1 DEF OrderOk
    <3>7. Image(j, c)' = Merge(memory'[c], At(p).data, At(p).bytemask)
      <4>1. At(Nearest(Sources(j, c)))' = At(p)'
        BY <3>4 DEF At
      <4>2. Image(j, c)' = Merge(memory[c], At(Nearest(Sources(j, c))).data, At(Nearest(Sources(j, c))).bytemask)'
        BY <3>1 DEF Image
      <4> QED
        BY <3>5, <4>1, <4>2 DEF Merge
    <3> QED
      BY <2>2, <2>5, <3>6, <3>7 DEF Merge
  <2> QED
    BY <2>6, <2>7
<1> QED
  BY <1>7, <1>8

LEMMA CommitType == ASSUME QueueInv, NEW h, Commits(h) PROVE TypeOK'
<1>1. TypeOK
  BY DEF QueueInv
<1>2. /\ h \in InFlight /\ h \in Nat /\ h > 0 /\ h \in 1..Len(prog) /\ At(h) \in Entry
      /\ InFlight' = InFlight \ {h} /\ lsq' \in Seq(Entry) /\ Len(lsq') = Len(lsq) - 1
      /\ \A j \in InFlight' : At(j)' = At(j) /\ j \in InFlight
      /\ prog' = prog
  BY CommitFrame
<1>3. /\ prog \in Programs /\ memory \in [Chunk -> Word] /\ loaded \in [DOMAIN prog -> Word]
      /\ lsap \in [tags: [Way -> Position], evictmap: SUBSET Way]
      /\ loadsNow \subseteq Chunk /\ annuls \in 0 .. MaxAnnuls
      /\ Len(lsq) < LsqSize /\ head + Len(lsq) <= Len(prog)
  BY <1>1 DEF TypeOK
<1>4. head \in Nat /\ Len(lsq) \in Nat /\ Len(prog) \in Nat /\ LsqSize \in Nat
  BY <1>1, QueueFacts, QueueAssumption
<1>5. \A j : (IsLoad(j)' <=> IsLoad(j)) /\ (IsStore(j)' <=> IsStore(j))
  BY <1>2 DEF IsLoad, IsStore
<1>6. /\ Cardinality({j \in InFlight : IsLoad(j)})' <= LdqSize
      /\ Cardinality({j \in InFlight : IsStore(j)})' <= StqSize
  BY <1>1, <1>2, FewerUops
<1>7. ASSUME NEW j \in InFlight' PROVE (At(j).rs < j /\ (At(j).rs # 0 => IsStore(At(j).rs)))'
  BY <1>1, <1>2, <1>5 DEF TypeOK
<1>8. memory' \in [Chunk -> Word]
  <2>1. At(h).physaddr \in Chunk /\ At(h).data \in Word
    BY <1>2 DEF Entry
  <2>2. Merge(memory[At(h).physaddr], At(h).data, At(h).bytemask) \in Word
    BY <1>3, <2>1, WordFacts
  <2>3. memory' = IF IsSt(h) THEN [memory EXCEPT ![At(h).physaddr] = Merge(memory[At(h).physaddr], At(h).data, At(h).bytemask)]
                  ELSE memory
    BY DEF Commits
  <2> QED
    BY <1>3, <2>1, <2>2, <2>3
<1>9. loaded' \in [DOMAIN prog -> Word]
  <2>1. At(h).data \in Word
    BY <1>2 DEF Entry
  <2>2. loaded' = IF IsLoad(h) THEN [loaded EXCEPT ![h] = At(h).data] ELSE loaded
    BY DEF Commits
  <2> QED
    BY <1>3, <2>1, <2>2
<1>10. (head \in Position)' /\ (lsap \in [tags: [Way -> Position], evictmap: SUBSET Way])'
  <2>1. head' = h /\ lsap' = lsap
    BY DEF Commits
  <2>2. h \in 0..Len(prog)
    BY <1>2, <1>4
  <2> QED
    BY <1>2, <1>3, <2>1, <2>2 DEF Position
<1>11. Len(lsq') < LsqSize /\ head' + Len(lsq') <= Len(prog)
  <2>1. head' = head + 1
    BY DEF Commits
  <2> QED
    BY <1>2, <1>3, <1>4, <2>1
<1>12. loadsNow' \subseteq Chunk /\ annuls' \in 0 .. MaxAnnuls
  BY <1>3 DEF Commits
<1> QED
  BY <1>2, <1>3, <1>6, <1>7, <1>8, <1>9, <1>10, <1>11, <1>12 DEF TypeOK

LEMMA CommitEntries == ASSUME QueueInv, NEW h, Commits(h), NEW j \in InFlight' PROVE EntryOk(j)'
<1>1. /\ h \in InFlight /\ h \in Nat /\ h = head + 1
      /\ InFlight' = InFlight \ {h} /\ \A q \in InFlight' : At(q)' = At(q) /\ q \in InFlight /\ q \in Nat /\ q > h
      /\ prog' = prog
      /\ \A q : /\ IsLoad(q)' <=> IsLoad(q)
                /\ IsSt(q)' <=> IsSt(q)
                /\ IsFence(q)' <=> IsFence(q)
                /\ Stops(q, j)' <=> Stops(q, j)
  BY CommitFrame DEF Commits
<1>2. At(j)' = At(j) /\ j \in InFlight /\ j \in Nat /\ j > h
  BY <1>1
<1>3. Older(j)' \subseteq Older(j) /\ \A q \in Older(j)' : q \in InFlight' /\ At(q)' = At(q)
  BY <1>1 DEF Older
<1>4. StateOk(j) /\ LoadOk(j) /\ OrderOk(j) /\ StoreOk(j) /\ FenceOk(j) /\ WaitOk(j)
  BY <1>2 DEF QueueInv, EntryOk
<1>5. /\ Completed(prog[j].ra) => Completed(prog[j].ra)'
      /\ Value(prog[j].ra)' = Value(prog[j].ra)
      /\ Ready(prog[j].rc) => Ready(prog[j].rc)'
      /\ Value(prog[j].rc)' = Value(prog[j].rc)
  <2>1. PICK a : a = prog[j].ra
    OBVIOUS
  <2>2. PICK c : c = prog[j].rc
    OBVIOUS
  <2>3. (Completed(prog[j].ra)' <=> Completed(a)') /\ Value(prog[j].ra)' = Value(a)'
    BY <1>1, <2>1 DEF Completed, Value
  <2>4. (Ready(prog[j].rc)' <=> Ready(c)') /\ Value(prog[j].rc)' = Value(c)'
    BY <1>1, <2>2 DEF Ready, Value
  <2>5. (Completed(a) => Completed(a)') /\ Value(a)' = Value(a)
    BY <1>2, <2>1, CommitOperand
  <2>6. (Ready(c) => Ready(c)') /\ Value(c)' = Value(c)
    BY <1>2, <2>2, CommitOperand
  <2> QED
    BY <2>1, <2>2, <2>3, <2>4, <2>5, <2>6
<1>6. Image(j, At(j).physaddr)' = Image(j, At(j).physaddr)
  <2>1. PICK c : c = At(j).physaddr
    OBVIOUS
  <2>2. c \in Chunk
    BY <1>2, <2>1, QueueFacts DEF QueueInv, Entry
  <2>3. At(j)'.physaddr = c
    BY <1>2, <2>1
  <2>4. Image(j, At(j).physaddr)' = Image(j, c)'
    BY <2>3 DEF Image, Sources
  <2>5. Image(j, c)' = Image(j, c)
    BY <2>2, CommitImage
  <2> QED
    BY <2>1, <2>4, <2>5
<1>7. StateOk(j)'
  <2>1. PhysAddr(j)' = PhysAddr(j)
    BY <1>1, <1>5 DEF PhysAddr
  <2> QED
    BY <1>1, <1>2, <1>4, <1>5, <2>1 DEF StateOk
<1>8. LoadOk(j)'
  BY <1>1, <1>2, <1>4, <1>6 DEF LoadOk
<1>9. OrderOk(j)'
  BY <1>1, <1>2, <1>3, <1>4 DEF OrderOk
<1>10. StoreOk(j)'
  BY <1>1, <1>2, <1>4, <1>5, <1>6 DEF StoreOk
<1>11. FenceOk(j)'
  <2>1. IsFence(j) => ~ At(j).addrvalid
    BY <1>1, <1>2, <1>4 DEF FenceOk
  <2> QED
    BY <1>1, <1>2, <1>4, <2>1 DEF FenceOk
<1>12. WaitOk(j)'
  <2>1. PICK r : r = At(j).rs
    OBVIOUS
  <2>2. At(At(j).rs)' = At(r)' /\ (IsFence(At(j).rs)' <=> IsFence(r)) /\ At(j)'.rs = r
    BY <1>1, <1>2, <2>1 DEF At, IsFence
  <2>3. WaitOk(j)' = (\A q \in Older(j)' : Stops(q, j)' /\ ~ At(q)'.addrvalid /\ At(j)'.state # "dispatch" =>
                        /\ At(j)'.state = "queued" /\ At(j)'.rs \in Older(j)' /\ q <= At(j)'.rs
                        /\ IsFence(At(j).rs)' /\ ~ At(At(j).rs)'.addrvalid)
    BY DEF WaitOk
  <2>4. ASSUME NEW q \in Older(j)', Stops(q, j), ~ At(q)'.addrvalid, At(j).state # "dispatch"
        PROVE  /\ At(j).state = "queued" /\ r \in Older(j)' /\ q <= r
               /\ IsFence(r) /\ ~ At(r)'.addrvalid
    <3>1. At(j).state = "queued" /\ r \in Older(j) /\ q <= r /\ IsFence(r) /\ ~ At(r).addrvalid
      BY <1>3, <1>4, <2>1, <2>4 DEF WaitOk
    <3>2. q > h /\ q \in Nat /\ r \in InFlight /\ r < j
      BY <1>1, <1>3, <3>1 DEF Older
    <3>3. r \in Nat
      BY <3>2, QueueFacts DEF QueueInv
    <3>4. r # h
      BY <1>1, <3>1, <3>2, <3>3
    <3>5. r \in InFlight' /\ r \in Older(j)'
      BY <1>1, <3>2, <3>4 DEF Older
    <3> QED
      BY <1>1, <3>1, <3>5
  <2> QED
    BY <1>1, <1>2, <2>2, <2>3, <2>4
<1> QED
  BY <1>7, <1>8, <1>9, <1>10, <1>11, <1>12 DEF EntryOk

\* A commit is the next step of the program in order.
LEMMA CommitsInOrder == ASSUME QueueInv, NEW h, Commits(h) PROVE Sequential!Step
<1>1. /\ h = head + 1 /\ head' = h
      /\ memory' = IF IsSt(h) THEN [memory EXCEPT ![At(h).physaddr] = Merge(memory[At(h).physaddr], At(h).data, At(h).bytemask)]
                   ELSE memory
      /\ loaded' = IF IsLoad(h) THEN [loaded EXCEPT ![h] = At(h).data] ELSE loaded
  BY DEF Commits
<1>2. /\ h \in InFlight /\ h \in Nat /\ h > 0 /\ h \in 1..Len(prog) /\ At(h) \in Entry
      /\ prog' = prog /\ At(h).issued /\ Older(h) = {}
  BY CommitFrame
<1>3. StateOk(h) /\ LoadOk(h) /\ StoreOk(h) /\ prog[h] \in Uop /\ Len(prog) \in Nat /\ memory \in [Chunk -> Word]
  BY <1>2, QueueFacts DEF QueueInv, EntryOk, TypeOK
<1>4. ASSUME NEW o \in {prog[h].ra, prog[h].rc} PROVE Sequential!Value(o) = Value(o)
  <2>1. o \in Nat /\ o < h
    BY <1>2, OperandFacts DEF QueueInv
  <2>2. o \notin InFlight
    BY <1>2, <2>1 DEF Older
  <2> QED
    BY <2>2 DEF Value, Sequential!Value, Zero, Sequential!Zero
<1>5. PICK c : c = PhysAddr(h)
  OBVIOUS
<1>6. c = Sequential!ChunkOf(prog[h], Sequential!Value(prog[h].ra))
  BY <1>4, <1>5 DEF PhysAddr, ChunkOf, Sequential!ChunkOf, Zero, Sequential!Zero
<1>7. ~ IsFence(h) => At(h).physaddr = c
  BY <1>2, <1>3, <1>5 DEF StateOk
<1>8. Image(h, c) = memory[c]
  <2>1. Sources(h, c) = {}
    BY <1>2 DEF Sources
  <2> QED
    BY <2>1 DEF Image
<1>9. c \in Chunk
  BY <1>2, <1>5, PhysAddrType DEF QueueInv
<1>10. loaded' = IF prog[h].op = "ld" THEN [loaded EXCEPT ![h] = Sequential!Extract(memory[c], prog[h].bytes)] ELSE loaded
  <2>1. IsLoad(h) => At(h).data = Extract(memory[c], prog[h].bytes)
    BY <1>2, <1>3, <1>7, <1>8 DEF LoadOk, IsLoad, IsFence
  <2>2. Extract(memory[c], prog[h].bytes) = Sequential!Extract(memory[c], prog[h].bytes)
    BY DEF Extract, Sequential!Extract, Merge, Sequential!Merge, Zero, Sequential!Zero
  <2> QED
    BY <1>1, <2>1, <2>2 DEF IsLoad
<1>11. memory' = IF prog[h].op = "st"
                   THEN [memory EXCEPT ![c] = Sequential!Merge(memory[c], Sequential!StoreWord(prog[h], h, Sequential!Value(prog[h].rc)),
                                                               prog[h].bytes)]
                   ELSE memory
  <2>1. ASSUME IsSt(h)
        PROVE  Merge(memory[c], At(h).data, At(h).bytemask) =
               Merge(memory[c], StoreWord(prog[h], h, Value(prog[h].rc)), prog[h].bytes)
    <3>1. At(h).physaddr = c
      BY <1>7, <2>1 DEF IsSt, IsFence
    <3>2. /\ prog[h].bytes \subseteq At(h).bytemask
          /\ \A b \in At(h).bytemask :
               At(h).data[b] = IF b \in prog[h].bytes THEN StoreWord(prog[h], h, Value(prog[h].rc))[b]
                               ELSE memory[c][b]
      BY <1>2, <1>3, <1>8, <2>1, <3>1 DEF StoreOk
    <3> QED
      BY <3>2 DEF Merge
  <2>2. StoreWord(prog[h], h, Value(prog[h].rc)) = Sequential!StoreWord(prog[h], h, Sequential!Value(prog[h].rc))
    BY <1>4 DEF StoreWord, Sequential!StoreWord
  <2>3. \A x, y, m : Merge(x, y, m) = Sequential!Merge(x, y, m)
    BY DEF Merge, Sequential!Merge
  <2>4. IsSt(h) => At(h).physaddr = c
    BY <1>7 DEF IsSt, IsFence
  <2> QED
    BY <1>1, <2>1, <2>2, <2>3, <2>4 DEF IsSt
<1>12. h <= Len(prog) /\ head' + 1 = h + 1
  BY <1>1, <1>2, <1>3
<1> QED
  BY <1>1, <1>2, <1>6, <1>10, <1>11, <1>12 DEF Sequential!Step

-----------------------------------------------------------------------------
LEMMA InitQueue == Init => QueueInv
<1> SUFFICES ASSUME Init PROVE QueueInv
  OBVIOUS
<1>1. /\ prog \in Programs /\ head = 0 /\ lsq = <<>>
      /\ memory = [c \in Chunk |-> Zero] /\ loaded = [i \in DOMAIN prog |-> Zero]
      /\ lsap = [tags |-> [w \in Way |-> 0], evictmap |-> {}]
      /\ loadsNow = {} /\ annuls = 0
  BY DEF Init
<1>2. Len(prog) \in Nat
  BY <1>1, ProgFacts
<1>3. Len(lsq) = 0 /\ lsq \in Seq(Entry)
  BY <1>1
<1>4. InFlight = {}
  BY <1>1, <1>3 DEF InFlight
<1>5. Cardinality({i \in InFlight : IsLoad(i)}) = 0 /\ Cardinality({i \in InFlight : IsStore(i)}) = 0
  <2>1. {i \in InFlight : IsLoad(i)} = {} /\ {i \in InFlight : IsStore(i)} = {}
    BY <1>4
  <2> QED
    BY <2>1, FS_EmptySet
<1>6. LdqSize \in Nat /\ StqSize \in Nat /\ LsqSize \in Nat /\ LsqSize > 1 /\ MaxAnnuls \in Nat
  BY QueueAssumption
<1>7. memory \in [Chunk -> Word] /\ loaded \in [DOMAIN prog -> Word]
  BY <1>1, WordFacts
<1>8. lsap \in [tags: [Way -> Position], evictmap: SUBSET Way] /\ head \in Position
  <2>1. 0 \in Position
    BY <1>2 DEF Position
  <2> QED
    BY <1>1, <2>1
<1>9. head + Len(lsq) <= Len(prog)
  BY <1>1, <1>2, <1>3
<1>10. TypeOK
  BY <1>1, <1>3, <1>4, <1>5, <1>6, <1>7, <1>8, <1>9 DEF TypeOK
<1> QED
  BY <1>4, <1>10 DEF QueueInv

\* The steps on one entry, and the others but a commit, leave the program's state alone.
LEMMA NextQueue ==
  ASSUME QueueInv, [Next]_vars
  PROVE  QueueInv' /\ (Sequential!Step \/ UNCHANGED <<prog, head, memory, loaded>>)
<1>1. ASSUME NEW i \in InFlight, NEW e, Becomes(i, e), Held(i, e), EntryOk(i)'
      PROVE  QueueInv' /\ UNCHANGED <<prog, head, memory, loaded>>
  <2>1. QueueInv'
    BY <1>1, EntryStepOk
  <2> QED
    BY <1>1, <2>1 DEF Becomes
<1>2. CASE Allocate
  BY <1>2, AllocateOk DEF Allocate
<1>3. CASE Commit
  <2>1. PICK h : h = head + 1
    OBVIOUS
  <2>2. Commits(h)
    BY <1>3, <2>1 DEF Commit, Commits, IsSt
  <2>3. QueueInv'
    BY <2>2, CommitType, CommitEntries DEF QueueInv
  <2> QED
    BY <2>2, <2>3, CommitsInOrder
<1>4. CASE NextCycle
  BY <1>4, IdleOk DEF NextCycle
<1>5. CASE Finished
  BY <1>5, IdleOk DEF Finished, vars
<1>6. ASSUME NEW i \in InFlight, Dispatch(i) PROVE QueueInv' /\ UNCHANGED <<prog, head, memory, loaded>>
  BY <1>1, <1>6, DispatchOk
<1>7. ASSUME NEW i \in InFlight, Issue(i) PROVE QueueInv' /\ UNCHANGED <<prog, head, memory, loaded>>
  <2>1. CASE LoadReplays(i) \/ StoreReplays(i) \/ StoreParallel(i)
    BY <1>1, <2>1, ReplayOk
  <2>2. CASE LoadIssues(i)
    BY <1>1, <2>2, LoadIssuesOk
  <2>3. CASE StoreIssues(i)
    BY <1>1, <2>3, StoreIssuesOk
  <2>4. CASE StoreAliases(i)
    BY <2>4, StoreAliasesOk DEF StoreAliases
  <2>5. CASE FenceIssues(i)
    BY <1>1, <2>5, FenceIssuesOk
  <2> QED
    BY <1>7, <2>1, <2>2, <2>3, <2>4, <2>5 DEF Issue
<1>8. ASSUME NEW i \in InFlight, Complete(i) \/ LoadWakeup(i) \/ FenceWakeup(i)
      PROVE  QueueInv' /\ UNCHANGED <<prog, head, memory, loaded>>
  BY <1>1, <1>8, CompletesOk
<1>9. ASSUME NEW k \in 0..LsqSize, Annul(k) PROVE QueueInv' /\ UNCHANGED <<prog, head, memory, loaded>>
  BY <1>9, AnnulOk DEF Annul
<1>10. CASE UNCHANGED vars
  BY <1>10, IdleOk DEF vars
<1> QED
  BY <1>2, <1>3, <1>4, <1>5, <1>6, <1>7, <1>8, <1>9, <1>10 DEF Next

(***************************************************************************)
(* The inductive invariant: flags and states of each entry agree, an       *)
(* issued load holds the image of its chunk (issueload), an issued store   *)
(* covers the stores to its chunk in front of it (issuestore), and a uop   *)
(* behind a fence waits for it (find_nearest_memory_fence).                *)
(***************************************************************************)
THEOREM QueueInvariant == Spec => []QueueInv
<1>1. QueueInv /\ [Next]_vars => QueueInv'
  BY NextQueue
<1> QED
  BY InitQueue, <1>1, PTL DEF Spec

(***************************************************************************)
(* The queue keeps its type for every program and size: rename() never     *)
(* puts more than LSQ_SIZE, LDQ_SIZE or STQ_SIZE uops in flight, and a     *)
(* uop waits only for an older store or fence.                             *)
(***************************************************************************)
THEOREM QueueTypeCorrect == Spec => []TypeOK
<1>1. QueueInv => TypeOK
  BY DEF QueueInv
<1> QED
  BY QueueInvariant, <1>1, PTL

(***************************************************************************)
(* No load or store issues past a fence that holds it back until all in    *)
(* front of the fence has committed (issueload, issuestore, issuefence and *)
(* the wakeup of a fence in commit).                                       *)
(***************************************************************************)
THEOREM QueueFencesHold == Spec => []FencesHold
<1>1. QueueInv => FencesHold
  <2> SUFFICES ASSUME QueueInv, NEW i \in InFlight, NEW j \in InFlight, IsFence(i), i < j, At(j).issued,
                      IF IsLoad(j) THEN prog[i].lfence ELSE prog[j].op = "st" /\ prog[i].sfence
               PROVE  i = head + 1
    BY DEF FencesHold
  <2>1. StateOk(j) /\ WaitOk(j) /\ FenceOk(i)
    BY DEF QueueInv, EntryOk
  <2>2. At(j).state \notin {"dispatch", "queued"}
    BY <2>1 DEF StateOk
  <2>3. i \in Older(j) /\ Stops(i, j)
    BY DEF Older, Stops, IsSt
  <2>4. At(i).addrvalid
    BY <2>1, <2>2, <2>3 DEF WaitOk
  <2> QED
    BY <2>1, <2>4 DEF FenceOk
<1> QED
  BY QueueInvariant, <1>1, PTL

\* The safety part of RefinesSequential.
SequentialSafety == Sequential!Init /\ [][Sequential!Step]_(Sequential!vars)

(***************************************************************************)
(* The out-of-order load/store queue implements memory accesses in program *)
(* order: every commit() loads or stores what the program in order does,   *)
(* whatever was reordered, forwarded, replayed, dispatched again or        *)
(* annulled before.                                                        *)
(***************************************************************************)
THEOREM QueueRefinesSequential == Spec => SequentialSafety
<1>1. Init => Sequential!Init
  BY DEF Init, Sequential!Init, Zero, Sequential!Zero
<1>2. QueueInv /\ [Next]_vars => [Sequential!Step]_(Sequential!vars)
  BY NextQueue DEF Sequential!vars
<1> QED
  BY <1>1, <1>2, QueueInvariant, PTL DEF Spec, SequentialSafety
=============================================================================
