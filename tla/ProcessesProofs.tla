--------------------------- MODULE ProcessesProofs ---------------------------
(***************************************************************************)
(* For programs with any number of nested processes, terms and items, and  *)
(* any sizes of memory: what Try leaves of the refal block, the states of  *)
(* the processes, the cells, the counter of steps and the burial store.    *)
(***************************************************************************)
EXTENDS Processes, Lemmas, SequenceTheorems

Item == [name : Name, value : Value]
Stores == Seq(Item)
Block == [upshot : {1}, current : Nat, argument : Nat]
Activation ==
    [state : 1 .. 4, at : {"idle", "start", "try", "opening", "returned"},
     terms : Nat, plain : Nat, store : Stores, step : 0 .. MaxStop,
     saved : Block, leading : Rewrites \cup Functions \cup {None}]

Types == /\ process \in Seq(Activation) /\ process # <<>>
         /\ block \in Block
         /\ free \in Nat /\ total \in Nat /\ total <= MaxSize
         /\ performed \in 0 .. MaxStop - 1

\* The cells that the leading term will give up are there.
Fits(p) == p.leading # None =>
    /\ p.terms > 0
    /\ p.leading.kind = "rewrite" => p.leading.used <= p.plain
    /\ p.leading.kind \notin {"rewrite", "impossible"} => ArgumentCells(p.leading) < p.plain

\* A process in whose step a Try is under way, at depth d.
Waiting(p, d) == /\ p.at = "try" /\ p.state = 4 /\ p.saved = Calling(d - 1)
                 /\ p.leading # None /\ p.terms > 0

\* The process that runs, or is about to run or has stopped, at depth d, when the refal
\* block is b and n steps have been performed.
Resting(p, d, b, n) ==
    /\ p.at \in {"idle", "start", "returned"}
    /\ p.state = 4 <=> p.at = "start"
    /\ p.at = "start" => p.saved = Calling(d - 1)
    /\ p.at # "start" => b = Calling(d - 1)
    /\ Fits(p)
    /\ p.at = "returned" /\ p.state = 1 /\ p.terms > 0 => p.step = MaxStop
    /\ p.step % MaxStop = (n + d - 1) % MaxStop

\* A process that Try has just created: its caller is as the call has found it.
Opening == /\ Top > 1 /\ Running = [Created EXCEPT !.at = "opening"]
           /\ block = Calling(Top - 1)
           /\ Fits(Caller) /\ Caller.leading.kind = "Try"
           /\ Caller.step < MaxStop
           /\ Caller.step % MaxStop = (performed + Top - 2) % MaxStop

\* Only the running process has the store, except while it is being opened.
StoreMoved == \A i \in 1 .. Top - 1 :
    process[i].store = <<>> \/ (i = Top - 1 /\ Running.at = "opening")

Inv == /\ Types
       /\ \A i \in 1 .. Top - 1 : Waiting(process[i], i)
       /\ StoreMoved
       /\ Opening \/ Resting(Running, Top, block, performed)
       /\ outcome # "abort"
       /\ CellsAccounted
-----------------------------------------------------------------------------
\* What a leading function carries, by its kind.
LEMMA Leads ==
    ASSUME NEW f \in Rewrites \cup Functions
    PROVE  /\ f.kind = "rewrite" => /\ f.calls \in Nat /\ f.symbols \in Nat
                                    /\ f.used \in Nat /\ f.used >= 1
           /\ f.kind \in {"Br", "Rp"} => f.name \in Name /\ f.value \in Value
           /\ f.kind = "Try" => f.argument \in Nat
           /\ ArgumentCells(f) \in Nat
<1> USE ProcessesAssumption
<1>1. CASE f \in Rewrites
  BY <1>1 DEF Rewrites, ArgumentCells
<1>2. CASE f \in [kind : {"Br", "Rp"}, name : Name, value : Value]
  BY <1>2 DEF ArgumentCells
<1>3. CASE f \in [kind : {"Dg", "Cp"}, name : Name]
  BY <1>3 DEF ArgumentCells
<1>4. CASE f \in [kind : {"Dgall", "impossible"}]
  BY <1>4 DEF ArgumentCells
<1>5. CASE f \in [kind : {"Try"}, argument : 0 .. MaxPlain - 1]
  BY <1>5 DEF ArgumentCells
<1>6. QED
  BY <1>1, <1>2, <1>3, <1>4, <1>5 DEF Functions

\* The cells of a stack of processes.
Cells(ps) == SumFunction([i \in 1 .. Len(ps) |-> Held(ps[i])])

\* A process holds a natural number of cells.
LEMMA HeldNat == ASSUME NEW p \in Activation PROVE Held(p) \in Nat
BY DEF Activation, Held, ItemCells, Stores

\* The cells of all processes are a sum over their numbers.
LEMMA CellsSum ==
    ASSUME NEW ps \in Seq(Activation)
    PROVE  /\ IsFiniteSet(1 .. Len(ps))
           /\ \A i \in 1 .. Len(ps) : Held(ps[i]) \in Int
           /\ Cells(ps) = SumFunctionOnSet([i \in 1 .. Len(ps) |-> Held(ps[i])], 1 .. Len(ps))
           /\ Cells(ps) \in Int
<1>1. Len(ps) \in Nat /\ \A i \in 1 .. Len(ps) : ps[i] \in Activation
  OBVIOUS
<1>2. IsFiniteSet(1 .. Len(ps))
  BY <1>1, FS_Interval
<1>3. \A i \in 1 .. Len(ps) : Held(ps[i]) \in Int
  BY <1>1, HeldNat
<1> DEFINE f == [i \in 1 .. Len(ps) |-> Held(ps[i])]
<1>4. DOMAIN f = 1 .. Len(ps) /\ \A i \in 1 .. Len(ps) : f[i] \in Int
  BY <1>3
<1>5. Cells(ps) = SumFunctionOnSet(f, DOMAIN f)
  BY DEF Cells, SumFunction
<1> HIDE DEF f
<1>6. Cells(ps) \in Int
  BY <1>2, <1>4, <1>5, SumInt
<1>7. QED
  BY <1>2, <1>3, <1>4, <1>5, <1>6 DEF f

\* Replacing a process replaces what it holds ...
LEMMA CellsPut ==
    ASSUME NEW ps \in Seq(Activation), NEW i \in 1 .. Len(ps), NEW p \in Activation
    PROVE  Cells([ps EXCEPT ![i] = p]) = Cells(ps) - Held(ps[i]) + Held(p)
<1> DEFINE qs == [ps EXCEPT ![i] = p]
           S == 1 .. Len(ps)
           f == [j \in S |-> Held(ps[j])]
           g == [j \in S |-> Held(qs[j])]
<1>1. qs \in Seq(Activation) /\ Len(qs) = Len(ps) /\ qs[i] = p
      /\ \A j \in S \ {i} : qs[j] = ps[j]
  OBVIOUS
<1> HIDE DEF qs
<1>2. /\ IsFiniteSet(S) /\ Cells(ps) = SumFunctionOnSet(f, S)
      /\ Cells(qs) = SumFunctionOnSet(g, S)
      /\ \A j \in S : Held(ps[j]) \in Int
  BY <1>1, CellsSum
<1>3. /\ i \in S /\ \A j \in S : f[j] \in Int
      /\ g[i] = Held(p) /\ g[i] \in Int /\ f[i] = Held(ps[i])
      /\ \A j \in S \ {i} : g[j] = f[j]
  BY <1>1, <1>2, HeldNat
<1> HIDE DEF f, g, S
<1>4. SumFunctionOnSet(g, S) = SumFunctionOnSet(f, S) - f[i] + g[i]
  BY <1>2, <1>3, SumExcept, ZenonT(60)
<1>5. QED
  BY <1>2, <1>3, <1>4 DEF qs

\* ... a process on top adds what it holds ...
LEMMA CellsAppend ==
    ASSUME NEW ps \in Seq(Activation), NEW p \in Activation
    PROVE  Cells(Append(ps, p)) = Cells(ps) + Held(p)
<1> DEFINE qs == Append(ps, p)
           S == 1 .. Len(ps)
           a == Len(ps) + 1
           f == [j \in S |-> Held(ps[j])]
           g == [j \in S \cup {a} |-> Held(qs[j])]
<1>1. /\ qs \in Seq(Activation) /\ Len(qs) = a /\ qs[a] = p
      /\ \A j \in S : qs[j] = ps[j]
      /\ a \notin S /\ 1 .. a = S \cup {a}
  OBVIOUS
<1> HIDE DEF qs
<1>2. /\ IsFiniteSet(S) /\ Cells(ps) = SumFunctionOnSet(f, S)
      /\ Cells(qs) = SumFunctionOnSet(g, S \cup {a})
      /\ \A j \in S : Held(ps[j]) \in Int
      /\ Cells(ps) \in Int
  <2>1. IsFiniteSet(S) /\ Cells(ps) = SumFunctionOnSet(f, S) /\ Cells(ps) \in Int
        /\ \A j \in S : Held(ps[j]) \in Int
    BY CellsSum
  <2>2. Cells(qs) = SumFunctionOnSet([j \in 1 .. Len(qs) |-> Held(qs[j])], 1 .. Len(qs))
    BY <1>1, CellsSum
  <2>3. QED
    BY <1>1, <2>1, <2>2
<1>3. /\ \A j \in S \cup {a} : g[j] \in Int
      /\ g[a] = Held(p) /\ Held(p) \in Int
      /\ \A j \in S : f[j] = g[j]
  BY <1>1, <1>2, HeldNat
<1> HIDE DEF f, g, S, a
<1>4. SumFunctionOnSet(g, S \cup {a}) = g[a] + SumFunctionOnSet(g, S)
  BY <1>1, <1>2, <1>3, SumAdd
<1>5. SumFunctionOnSet(f, S) = SumFunctionOnSet(g, S)
  BY <1>2, <1>3, SumSame
<1>6. QED
  BY <1>2, <1>3, <1>4, <1>5 DEF qs

\* The first k processes of a stack.
LEMMA Lower ==
    ASSUME NEW ps \in Seq(Activation), NEW k \in 0 .. Len(ps)
    PROVE  /\ SubSeq(ps, 1, k) \in Seq(Activation) /\ Len(SubSeq(ps, 1, k)) = k
           /\ \A i \in 1 .. k : SubSeq(ps, 1, k)[i] = ps[i]
<1> DEFINE low == SubSeq(ps, 1, k)
           l == Len(low)
<1>1. k \in Nat /\ \A i \in 1 .. k : ps[i] \in Activation
  OBVIOUS
<1>2. /\ low \in Seq(Activation) /\ l = IF 1 <= k THEN k - 1 + 1 ELSE 0
      /\ \A i \in 1 .. k - 1 + 1 : low[i] = ps[1 + i - 1]
  BY <1>1, SubSeqProperties
<1> HIDE DEF low
<1>3. k - 1 + 1 = k /\ \A i \in 1 .. k : 1 + i - 1 = i
  BY <1>1
<1>4. l = k
  <2> HIDE DEF l
  <2>1. (l = IF 1 <= k THEN k - 1 + 1 ELSE 0) => l = k
    BY <1>1
  <2>2. QED
    BY <1>2, <2>1
<1>5. QED
  BY <1>2, <1>3, <1>4 DEF low

\* ... and so do the cells of the lower processes, one by one.
LEMMA LowerCells ==
    ASSUME NEW ps \in Seq(Activation), NEW k \in Nat, k + 1 <= Len(ps)
    PROVE  Cells(SubSeq(ps, 1, k + 1)) = Cells(SubSeq(ps, 1, k)) + Held(ps[k + 1])
<1> DEFINE low == SubSeq(ps, 1, k)
           high == SubSeq(ps, 1, k + 1)
           p == ps[k + 1]
           whole == Append(low, p)
<1>1. k \in 0 .. Len(ps) /\ k + 1 \in 0 .. Len(ps) /\ k + 1 \in 1 .. Len(ps)
  OBVIOUS
<1>2. /\ low \in Seq(Activation) /\ Len(low) = k
      /\ \A i \in 1 .. k : low[i] = ps[i]
  BY <1>1, Lower
<1>3. /\ high \in Seq(Activation) /\ Len(high) = k + 1
      /\ \A i \in 1 .. k + 1 : high[i] = ps[i]
  BY <1>1, Lower
<1>4. p \in Activation
  BY <1>1
<1> HIDE DEF low, high
<1>5. /\ whole \in Seq(Activation) /\ Len(whole) = k + 1
      /\ \A i \in 1 .. k + 1 : whole[i] = ps[i]
  BY <1>1, <1>2, <1>4
<1>6. Cells(whole) = Cells(low) + Held(p)
  BY <1>2, <1>4, CellsAppend
<1> HIDE DEF whole
<1>7. high = whole
  BY <1>3, <1>5
<1>8. QED
  BY <1>6, <1>7 DEF low, high, p

\* A stack is the processes below the last two, and these.
LEMMA CellsClosed ==
    ASSUME NEW ps \in Seq(Activation), Len(ps) > 1, NEW p \in Activation
    PROVE  LET n == Len(ps)
               low == SubSeq(ps, 1, n - 2)
           IN  /\ low \in Seq(Activation) /\ Len(low) = n - 2
               /\ \A i \in 1 .. n - 2 : low[i] = ps[i]
               /\ Cells(Append(low, p)) = Cells(ps) - Held(ps[n]) - Held(ps[n - 1]) + Held(p)
<1> DEFINE n == Len(ps)
           low == SubSeq(ps, 1, n - 2)
           mid == SubSeq(ps, 1, n - 1)
<1>1. n \in Nat /\ n > 1 /\ n - 2 \in 0 .. n /\ n - 1 \in 0 .. n /\ n \in 0 .. n
      /\ n - 2 \in Nat /\ n - 1 \in Nat /\ n - 1 \in 1 .. n /\ n \in 1 .. n
      /\ n - 2 + 1 = n - 1 /\ n - 1 + 1 = n
  OBVIOUS
<1>2. /\ low \in Seq(Activation) /\ Len(low) = n - 2
      /\ \A i \in 1 .. n - 2 : low[i] = ps[i]
  BY <1>1, Lower
<1>3. SubSeq(ps, 1, n) = ps
  <2> DEFINE all == SubSeq(ps, 1, n)
  <2>1. all \in Seq(Activation) /\ Len(all) = n /\ \A i \in 1 .. n : all[i] = ps[i]
    BY <1>1, Lower
  <2> HIDE DEF all
  <2>2. all = ps
    BY <2>1
  <2>3. QED
    BY <2>2 DEF all
<1>4. Cells(mid) = Cells(low) + Held(ps[n - 1])
  <2> DEFINE k == n - 2
  <2>1. k \in Nat /\ k + 1 <= n /\ k + 1 = n - 1
    BY <1>1
  <2>2. Cells(SubSeq(ps, 1, k + 1)) = Cells(SubSeq(ps, 1, k)) + Held(ps[k + 1])
    <3> HIDE DEF k
    <3>1. QED
      BY <2>1, LowerCells
  <2>3. QED
    BY <2>1, <2>2
<1>5. Cells(ps) = Cells(mid) + Held(ps[n])
  <2> DEFINE k == n - 1
  <2>1. k \in Nat /\ k + 1 <= n /\ k + 1 = n
    BY <1>1
  <2>2. Cells(SubSeq(ps, 1, k + 1)) = Cells(SubSeq(ps, 1, k)) + Held(ps[k + 1])
    <3> HIDE DEF k
    <3>1. QED
      BY <2>1, LowerCells
  <2>3. QED
    BY <1>3, <2>1, <2>2
<1>6. Cells(Append(low, p)) = Cells(low) + Held(p)
  BY <1>2, CellsAppend
<1>7. /\ Cells(low) \in Int /\ Held(p) \in Int
      /\ Held(ps[n]) \in Int /\ Held(ps[n - 1]) \in Int
  <2>1. ps[n] \in Activation /\ ps[n - 1] \in Activation
    BY <1>1
  <2>2. Cells(low) \in Int
    BY <1>2, CellsSum
  <2>3. QED
    BY <2>1, <2>2, HeldNat
<1> DEFINE a == Cells(low)
           b == Held(ps[n - 1])
           c == Held(ps[n])
           d == Held(p)
           e == Cells(ps)
           m == Cells(mid)
<1>8. a \in Int /\ b \in Int /\ c \in Int /\ d \in Int /\ m = a + b /\ e = m + c
  BY <1>4, <1>5, <1>7
<1> HIDE DEF a, b, c, d, e, m
<1>9. a + d = e - c - b + d
  BY <1>8
<1>10. QED
  BY <1>2, <1>6, <1>9 DEF a, b, c, d, e
-----------------------------------------------------------------------------
\* Two counters that agree modulo m go on to agree.
LEMMA NextCongruent ==
    ASSUME NEW a \in Int, NEW b \in Int, NEW m \in Nat, m > 0, a % m = b % m
    PROVE  (a + 1) % m = (b + 1) % m
<1> DEFINE p == a \div m
           q == b \div m
<1>1. p \in Int /\ q \in Int /\ a = m * p + (a % m) /\ b = m * q + (b % m)
      /\ a % m \in Int
  BY Quotient
<1> HIDE DEF p, q
<1> DEFINE r == a % m
<1>2. r \in Int /\ a = m * p + r /\ b = m * q + r
  BY <1>1
<1> HIDE DEF r
<1> DEFINE c == a + 1
           d == b + 1
           k == p - q
<1>3. c \in Int /\ d \in Int /\ k \in Int /\ c = d + m * k
  BY <1>1, <1>2
<1> HIDE DEF c, d, k
<1>4. c % m = d % m
  BY <1>3, Congruent, Zenon
<1>5. QED
  BY <1>4 DEF c, d

\* A counter kept modulo m stands for the whole one.
LEMMA RemainderInside ==
    ASSUME NEW a \in Int, NEW k \in Int, NEW m \in Nat, m > 0
    PROVE  ((a % m) + k) % m = (a + k) % m
<1> DEFINE q == a \div m
           r == a % m
<1>1. q \in Int /\ r \in Int /\ a = m * q + r
  BY Quotient
<1> HIDE DEF q, r
<1>2. a + k = r + k + m * q
  BY <1>1
<1>3. (a + k) % m = (r + k) % m
  <2> DEFINE c == a + k
             d == r + k
  <2>1. c \in Int /\ d \in Int /\ q \in Int /\ c = d + m * q
    BY <1>1, <1>2
  <2> HIDE DEF c, d
  <2>2. c % m = d % m
    BY <2>1, Congruent, Zenon
  <2>3. QED
    BY <2>2 DEF c, d
<1>4. QED
  BY <1>3 DEF r
-----------------------------------------------------------------------------
\* More memory is never less, and what is obtained is free.
LEMMA GrownMemory ==
    ASSUME NEW f \in Nat, NEW t \in Nat, t <= MaxSize
    PROVE  LET g == Grown([free |-> f, total |-> t])
           IN  /\ g.free \in Nat /\ g.free >= f
               /\ g.total \in Nat /\ g.total <= MaxSize
               /\ g.total - g.free = t - f
<1> DEFINE m == [free |-> f, total |-> t]
           size == Min({Increase, MaxSize - m.total})
<1> USE ProcessesAssumption
<1>1. MaxSize - m.total \in Nat /\ Increase \in Nat
  OBVIOUS
<1>2. \E x \in {Increase, MaxSize - m.total} :
          \A y \in {Increase, MaxSize - m.total} : x =< y
  <2>1. CASE Increase =< MaxSize - m.total
    BY <1>1, <2>1
  <2>2. CASE MaxSize - m.total =< Increase
    BY <1>1, <2>2
  <2>3. QED
    BY <1>1, <2>1, <2>2
<1>3. size \in {Increase, MaxSize - m.total} /\ size <= MaxSize - m.total
  BY <1>2 DEF Min
<1>4. size \in Nat /\ size <= MaxSize - t
  BY <1>1, <1>3
<1>5. Grown(m) = [free |-> f + size, total |-> t + size]
  BY DEF Grown
<1> HIDE DEF size
<1>6. QED
  BY <1>4, <1>5

\* Memory that is obtained is free, and never exceeds the bound.
LEMMA ExtendedMemory ==
    ASSUME NEW n \in Nat, free \in Nat, total \in Nat, total <= MaxSize
    PROVE  /\ Extended(n).free \in Nat
           /\ Extended(n).total \in Nat /\ Extended(n).total <= MaxSize
           /\ Extended(n).total - Extended(n).free = total - free
<1> DEFINE once == IF free >= n THEN Memory ELSE Grown(Memory)
<1>1. /\ once.free \in Nat /\ once.total \in Nat /\ once.total <= MaxSize
      /\ once.total - once.free = total - free
      /\ once = [free |-> once.free, total |-> once.total]
  <2>1. Memory = [free |-> free, total |-> total]
    BY DEF Memory
  <2>2. Grown(Memory) = [free |-> Grown(Memory).free, total |-> Grown(Memory).total]
    BY DEF Grown
  <2>3. QED
    BY <2>1, <2>2, GrownMemory
<1>2. Extended(n) = IF once.free >= n THEN once ELSE Grown(once)
  BY DEF Extended
<1> HIDE DEF once
<1>3. /\ Grown(once).free \in Nat /\ Grown(once).total \in Nat /\ Grown(once).total <= MaxSize
      /\ Grown(once).total - Grown(once).free = once.total - once.free
  BY <1>1, GrownMemory
<1>4. QED
  BY <1>1, <1>2, <1>3
-----------------------------------------------------------------------------
\* Under the invariant there is a process that runs, and the cells add up.
LEMMA Depth ==
    ASSUME Inv
    PROVE  /\ Top \in Nat /\ Top >= 1 /\ Running \in Activation
           /\ \A i \in 1 .. Top : process[i] \in Activation
           /\ total = free + Cells(process)
BY DEF Inv, Types, Top, Running, CellsAccounted, Cells

\* A step that replaces the running process by p keeps the invariant when p rests
\* and the cells that it gains are taken from memory.
LEMMA PutStep ==
    ASSUME Inv, Running.at # "opening", NEW p \in Activation, Put(p),
           block' \in Block, performed' \in 0 .. MaxStop - 1, outcome' # "abort",
           free' \in Nat, total' \in Nat, total' <= MaxSize,
           Resting(p, Top, block', performed'),
           total' - free' - Held(p) = total - free - Held(Running)
    PROVE  Inv'
<1>1. /\ Top \in Nat /\ Top >= 1 /\ Running \in Activation /\ Top \in 1 .. Len(process)
      /\ process \in Seq(Activation) /\ total = free + Cells(process)
  BY Depth DEF Inv, Types, Top
<1>2. /\ process' \in Seq(Activation) /\ Len(process') = Len(process)
      /\ process'[Top] = p /\ \A i \in 1 .. Top - 1 : process'[i] = process[i]
  BY <1>1 DEF Put, Top
<1>3. Top' = Top /\ Running' = p
  BY <1>2 DEF Top, Running
<1>4. p.at # "opening"
  BY DEF Resting
<1>5. Types'
  BY <1>1, <1>2 DEF Types, Top
<1>6. \A i \in 1 .. Top' - 1 : Waiting(process'[i], i)
  BY <1>2, <1>3 DEF Inv
<1>7. StoreMoved'
  BY <1>1, <1>2, <1>3, <1>4 DEF Inv, StoreMoved
<1>8. Cells(process') = Cells(process) - Held(Running) + Held(p)
  BY <1>1, CellsPut DEF Put, Running
<1>9. Held(Running) \in Nat /\ Held(p) \in Nat /\ Cells(process) \in Int
  BY <1>1, HeldNat, CellsSum
<1>10. total' = free' + Cells(process')
  <2> DEFINE c == Cells(process)
             d == Cells(process')
             h == Held(Running)
             k == Held(p)
             f == free'
             t == total'
  <2>1. /\ free \in Int /\ total \in Int /\ f \in Int /\ t \in Int
        /\ h \in Int /\ k \in Int /\ c \in Int
        /\ total = free + c /\ d = c - h + k
        /\ t - f - k = total - free - h
    BY <1>1, <1>8, <1>9 DEF Inv, Types
  <2> HIDE DEF c, d, h, k, f, t
  <2>2. t = f + d
    BY <2>1
  <2>3. QED
    BY <2>2 DEF d, f, t
<1>11. CellsAccounted'
  BY <1>10 DEF CellsAccounted, Cells, Top
<1>12. QED
  BY <1>3, <1>5, <1>6, <1>7, <1>11 DEF Inv

\* At START the refal block and the counter belong to the running process.
LEMMA AtStart ==
    ASSUME Inv, At("start")
    PROVE  /\ Running.state = 4 /\ Running.saved = Calling(Top - 1) /\ Fits(Running)
           /\ Running.saved \in Block /\ Running.step \in 0 .. MaxStop
           /\ Running.at = "start" /\ outcome = "running"
           /\ Running.step % MaxStop = (performed + Top - 1) % MaxStop
<1>1. Running \in Activation /\ Running.at = "start" /\ outcome = "running"
  BY Depth DEF At
<1>2. ~ Opening
  BY <1>1 DEF Opening, Created
<1>3. Resting(Running, Top, block, performed)
  BY <1>2 DEF Inv
<1>4. QED
  BY <1>1, <1>3 DEF Resting, Activation

\* A process that stops in a state keeps its lists, its step and what leads it.
LEMMA Stopped ==
    ASSUME NEW r \in Activation, NEW s \in 1 .. 4
    PROVE  LET p == [r EXCEPT !.state = s, !.at = "returned"]
           IN  /\ p \in Activation /\ p.at = "returned" /\ p.state = s /\ p.step = r.step
               /\ p.leading = r.leading /\ p.terms = r.terms /\ p.plain = r.plain
               /\ p.store = r.store
BY DEF Activation

\* EXIT keeps the invariant.
LEMMA ExitStep ==
    ASSUME Inv, At("start"), NEW s \in {1, 2, 3}, Exit(Running, s),
           s = 1 => Running.step = MaxStop \/ Running.terms = 0,
           free' \in Nat, total' \in Nat, total' <= MaxSize, total' - free' = total - free
    PROVE  Inv'
<1> DEFINE p == [Running EXCEPT !.state = s, !.at = "returned"]
<1>1. /\ Top \in Nat /\ Top >= 1 /\ Running \in Activation
      /\ Running.saved = Calling(Top - 1) /\ Fits(Running)
      /\ Running.saved \in Block /\ Running.at = "start" /\ outcome = "running"
      /\ Running.step % MaxStop = (performed + Top - 1) % MaxStop
  BY Depth, AtStart
<1>2. /\ p \in Activation /\ p.at = "returned" /\ p.state = s /\ p.step = Running.step
      /\ p.leading = Running.leading /\ p.terms = Running.terms /\ p.plain = Running.plain
      /\ p.store = Running.store
  <2>1. s \in 1 .. 4
    OBVIOUS
  <2>2. QED
    BY <1>1, <2>1, Stopped, Zenon
<1>3. Put(p) /\ block' = Running.saved /\ UNCHANGED <<outcome, performed>>
  BY DEF Exit
<1> HIDE DEF p
<1>4. Fits(p)
  BY <1>1, <1>2 DEF Fits
<1>5. Resting(p, Top, block', performed')
  BY <1>1, <1>2, <1>3, <1>4 DEF Resting
<1>6. Held(p) = Held(Running)
  BY <1>2 DEF Held
<1>7. performed' \in 0 .. MaxStop - 1 /\ block' \in Block /\ outcome' # "abort"
  BY <1>1, <1>3 DEF Inv, Types
<1>8. total' - free' - Held(p) = total - free - Held(Running)
  BY <1>6
<1>9. QED
  BY <1>1, <1>2, <1>3, <1>5, <1>7, <1>8, PutStep

\* ADVSTEP keeps the invariant.
LEMMA AdvanceStep ==
    ASSUME Inv, At("start"), Running.step < MaxStop, NEW p \in Activation, Advance(p),
           p.state = 4, p.at = "start", p.saved = Running.saved, p.step = Running.step,
           block' \in Block, free' \in Nat, total' \in Nat, total' <= MaxSize,
           total' - free' - Held(p) = total - free - Held(Running)
    PROVE  Inv'
<1> USE ProcessesAssumption
<1> DEFINE q == [p EXCEPT !.step = (@ + 1) % Wrap, !.leading = None]
           s == Running.step
           n == performed
<1>1. /\ Top \in Nat /\ Top >= 1 /\ Running \in Activation
      /\ Running.saved = Calling(Top - 1) /\ s \in 0 .. MaxStop
      /\ Running.at = "start" /\ outcome = "running"
      /\ s % MaxStop = (n + Top - 1) % MaxStop /\ n \in 0 .. MaxStop - 1
  BY Depth, AtStart DEF Inv, Types
<1>2. Put(q) /\ performed' = (n + 1) % MaxStop /\ UNCHANGED outcome
  BY DEF Advance
<1>3. (s + 1) % Wrap = s + 1 /\ s + 1 \in 0 .. MaxStop
  <2> DEFINE a == s + 1
  <2>1. a \in Nat /\ a < Wrap /\ a \in 0 .. MaxStop
    BY <1>1
  <2> HIDE DEF a
  <2>2. a % Wrap = a
    BY <2>1, SmallRemainder
  <2>3. QED
    BY <2>1, <2>2 DEF a
<1>4. /\ q \in Activation /\ q.at = "start" /\ q.state = 4 /\ q.saved = p.saved
      /\ q.leading = None /\ q.step = s + 1
      /\ q.terms = p.terms /\ q.plain = p.plain /\ q.store = p.store
  BY <1>3 DEF Activation
<1>5. q.step % MaxStop = (performed' + Top - 1) % MaxStop
  <2> DEFINE a == n + Top - 1
             k == Top - 1
  <2>1. a \in Int /\ k \in Int /\ n + 1 \in Int /\ s \in Int /\ s % MaxStop = a % MaxStop
        /\ a + 1 = n + 1 + k /\ MaxStop \in Nat /\ MaxStop > 0
    BY <1>1
  <2>2. (s + 1) % MaxStop = (a + 1) % MaxStop
    BY <2>1, NextCongruent
  <2>3. (((n + 1) % MaxStop) + k) % MaxStop = (n + 1 + k) % MaxStop
    BY <2>1, RemainderInside
  <2>4. performed' \in Int /\ performed' + Top - 1 = performed' + k
    BY <1>1, <1>2, Quotient
  <2>5. QED
    BY <1>2, <1>4, <2>1, <2>2, <2>3, <2>4
<1> HIDE DEF q
<1>6. Fits(q)
  BY <1>4 DEF Fits
<1>7. Resting(q, Top, block', performed')
  BY <1>1, <1>4, <1>5, <1>6 DEF Resting
<1>8. Held(q) = Held(p)
  BY <1>4 DEF Held
<1>9. performed' \in 0 .. MaxStop - 1 /\ outcome' # "abort"
  BY <1>1, <1>2, Quotient
<1>10. total' - free' - Held(q) = total - free - Held(Running)
  BY <1>8
<1>11. QED
  BY <1>1, <1>2, <1>4, <1>7, <1>9, <1>10, PutStep
-----------------------------------------------------------------------------
\* What the process that runs knows of its leading term.
LEMMA AtLeading ==
    ASSUME Inv, At("start"), Running.leading # None
    PROVE  LET f == Running.leading
           IN  /\ f \in Rewrites \cup Functions
               /\ Running.terms \in Nat /\ Running.terms > 0 /\ Running.plain \in Nat
               /\ Running.store \in Stores
               /\ f.kind = "rewrite" => /\ f.calls \in Nat /\ f.symbols \in Nat
                                        /\ f.used \in Nat /\ f.used <= Running.plain
               /\ f.kind \notin {"rewrite", "impossible"} =>
                      ArgumentCells(f) \in Nat /\ ArgumentCells(f) < Running.plain
               /\ f.kind \in {"Br", "Rp"} => f.name \in Name /\ f.value \in Value
<1>1. Running \in Activation /\ Fits(Running)
  BY Depth, AtStart
<1>2. /\ Running.leading \in Rewrites \cup Functions /\ Running.terms \in Nat
      /\ Running.plain \in Nat /\ Running.store \in Stores
  BY <1>1 DEF Activation
<1>3. QED
  BY <1>1, <1>2, Leads DEF Fits

\* A process with other contents of its lists.
WithField(r, t, u) == [r EXCEPT !.terms = t, !.plain = u]
WithLists(r, t, u, s) == [r EXCEPT !.terms = t, !.plain = u, !.store = s]

\* Another view field leaves the rest of a process alone.
LEMMA FieldReplaced ==
    ASSUME NEW r, NEW t, NEW u, r \in Activation, t \in Nat, u \in Nat
    PROVE  LET p == WithField(r, t, u)
           IN  /\ p \in Activation /\ p.terms = t /\ p.plain = u /\ p.store = r.store
               /\ p.at = r.at /\ p.state = r.state /\ p.saved = r.saved /\ p.step = r.step
BY DEF Activation, WithField

\* Another view field and another store leave the rest of a process alone.
LEMMA ListsReplaced ==
    ASSUME NEW r, NEW t, NEW u, NEW s,
           r \in Activation, t \in Nat, u \in Nat, s \in Stores
    PROVE  LET p == WithLists(r, t, u, s)
           IN  /\ p \in Activation /\ p.terms = t /\ p.plain = u /\ p.store = s
               /\ p.at = r.at /\ p.state = r.state /\ p.saved = r.saved /\ p.step = r.step
BY DEF Activation, WithLists

\* The step limit is reached: the invariant is preserved.
LEMMA StopStep == ASSUME Inv, Stop PROVE Inv'
<1>1. At("start") /\ Exit(Running, 1) /\ UNCHANGED <<free, total>>
      /\ (Running.step >= MaxStop \/ Running.terms = 0)
  BY DEF Stop
<1>2. Running.step \in 0 .. MaxStop
  BY <1>1, AtStart
<1>3. free' \in Nat /\ total' \in Nat /\ total' <= MaxSize /\ total' - free' = total - free
  BY <1>1 DEF Inv, Types
<1>4. Running.step = MaxStop \/ Running.terms = 0
  BY <1>1, <1>2, ProcessesAssumption
<1>5. QED
  BY <1>1, <1>3, <1>4, ExitStep

\* No sentence fits: the invariant is preserved.
LEMMA ImpossibleStep == ASSUME Inv, Impossible PROVE Inv'
<1>1. At("start") /\ Exit(Running, 2) /\ UNCHANGED <<free, total>>
  BY DEF Impossible, Led
<1>2. free' \in Nat /\ total' \in Nat /\ total' <= MaxSize /\ total' - free' = total - free
  BY <1>1 DEF Inv, Types
<1>3. QED
  BY <1>1, <1>2, ExitStep

\* A sentence is performed: the invariant is preserved.
LEMMA RewriteStep == ASSUME Inv, Rewrite PROVE Inv'
<1> DEFINE r == Running.leading
           need == 2 * r.calls + r.symbols
<1>1. /\ At("start") /\ Running.leading # None /\ r.kind = "rewrite"
      /\ Running.step < MaxStop /\ UNCHANGED total
  BY DEF Rewrite, Led
<1>2. /\ Running.terms \in Nat /\ Running.terms > 0 /\ Running.plain \in Nat
      /\ r.calls \in Nat /\ r.symbols \in Nat /\ r.used \in Nat /\ r.used <= Running.plain
  BY <1>1, AtLeading
<1>3. free \in Nat /\ total' \in Nat /\ total' <= MaxSize /\ need \in Nat
  BY <1>1, <1>2, SMTT(30) DEF Inv, Types
<1>4. CASE free < need
  <2>1. Exit(Running, 3) /\ UNCHANGED free
    BY <1>4 DEF Rewrite
  <2>2. free' \in Nat /\ total' - free' = total - free
    BY <1>1, <1>3, <2>1
  <2>3. QED
    BY <1>1, <1>3, <2>1, <2>2, ExitStep
<1>5. CASE ~ (free < need)
  <2> DEFINE t == Running.terms - 1 + r.calls
             u == Running.plain - r.used + r.symbols
             p == WithField(Running, t, u)
  <2>1. Advance(p) /\ free' = free - need + 2 + r.used /\ UNCHANGED block
    BY <1>5 DEF Rewrite, WithField
  <2>2. t \in Nat /\ u \in Nat /\ Running \in Activation
    BY <1>2, Depth
  <2> HIDE DEF t, u
  <2>3. /\ p \in Activation /\ p.terms = t /\ p.plain = u /\ p.store = Running.store
        /\ p.at = Running.at /\ p.state = Running.state /\ p.saved = Running.saved
        /\ p.step = Running.step
    BY <2>2, FieldReplaced
  <2> HIDE DEF p
  <2>4. Running.at = "start" /\ Running.state = 4
    BY <1>1, AtStart
  <2>5. block' \in Block
    BY <2>1 DEF Inv, Types
  <2>6. free' \in Nat /\ total' - free' - Held(p) = total - free - Held(Running)
    <3> DEFINE f == free'
               g == Running.terms
               h == Running.plain
               l == ItemCells * Len(Running.store)
               c == r.calls
               d == r.symbols
               e == r.used
    <3>1. l \in Int
      BY <2>2 DEF Activation, ItemCells, Stores
    <3>2. /\ g \in Nat /\ h \in Nat /\ c \in Nat /\ d \in Nat /\ e \in Nat
          /\ free \in Nat /\ total \in Int /\ total' = total
          /\ f = free - (2 * c + d) + 2 + e /\ ~ (free < 2 * c + d)
          /\ Held(p) = 2 + 2 * (g - 1 + c) + (h - e + d) + l
          /\ Held(Running) = 2 + 2 * g + h + l
      BY <1>1, <1>2, <1>3, <1>5, <2>1, <2>3 DEF Held, Inv, Types, t, u
    <3> HIDE DEF f, g, h, l, c, d, e
    <3>3. f \in Nat
      BY <3>2
    <3>4. total - f - (2 + 2 * (g - 1 + c) + (h - e + d) + l) = total - free - (2 + 2 * g + h + l)
      BY <3>1, <3>2
    <3>5. QED
      BY <3>2, <3>3, <3>4 DEF f
  <2>7. QED
    BY <1>1, <1>3, <2>1, <2>3, <2>4, <2>5, <2>6, AdvanceStep
<1>6. QED
  BY <1>4, <1>5
-----------------------------------------------------------------------------
\* What a process finds in the refal block when it is called is a block.
LEMMA CallingBlock == ASSUME NEW d \in Nat PROVE Calling(d) \in Block
BY DEF Calling, Block

\* CFDONE keeps the invariant when the cells of the call are divided between the
\* result, the store and memory.
LEMMA ReturnStep ==
    ASSUME Inv, At("start"), Running.step < MaxStop, Running.terms > 0,
           NEW store, NEW used, NEW result, NEW gain,
           store \in Stores, used \in Nat, result \in Nat, gain \in Nat,
           used <= Running.plain, Return(store, used, result, gain),
           gain + result + ItemCells * Len(store)
               = free + used + ItemCells * Len(Running.store)
    PROVE  Inv'
<1> DEFINE t == Running.terms - 1
           u == Running.plain - used + result
           p == WithLists(Running, t, u, store)
<1>1. Advance(p) /\ block' = Calling(Top) /\ free' = gain + 2 /\ UNCHANGED total
  BY DEF Return, WithLists
<1>2. Running \in Activation /\ Top \in Nat
  BY Depth
<1>3. Running.terms \in Nat /\ Running.plain \in Nat /\ Running.store \in Stores
  BY <1>2 DEF Activation
<1>4. t \in Nat /\ u \in Nat
  BY <1>3
<1> HIDE DEF t, u
<1>5. /\ p \in Activation /\ p.terms = t /\ p.plain = u /\ p.store = store
      /\ p.at = Running.at /\ p.state = Running.state /\ p.saved = Running.saved
      /\ p.step = Running.step
  BY <1>2, <1>4, ListsReplaced
<1> HIDE DEF p
<1>6. Running.at = "start" /\ Running.state = 4
  BY AtStart
<1>7. block' \in Block
  BY <1>1, <1>2, CallingBlock
<1>8. total' \in Nat /\ total' <= MaxSize /\ free' \in Nat
  BY <1>1 DEF Inv, Types
<1>9. total' - free' - Held(p) = total - free - Held(Running)
  <2> DEFINE f == free'
             g == Running.terms
             h == Running.plain
             l == ItemCells * Len(Running.store)
             k == ItemCells * Len(store)
  <2>1. l \in Int /\ k \in Int
    BY <1>3 DEF ItemCells, Stores
  <2>2. /\ g \in Nat /\ h \in Nat
        /\ free \in Nat /\ total \in Int /\ total' = total
        /\ f = gain + 2 /\ gain + result + k = free + used + l
        /\ Held(p) = 2 + 2 * (g - 1) + (h - used + result) + k
        /\ Held(Running) = 2 + 2 * g + h + l
    BY <1>1, <1>3, <1>5 DEF Held, Inv, Types, t, u
  <2> HIDE DEF f, g, h, l, k
  <2>3. total - f - (2 + 2 * (g - 1) + (h - used + result) + k) = total - free - (2 + 2 * g + h + l)
    BY <2>1, <2>2
  <2>4. QED
    BY <2>2, <2>3 DEF f
<1>10. QED
  BY <1>1, <1>5, <1>6, <1>7, <1>8, <1>9, AdvanceStep

\* A burial keeps the invariant: the right bracket and the value stay in the store.
LEMMA BuryStep ==
    ASSUME Inv, At("start"), Running.step < MaxStop, Running.terms > 0, Running.plain >= 3,
           NEW n, NEW v, n \in Name, v \in Value, Bury(n, v)
    PROVE  Inv'
<1> DEFINE m == Extended(1)
           item == [name |-> n, value |-> v]
           store == <<item>> \o Running.store
<1>1. /\ m.free \in Nat /\ m.total \in Nat /\ m.total <= MaxSize
      /\ m.total - m.free = total - free
  BY ExtendedMemory DEF Inv, Types
<1>2. CASE m.free < 1
  <2>1. Exit(Running, 3) /\ free' = m.free /\ total' = m.total
    BY <1>2 DEF Bury
  <2> HIDE DEF m
  <2>2. free' \in Nat /\ total' \in Nat /\ total' <= MaxSize /\ total' - free' = total - free
    BY <1>1, <2>1
  <2>3. QED
    BY <2>1, <2>2, ExitStep
<1>3. CASE ~ (m.free < 1)
  <2> DEFINE t == Running.terms - 1
             u == Running.plain - 3
             p == WithLists(Running, t, u, store)
  <2>1. Advance(p) /\ block' = Calling(Top) /\ free' = m.free - 1 + 2 /\ total' = m.total
    BY <1>3 DEF Bury, WithLists
  <2> HIDE DEF m
  <2>2. Running \in Activation /\ Top \in Nat
    BY Depth
  <2>3. Running.terms \in Nat /\ Running.plain \in Nat /\ Running.store \in Stores
    BY <2>2 DEF Activation
  <2>4. t \in Nat /\ u \in Nat
    BY <2>3
  <2>5. item \in Item
    BY DEF Item
  <2> HIDE DEF item
  <2>6. /\ store \in Stores /\ Len(store) = 1 + Len(Running.store)
        /\ Len(Running.store) \in Nat
    BY <2>3, <2>5 DEF Stores
  <2> HIDE DEF t, u, store
  <2>7. /\ p \in Activation /\ p.terms = t /\ p.plain = u /\ p.store = store
        /\ p.at = Running.at /\ p.state = Running.state /\ p.saved = Running.saved
        /\ p.step = Running.step
    BY <2>2, <2>4, <2>6, ListsReplaced
  <2> HIDE DEF p
  <2>8. Running.at = "start" /\ Running.state = 4
    BY AtStart
  <2>9. block' \in Block
    BY <2>1, <2>2, CallingBlock
  <2>10. /\ total' \in Nat /\ total' <= MaxSize /\ free' \in Nat
         /\ total' - free' - Held(p) = total - free - Held(Running)
    <3> DEFINE f == free'
               e == total'
               g == Running.terms
               h == Running.plain
               l == Len(Running.store)
               a == m.free
               b == m.total
    <3>1. /\ g \in Nat /\ h \in Nat /\ l \in Nat /\ a \in Nat /\ b \in Nat
          /\ free \in Nat /\ total \in Int /\ b - a = total - free
          /\ f = a - 1 + 2 /\ e = b
          /\ Held(p) = 2 + 2 * (g - 1) + (h - 3) + 4 * (1 + l)
          /\ Held(Running) = 2 + 2 * g + h + 4 * l
      <4>1. free \in Nat /\ total \in Int
        BY DEF Inv, Types
      <4>2. Held(p) = 2 + 2 * p.terms + p.plain + 4 * Len(p.store)
            /\ Held(Running) = 2 + 2 * g + h + 4 * l
        BY DEF Held, ItemCells
      <4>3. p.terms = g - 1 /\ p.plain = h - 3 /\ Len(p.store) = 1 + l
        BY <2>6, <2>7 DEF t, u
      <4>4. QED
        BY <1>1, <2>1, <2>3, <2>6, <4>1, <4>2, <4>3
    <3>2. b <= MaxSize
      BY <1>1
    <3> HIDE DEF f, e, g, h, l, a, b
    <3>3. f \in Nat
      BY <3>1
    <3>4. b - f - (2 + 2 * (g - 1) + (h - 3) + 4 * (1 + l)) = total - free - (2 + 2 * g + h + 4 * l)
      BY <3>1
    <3>5. QED
      BY <3>1, <3>2, <3>3, <3>4 DEF f, e
  <2>11. QED
    BY <2>1, <2>7, <2>8, <2>9, <2>10, AdvanceStep
<1>4. QED
  BY <1>2, <1>3

\* A call of a function of xstore.c has its argument.
LEMMA AtStoreCall ==
    ASSUME Inv, NEW kind \in {"Br", "Rp", "Dg", "Cp", "Dgall"}, Led(kind)
    PROVE  /\ At("start") /\ Running.step < MaxStop /\ Running.terms > 0
           /\ Running.plain \in Nat /\ Running.store \in Stores
           /\ kind \in {"Br", "Rp"} => /\ Running.plain >= 3
                                       /\ Running.leading.name \in Name
                                       /\ Running.leading.value \in Value
           /\ kind \in {"Dg", "Cp"} => Running.plain >= 2
           /\ Running.plain >= 1
<1>1. /\ At("start") /\ Running.step < MaxStop /\ Running.leading # None
      /\ Running.leading.kind = kind
  BY DEF Led
<1>2. /\ Running.terms > 0 /\ Running.plain \in Nat /\ Running.store \in Stores
      /\ ArgumentCells(Running.leading) < Running.plain
      /\ kind \in {"Br", "Rp"} => Running.leading.name \in Name /\ Running.leading.value \in Value
  BY <1>1, AtLeading
<1>3. /\ kind \in {"Br", "Rp"} => ArgumentCells(Running.leading) = 2
      /\ kind \in {"Dg", "Cp"} => ArgumentCells(Running.leading) = 1
      /\ kind = "Dgall" => ArgumentCells(Running.leading) = 0
  BY <1>1 DEF ArgumentCells
<1>4. QED
  BY <1>1, <1>2, <1>3

\* The youngest item of a name is the first one.
LEMMA YoungestNamed ==
    ASSUME NEW n, Running.store \in Stores, Named(n) # {}
    PROVE  /\ Youngest(n) \in 1 .. Len(Running.store)
           /\ Running.store[Youngest(n)].name = n
           /\ \A i \in 1 .. Len(Running.store) :
                  Running.store[i].name = n => Youngest(n) <= i
<1>1. Named(n) \subseteq Nat /\ Named(n) \subseteq 1 .. Len(Running.store)
  BY DEF Named, Stores
<1>2. \E x \in Named(n) : \A y \in Named(n) : x <= y
  BY <1>1, LeastElement
<1>3. Youngest(n) \in Named(n) /\ \A y \in Named(n) : Youngest(n) <= y
  BY <1>2 DEF Youngest, Min
<1>4. QED
  BY <1>1, <1>3 DEF Named, Stores

\* A value that is replaced leaves as many buried values ...
LEMMA StoreReplaced ==
    ASSUME NEW s \in Stores, NEW i \in 1 .. Len(s), NEW v \in Value
    PROVE  [s EXCEPT ![i].value = v] \in Stores /\ Len([s EXCEPT ![i].value = v]) = Len(s)
<1>1. s[i] \in Item
  BY DEF Stores
<1>2. [s[i] EXCEPT !.value = v] \in Item
  BY <1>1 DEF Item
<1> DEFINE x == [s[i] EXCEPT !.value = v]
<1>3. [s EXCEPT ![i].value = v] = [s EXCEPT ![i] = x]
  OBVIOUS
<1> HIDE DEF x
<1>4. [s EXCEPT ![i] = x] \in Stores /\ Len([s EXCEPT ![i] = x]) = Len(s)
  BY <1>2 DEF Stores, x
<1>5. QED
  BY <1>3, <1>4

\* ... and one that is dug up one less.
LEMMA StoreRemoved ==
    ASSUME NEW s \in Stores, NEW i \in 1 .. Len(s)
    PROVE  RemoveAt(s, i) \in Stores /\ Len(RemoveAt(s, i)) = Len(s) - 1
<1> DEFINE n == Len(s)
           a == SubSeq(s, 1, i - 1)
           b == SubSeq(s, i + 1, n)
<1>1. n \in Nat /\ i \in 1 .. n /\ \A j \in 1 .. n : s[j] \in Item
  BY DEF Stores
<1>2. a \in Seq(Item) /\ Len(a) = i - 1
  <2>1. \A j \in 1 .. i - 1 : s[j] \in Item
    BY <1>1
  <2>2. a \in Seq(Item) /\ Len(a) = IF 1 <= i - 1 THEN i - 1 - 1 + 1 ELSE 0
    BY <1>1, <2>1, SubSeqProperties
  <2> DEFINE l == Len(a)
  <2> HIDE DEF l
  <2>3. (l = IF 1 <= i - 1 THEN i - 1 - 1 + 1 ELSE 0) => l = i - 1
    BY <1>1
  <2>4. QED
    BY <2>2, <2>3 DEF l
<1>3. b \in Seq(Item) /\ Len(b) = n - i
  <2>1. \A j \in i + 1 .. n : s[j] \in Item
    BY <1>1
  <2>2. b \in Seq(Item) /\ Len(b) = IF i + 1 <= n THEN n - (i + 1) + 1 ELSE 0
    BY <1>1, <2>1, SubSeqProperties
  <2> DEFINE l == Len(b)
  <2> HIDE DEF l, n
  <2>3. (l = IF i + 1 <= n THEN n - (i + 1) + 1 ELSE 0) => l = n - i
    BY <1>1
  <2>4. QED
    BY <2>2, <2>3 DEF l
<1>4. RemoveAt(s, i) = a \o b
  BY DEF RemoveAt
<1> HIDE DEF a, b
<1>5. a \o b \in Seq(Item) /\ Len(a \o b) = Len(a) + Len(b)
  BY <1>2, <1>3
<1>6. i - 1 + (n - i) = n - 1
  BY <1>1
<1>7. QED
  BY <1>2, <1>3, <1>4, <1>5, <1>6 DEF Stores

\* Burying preserves the invariant, ...
LEMMA BrStep == ASSUME Inv, Br PROVE Inv'
<1>1. Led("Br") /\ Bury(Running.leading.name, Running.leading.value)
  BY DEF Br
<1>2. /\ At("start") /\ Running.step < MaxStop /\ Running.terms > 0 /\ Running.plain >= 3
      /\ Running.leading.name \in Name /\ Running.leading.value \in Value
  BY <1>1, AtStoreCall
<1>3. QED
  BY <1>1, <1>2, BuryStep

\* ... so does replacing, ...
LEMMA RpStep == ASSUME Inv, Rp PROVE Inv'
<1> DEFINE n == Running.leading.name
           v == Running.leading.value
           i == Youngest(n)
           s == [Running.store EXCEPT ![i].value = v]
<1>1. Led("Rp")
  BY DEF Rp
<1>2. /\ At("start") /\ Running.step < MaxStop /\ Running.terms > 0 /\ Running.plain >= 3
      /\ n \in Name /\ v \in Value /\ Running.plain \in Nat /\ Running.store \in Stores
  BY <1>1, AtStoreCall
<1>3. CASE Named(n) = {}
  <2>1. Bury(n, v)
    BY <1>3 DEF Rp
  <2>2. QED
    BY <1>2, <2>1, BuryStep
<1>4. CASE Named(n) # {}
  <2>1. Return(s, 3, 0, free + 3)
    BY <1>4 DEF Rp
  <2>2. i \in 1 .. Len(Running.store)
    BY <1>2, <1>4, YoungestNamed
  <2>3. s \in Stores /\ Len(s) = Len(Running.store)
    BY <1>2, <2>2, StoreReplaced
  <2> HIDE DEF s, n, v, i
  <2>4. free \in Nat /\ free + 3 \in Nat /\ 3 <= Running.plain
    BY <1>2 DEF Inv, Types
  <2>5. free + 3 + 0 + ItemCells * Len(s) = free + 3 + ItemCells * Len(Running.store)
    BY <2>3, <2>4
  <2>6. QED
    BY <1>2, <2>1, <2>3, <2>4, <2>5, ReturnStep
<1>5. QED
  BY <1>3, <1>4

\* ... digging up, ...
LEMMA DgStep == ASSUME Inv, Dg PROVE Inv'
<1> DEFINE n == Running.leading.name
           i == Youngest(n)
           s == RemoveAt(Running.store, i)
           l == Len(Running.store)
<1>1. Led("Dg")
  BY DEF Dg
<1>2. /\ At("start") /\ Running.step < MaxStop /\ Running.terms > 0 /\ 2 <= Running.plain
      /\ Running.plain \in Nat /\ Running.store \in Stores
  BY <1>1, AtStoreCall
<1>3. free \in Nat /\ l \in Nat
  BY <1>2 DEF Inv, Types, Stores
<1>4. CASE Named(n) = {}
  <2>1. Return(Running.store, 2, 0, free + 2)
    BY <1>4 DEF Dg
  <2>2. free + 2 + 0 + ItemCells * l = free + 2 + ItemCells * l /\ free + 2 \in Nat
    BY <1>3
  <2>3. QED
    BY <1>2, <2>1, <2>2, ReturnStep
<1>5. CASE Named(n) # {}
  <2>1. Return(s, 2, 1, free + 5)
    BY <1>5 DEF Dg
  <2>2. i \in 1 .. l
    BY <1>2, <1>5, YoungestNamed
  <2>3. s \in Stores /\ Len(s) = l - 1
    BY <1>2, <2>2, StoreRemoved
  <2> HIDE DEF s, n, i
  <2>4. free + 5 + 1 + ItemCells * Len(s) = free + 2 + ItemCells * l /\ free + 5 \in Nat
    <3> HIDE DEF l
    <3>1. free + 5 + 1 + 4 * (l - 1) = free + 2 + 4 * l /\ free + 5 \in Nat
      BY <1>3
    <3>2. QED
      BY <2>3, <3>1 DEF ItemCells
  <2>5. QED
    BY <1>2, <2>1, <2>3, <2>4, ReturnStep
<1>6. QED
  BY <1>4, <1>5

\* ... copying, ...
LEMMA CpStep == ASSUME Inv, Cp PROVE Inv'
<1> DEFINE l == Len(Running.store)
<1>1. Led("Cp")
  BY DEF Cp
<1>2. /\ At("start") /\ Running.step < MaxStop /\ Running.terms > 0 /\ 2 <= Running.plain
      /\ Running.plain \in Nat /\ Running.store \in Stores
  BY <1>1, AtStoreCall
<1>3. free \in Nat /\ total \in Nat /\ total <= MaxSize /\ l \in Nat
  BY <1>2 DEF Inv, Types, Stores
<1>4. CASE Named(Running.leading.name) = {}
  <2>1. Return(Running.store, 2, 0, free + 2)
    BY <1>4 DEF Cp
  <2>2. free + 2 + 0 + ItemCells * l = free + 2 + ItemCells * l /\ free + 2 \in Nat
    BY <1>3
  <2>3. QED
    BY <1>2, <2>1, <2>2, ReturnStep
<1>5. CASE Named(Running.leading.name) # {} /\ free < 1
  <2>1. Exit(Running, 3) /\ UNCHANGED <<free, total>>
    BY <1>5 DEF Cp
  <2>2. free' \in Nat /\ total' \in Nat /\ total' <= MaxSize /\ total' - free' = total - free
    BY <1>3, <2>1
  <2>3. QED
    BY <1>2, <2>1, <2>2, ExitStep
<1>6. CASE Named(Running.leading.name) # {} /\ ~ (free < 1)
  <2>1. Return(Running.store, 2, 1, free - 1 + 2)
    BY <1>6 DEF Cp
  <2>2. free - 1 + 2 + 1 + ItemCells * l = free + 2 + ItemCells * l /\ free - 1 + 2 \in Nat
    BY <1>3
  <2>3. QED
    BY <1>2, <2>1, <2>2, ReturnStep
<1>7. QED
  BY <1>4, <1>5, <1>6

\* ... and digging up everything.
LEMMA DgallStep == ASSUME Inv, Dgall PROVE Inv'
<1> DEFINE l == ItemCells * Len(Running.store)
           none == << >>
<1>1. Led("Dgall") /\ Return(none, 1, l, free + 1)
  BY DEF Dgall
<1>2. /\ At("start") /\ Running.step < MaxStop /\ Running.terms > 0 /\ 1 <= Running.plain
      /\ Running.plain \in Nat /\ Running.store \in Stores
  BY <1>1, AtStoreCall
<1>3. free \in Nat /\ l \in Nat
  BY <1>2 DEF Inv, Types, Stores, ItemCells
<1>4. none \in Stores /\ ItemCells * Len(none) = 0
  BY DEF Stores, ItemCells
<1> HIDE DEF l, none
<1>5. free + 1 + l + 0 = free + 1 + l /\ free + 1 \in Nat
  BY <1>3
<1>6. free + 1 + l + ItemCells * Len(none) = free + 1 + ItemCells * Len(Running.store)
  BY <1>4, <1>5 DEF l
<1>7. QED
  BY <1>1, <1>2, <1>3, <1>4, <1>5, <1>6, ReturnStep
-----------------------------------------------------------------------------
Places == {"idle", "start", "try", "opening", "returned"}
Started(r, b, n, a) == [r EXCEPT !.saved = b, !.state = n, !.at = a]
LeadBy(r, f) == [r EXCEPT !.leading = f]
Restarted(r, n, a) == [r EXCEPT !.step = n, !.at = a]
Retried(r, n, a) == [r EXCEPT !.state = n, !.at = a]
Moved(r, a) == [r EXCEPT !.at = a]

\* Two states of a process with the same field, leading term, store and counter.
SameWork(p, r) == /\ p.terms = r.terms /\ p.plain = r.plain /\ p.store = r.store
                  /\ p.leading = r.leading

\* A process that refal_run has started saved the block and kept its work.
LEMMA StartedParts ==
    ASSUME NEW r, NEW b, NEW n, NEW a, r \in Activation, b \in Block, n \in 1 .. 4, a \in Places
    PROVE  LET p == Started(r, b, n, a)
           IN  /\ p \in Activation /\ p.at = a /\ p.state = n /\ p.saved = b
               /\ p.step = r.step /\ SameWork(p, r)
BY DEF Activation, Started, SameWork, Places

\* A process that a term leads has nothing else changed.
LEMMA LeadByParts ==
    ASSUME NEW r, NEW f, r \in Activation, f \in Rewrites \cup Functions
    PROVE  LET p == LeadBy(r, f)
           IN  /\ p \in Activation /\ p.at = r.at /\ p.state = r.state /\ p.saved = r.saved
               /\ p.step = r.step /\ p.terms = r.terms /\ p.plain = r.plain
               /\ p.store = r.store /\ p.leading = f
BY DEF Activation, LeadBy

\* A process whose counter is set again has nothing else changed.
LEMMA RestartedParts ==
    ASSUME NEW r, NEW n, NEW a, r \in Activation, n \in 0 .. MaxStop, a \in Places
    PROVE  LET p == Restarted(r, n, a)
           IN  /\ p \in Activation /\ p.at = a /\ p.state = r.state /\ p.step = n
               /\ SameWork(p, r)
BY DEF Activation, Restarted, SameWork, Places

\* A process that is run again from a state has nothing else changed.
LEMMA RetriedParts ==
    ASSUME NEW r, NEW n, NEW a, r \in Activation, n \in 1 .. 4, a \in Places
    PROVE  LET p == Retried(r, n, a)
           IN  /\ p \in Activation /\ p.at = a /\ p.state = n /\ p.step = r.step
               /\ SameWork(p, r)
BY DEF Activation, Retried, SameWork, Places

\* A process that has moved to another place of the code has nothing else changed.
LEMMA MovedParts ==
    ASSUME NEW r, NEW a, r \in Activation, a \in Places
    PROVE  LET p == Moved(r, a)
           IN  /\ p \in Activation /\ p.at = a /\ p.state = r.state /\ p.step = r.step
               /\ p.saved = r.saved /\ SameWork(p, r)
BY DEF Activation, Moved, SameWork, Places

\* Whoever keeps the work keeps what holds of it, and the cells.
LEMMA SameFits ==
    ASSUME NEW p, NEW r, SameWork(p, r)
    PROVE  (Fits(r) => Fits(p)) /\ Held(p) = Held(r)
BY DEF SameWork, Fits, Held

\* A process that is about to run, or has stopped.
LEMMA AtRest ==
    ASSUME Inv, Running.at \in {"idle", "returned"}
    PROVE  /\ block = Calling(Top - 1) /\ Running.state # 4 /\ Fits(Running)
           /\ Running.at = "returned" /\ Running.state = 1 /\ Running.terms > 0
                 => Running.step = MaxStop
           /\ Running.step % MaxStop = (performed + Top - 1) % MaxStop
<1>1. ~ Opening
  BY DEF Opening, Created
<1>2. Resting(Running, Top, block, performed)
  BY <1>1 DEF Inv
<1>3. QED
  BY <1>2 DEF Resting

\* The call of refal_run preserves the invariant.
LEMMA RunProcessStep == ASSUME Inv, RunProcess PROVE Inv'
<1> DEFINE p == Started(Running, block, 4, "start")
<1>1. At("idle") /\ UNCHANGED <<free, total, performed>>
  BY DEF RunProcess
<1>2. Running.at = "idle" /\ outcome = "running"
  BY <1>1 DEF At
<1>3. /\ block = Calling(Top - 1) /\ Running.state # 4 /\ Fits(Running)
      /\ Running.step % MaxStop = (performed + Top - 1) % MaxStop
  BY <1>2, AtRest
<1>4. Put(p) /\ block' = [block EXCEPT !.current = Top] /\ UNCHANGED outcome
  BY <1>3 DEF RunProcess, Started
<1>5. Running \in Activation /\ Top \in Nat /\ block \in Block
  BY Depth DEF Inv, Types
<1>6. /\ p \in Activation /\ p.at = "start" /\ p.state = 4 /\ p.saved = block
      /\ p.step = Running.step /\ SameWork(p, Running)
  <2>1. 4 \in 1 .. 4 /\ "start" \in Places
    BY DEF Places
  <2>2. QED
    BY <1>5, <2>1, StartedParts, Zenon
<1> HIDE DEF p
<1>7. Fits(p) /\ Held(p) = Held(Running)
  BY <1>3, <1>6, SameFits
<1>8. Resting(p, Top, block', performed')
  BY <1>1, <1>3, <1>6, <1>7 DEF Resting
<1>9. block' \in Block
  BY <1>4, <1>5 DEF Block
<1>10. /\ free' \in Nat /\ total' \in Nat /\ total' <= MaxSize /\ performed' \in 0 .. MaxStop - 1
       /\ total' - free' - Held(p) = total - free - Held(Running)
  BY <1>1, <1>7 DEF Inv, Types
<1>11. QED
  BY <1>2, <1>4, <1>6, <1>8, <1>9, <1>10, PutStep

\* Taking up the next leading term preserves the invariant.
LEMMA LeadStep == ASSUME Inv, Lead PROVE Inv'
<1>1. /\ At("start") /\ Running.terms > 0
      /\ UNCHANGED <<block, free, total, outcome, performed>>
  BY DEF Lead
<1>2. PICK f \in Rewrites \cup Functions :
          /\ Put(LeadBy(Running, f))
          /\ f.kind = "rewrite" => f.used <= Running.plain
          /\ f.kind \notin {"rewrite", "impossible"} => ArgumentCells(f) < Running.plain
  <2>1. CASE \E r \in Rewrites : r.used <= Running.plain /\ Put([Running EXCEPT !.leading = r])
    <3>1. PICK r \in Rewrites : r.used <= Running.plain /\ Put(LeadBy(Running, r))
      BY <2>1 DEF LeadBy
    <3>2. r.kind = "rewrite"
      BY DEF Rewrites
    <3>3. QED
      BY <3>1, <3>2
  <2>2. CASE \E f \in Functions : /\ f.kind # "impossible" => ArgumentCells(f) < Running.plain
                                  /\ Put([Running EXCEPT !.leading = f])
    <3>1. PICK f \in Functions : /\ f.kind # "impossible" => ArgumentCells(f) < Running.plain
                                 /\ Put(LeadBy(Running, f))
      BY <2>2 DEF LeadBy
    <3>2. f.kind # "rewrite"
      BY DEF Functions
    <3>3. QED
      BY <3>1, <3>2
  <2>3. QED
    BY <2>1, <2>2 DEF Lead
<1> DEFINE p == LeadBy(Running, f)
<1>3. /\ Running.state = 4 /\ Running.saved = Calling(Top - 1)
      /\ Running.at = "start" /\ outcome = "running"
      /\ Running.step % MaxStop = (performed + Top - 1) % MaxStop
      /\ Running \in Activation
  BY <1>1, AtStart, Depth
<1>4. /\ p \in Activation /\ p.at = "start" /\ p.state = 4 /\ p.saved = Calling(Top - 1)
      /\ p.step = Running.step /\ p.terms = Running.terms /\ p.plain = Running.plain
      /\ p.store = Running.store /\ p.leading = f
  BY <1>3, LeadByParts
<1>5. Put(p)
  BY <1>2
<1> HIDE DEF p
<1>6. Fits(p)
  BY <1>1, <1>2, <1>4 DEF Fits
<1>7. Resting(p, Top, block', performed')
  BY <1>1, <1>3, <1>4, <1>6 DEF Resting
<1>8. Held(p) = Held(Running)
  BY <1>4 DEF Held
<1>9. /\ block' \in Block /\ performed' \in 0 .. MaxStop - 1 /\ outcome' # "abort"
      /\ free' \in Nat /\ total' \in Nat /\ total' <= MaxSize
      /\ total' - free' - Held(p) = total - free - Held(Running)
  BY <1>1, <1>3, <1>8 DEF Inv, Types
<1>10. QED
  BY <1>3, <1>4, <1>5, <1>7, <1>9, PutStep

\* What is obtained when cells lack is free.
LEMMA GrowStep ==
    ASSUME Inv, MoreFreeMemory
    PROVE  /\ free' \in Nat /\ total' \in Nat /\ total' <= MaxSize
           /\ total' - free' = total - free
BY GrownMemory DEF MoreFreeMemory, Memory, Inv, Types

\* A process that has stopped is run again in a state and with a counter that the
\* steps done so far explain.
LEMMA RunAgain ==
    ASSUME Inv, Running.at = "returned", NEW p, p \in Activation, Put(p),
           p.at = "idle", p.state # 4, SameWork(p, Running),
           p.step % MaxStop = Running.step % MaxStop,
           UNCHANGED <<block, performed>>, outcome' # "abort",
           free' \in Nat, total' \in Nat, total' <= MaxSize, total' - free' = total - free
    PROVE  Inv'
<1>1. /\ block = Calling(Top - 1) /\ Fits(Running)
      /\ Running.step % MaxStop = (performed + Top - 1) % MaxStop
  BY AtRest
<1>2. Fits(p) /\ Held(p) = Held(Running)
  BY <1>1, SameFits
<1>3. Resting(p, Top, block', performed')
  BY <1>1, <1>2 DEF Resting
<1>4. /\ block' \in Block /\ performed' \in 0 .. MaxStop - 1
      /\ total' - free' - Held(p) = total - free - Held(Running)
  BY <1>2 DEF Inv, Types
<1>5. QED
  BY <1>3, <1>4, PutStep

\* The counter that is reset at the limit stays congruent to the steps performed.
LEMMA ZeroAgain == 0 % MaxStop = MaxStop % MaxStop
<1>1. 0 \in Int /\ MaxStop \in Int /\ MaxStop \in Nat /\ MaxStop > 0
  BY ProcessesAssumption
<1>2. 1 \in Int /\ MaxStop = 0 + MaxStop * 1
  BY <1>1
<1>3. MaxStop % MaxStop = 0 % MaxStop
  BY <1>1, <1>2, Congruent, Zenon
<1>4. QED
  BY <1>3

\* Repeating a step that lacked cells preserves the invariant.
LEMMA AgainStep == ASSUME Inv, Again PROVE Inv'
<1>1. /\ At("returned") /\ Running.terms > 0 /\ UNCHANGED <<block, outcome, performed>>
  BY DEF Again
<1>2. Running.at = "returned" /\ outcome' # "abort" /\ Running \in Activation
  BY <1>1, Depth DEF At
<1>3. 1 \in 1 .. 4 /\ 0 \in 0 .. MaxStop /\ "idle" \in Places
  BY ProcessesAssumption DEF Places
<1>4. CASE Running.state = 1 /\ Put([Running EXCEPT !.step = 0, !.at = "idle"])
           /\ UNCHANGED <<free, total>>
  <2> DEFINE p == Restarted(Running, 0, "idle")
  <2>1. Put(p)
    BY <1>4 DEF Restarted
  <2>2. /\ p \in Activation /\ p.at = "idle" /\ p.state = Running.state /\ p.step = 0
        /\ SameWork(p, Running)
    BY <1>2, <1>3, RestartedParts, Zenon
  <2> HIDE DEF p
  <2>3. p.step % MaxStop = Running.step % MaxStop
    BY <1>1, <1>2, <1>4, <2>2, AtRest, ZeroAgain
  <2>4. free' \in Nat /\ total' \in Nat /\ total' <= MaxSize /\ total' - free' = total - free
    BY <1>4 DEF Inv, Types
  <2>5. p.state # 4
    BY <1>4, <2>2
  <2>6. QED
    BY <1>1, <1>2, <2>1, <2>2, <2>3, <2>4, <2>5, RunAgain
<1>5. CASE Running.state = 3 /\ Put([Running EXCEPT !.state = 1, !.at = "idle"])
           /\ MoreFreeMemory
  <2> DEFINE p == Retried(Running, 1, "idle")
  <2>1. Put(p)
    BY <1>5 DEF Retried
  <2>2. /\ p \in Activation /\ p.at = "idle" /\ p.state = 1 /\ p.step = Running.step
        /\ SameWork(p, Running)
    BY <1>2, <1>3, RetriedParts, Zenon
  <2> HIDE DEF p
  <2>3. p.step % MaxStop = Running.step % MaxStop /\ p.state # 4
    BY <2>2
  <2>4. free' \in Nat /\ total' \in Nat /\ total' <= MaxSize /\ total' - free' = total - free
    BY <1>5, GrowStep
  <2>5. QED
    BY <1>1, <1>2, <2>1, <2>2, <2>3, <2>4, RunAgain
<1>6. QED
  BY <1>4, <1>5 DEF Again

\* A step that touches neither processes nor memory preserves the invariant.
LEMMA StayStep ==
    ASSUME Inv, UNCHANGED <<process, block, free, total, performed>>, outcome' # "abort"
    PROVE  Inv'
BY DEF Inv, Types, Waiting, StoreMoved, Opening, Resting, Running, Top, Caller, CellsAccounted

\* Continuing after the limit preserves the invariant.
LEMMA ContinueStep == ASSUME Inv, Continue PROVE Inv'
<1>1. At("returned") /\ UNCHANGED <<block, performed>>
  BY DEF Continue
<1>2. Running.at = "returned" /\ outcome = "running" /\ Running \in Activation
  BY <1>1, Depth DEF At
<1>3. 0 \in 0 .. MaxStop /\ "idle" \in Places
  BY ProcessesAssumption DEF Places
<1>4. CASE Running.state = 3 /\ CanGrow
  <2> DEFINE p == Moved(Running, "idle")
  <2>1. Put(p) /\ MoreFreeMemory /\ UNCHANGED outcome
    BY <1>4 DEF Continue, Moved
  <2>2. /\ p \in Activation /\ p.at = "idle" /\ p.state = Running.state
        /\ p.step = Running.step /\ SameWork(p, Running)
    BY <1>2, <1>3, MovedParts
  <2> HIDE DEF p
  <2>3. free' \in Nat /\ total' \in Nat /\ total' <= MaxSize /\ total' - free' = total - free
    BY <2>1, GrowStep
  <2>4. p.state # 4 /\ p.step % MaxStop = Running.step % MaxStop /\ outcome' # "abort"
    BY <1>2, <1>4, <2>1, <2>2
  <2>5. QED
    BY <1>1, <1>2, <2>1, <2>2, <2>3, <2>4, RunAgain
<1>5. CASE ~ (Running.state = 3 /\ CanGrow) /\ Running.state = 1 /\ Running.terms > 0
  <2> DEFINE p == Restarted(Running, 0, "idle")
  <2>1. Put(p) /\ UNCHANGED <<outcome, free, total>>
    BY <1>5 DEF Continue, Restarted
  <2>2. /\ p \in Activation /\ p.at = "idle" /\ p.state = Running.state /\ p.step = 0
        /\ SameWork(p, Running)
    BY <1>2, <1>3, RestartedParts, Zenon
  <2> HIDE DEF p
  <2>3. p.step % MaxStop = Running.step % MaxStop
    BY <1>2, <1>5, <2>2, AtRest, ZeroAgain
  <2>4. free' \in Nat /\ total' \in Nat /\ total' <= MaxSize /\ total' - free' = total - free
    BY <2>1 DEF Inv, Types
  <2>5. p.state # 4 /\ outcome' # "abort"
    BY <1>2, <1>5, <2>1, <2>2
  <2>6. QED
    BY <1>1, <1>2, <2>1, <2>2, <2>3, <2>4, <2>5, RunAgain
<1>6. CASE ~ (Running.state = 3 /\ CanGrow) /\ ~ (Running.state = 1 /\ Running.terms > 0)
  <2>1. UNCHANGED <<process, free, total>> /\ outcome' \in {"done", "stuck", "exhausted"}
    BY <1>6 DEF Continue
  <2>2. QED
    BY <1>1, <2>1, StayStep
<1>7. QED
  BY <1>4, <1>5, <1>6
-----------------------------------------------------------------------------
\* The end of the upper process keeps the invariant when p rests in the place of its
\* caller and the cells of both are divided between p and memory.
LEMMA CloseStep ==
    ASSUME Inv, Top > 1, NEW p \in Activation, Close(p),
           block' \in Block, performed' \in 0 .. MaxStop - 1, outcome' # "abort",
           free' \in Nat, total' \in Nat, total' <= MaxSize,
           Resting(p, Top - 1, block', performed'),
           total' - free' - Held(p) = total - free - Held(Running) - Held(Caller)
    PROVE  Inv'
<1> DEFINE low == SubSeq(process, 1, Top - 2)
<1>1. /\ Top \in Nat /\ process \in Seq(Activation) /\ total = free + Cells(process)
      /\ Running \in Activation /\ Caller \in Activation
  <2>1. /\ Top \in Nat /\ process \in Seq(Activation) /\ total = free + Cells(process)
        /\ \A i \in 1 .. Top : process[i] \in Activation
    BY Depth DEF Inv, Types
  <2>2. Top \in 1 .. Top /\ Top - 1 \in 1 .. Top
    BY <2>1
  <2>3. QED
    BY <2>1, <2>2 DEF Running, Caller
<1>2. /\ low \in Seq(Activation) /\ Len(low) = Top - 2
      /\ \A i \in 1 .. Top - 2 : low[i] = process[i]
      /\ Cells(Append(low, p)) = Cells(process) - Held(Running) - Held(Caller) + Held(p)
  BY <1>1, CellsClosed DEF Top, Running, Caller
<1> HIDE DEF low
<1>3. process' = Append(low, p)
  BY DEF Close, low
<1>4. /\ process' \in Seq(Activation) /\ Len(process') = Top - 1 /\ process' # <<>>
      /\ process'[Top - 1] = p /\ \A i \in 1 .. Top - 2 : process'[i] = process[i]
  BY <1>1, <1>2, <1>3, SMTT(30)
<1>5. Top' = Top - 1 /\ Running' = p
  BY <1>4 DEF Top, Running
<1>6. p.at # "opening"
  BY DEF Resting
<1>7. Types'
  BY <1>4 DEF Types
<1>8. \A i \in 1 .. Top' - 1 : Waiting(process'[i], i)
  BY <1>1, <1>4, <1>5 DEF Inv
<1>9. StoreMoved'
  BY <1>1, <1>4, <1>5, <1>6, SMTT(30) DEF Inv, StoreMoved
<1>10. total' = free' + Cells(process')
  <2> DEFINE c == Cells(process)
             d == Cells(process')
             h == Held(Running)
             g == Held(Caller)
             k == Held(p)
             f == free'
             t == total'
  <2>1. h \in Int /\ k \in Int /\ g \in Int /\ c \in Int
    <3>1. h \in Nat /\ k \in Nat /\ g \in Nat
      BY <1>1, HeldNat
    <3>2. c \in Int
      BY <1>1, CellsSum
    <3>3. QED
      BY <3>1, <3>2
  <2>2. /\ free \in Int /\ total \in Int /\ f \in Int /\ t \in Int
        /\ total = free + c /\ d = c - h - g + k
        /\ t - f - k = total - free - h - g
    BY <1>1, <1>2, <1>3 DEF Inv, Types
  <2> HIDE DEF c, d, h, g, k, f, t
  <2>3. c = total - free
    BY <2>1, <2>2
  <2>4. t - f = c - h - g + k
    BY <2>1, <2>2, <2>3
  <2>5. t = f + d
    BY <2>1, <2>2, <2>4
  <2>6. QED
    BY <2>5 DEF d, f, t
<1>11. CellsAccounted'
  BY <1>10 DEF CellsAccounted, Cells, Top
<1>12. QED
  BY <1>5, <1>7, <1>8, <1>9, <1>11 DEF Inv

\* The process that waits for the running one.
LEMMA AtCaller ==
    ASSUME Inv, Top > 1
    PROVE  /\ Top \in Nat /\ Top - 1 \in 1 .. Top /\ Caller \in Activation
           /\ Waiting(Caller, Top - 1)
           /\ Running.at # "opening" => Caller.store = <<>>
<1>1. Top \in Nat /\ \A i \in 1 .. Top : process[i] \in Activation
  BY Depth
<1>2. Top - 1 \in 1 .. Top /\ Top - 1 \in 1 .. Top - 1
  BY <1>1
<1>3. QED
  BY <1>1, <1>2 DEF Inv, StoreMoved, Caller

\* A process that was just created holds its two heads only.
LEMMA CreatedHeld ==
    LET p == [Created EXCEPT !.at = "opening"]
    IN  p \in Activation /\ Held(p) = 2 /\ p.at = "opening"
<1>1. Created.saved \in Block
  BY DEF Created, Outside, Block
<1>2. 0 \in 0 .. MaxStop
  BY ProcessesAssumption
<1>3. <<>> \in Stores /\ Len(<<>>) = 0
  BY DEF Stores
<1>4. Created \in Activation
  BY <1>1, <1>2, <1>3 DEF Created, Activation
<1> DEFINE p == [Created EXCEPT !.at = "opening"]
<1>5. p \in Activation
  BY <1>4 DEF Activation
<1>6. p.terms = 0 /\ p.plain = 0 /\ p.store = <<>> /\ p.at = "opening"
  BY DEF Created
<1> HIDE DEF p
<1>7. Held(p) = 2 + 2 * 0 + 0 + 4 * 0
  BY <1>3, <1>6 DEF Held, ItemCells
<1>8. QED
  BY <1>5, <1>6, <1>7 DEF p

\* The call of Try preserves the invariant.
LEMMA TryStep == ASSUME Inv, Try PROVE Inv'
<1> DEFINE new == [Created EXCEPT !.at = "opening"]
           p == Moved(Running, "try")
           qs == [process EXCEPT ![Top] = p]
<1>1. Led("Try") /\ UNCHANGED total
  BY DEF Try
<1>2. /\ At("start") /\ Running.step < MaxStop /\ Running.leading # None
      /\ Running.leading.kind = "Try"
  BY <1>1 DEF Led
<1>3. /\ Running.state = 4 /\ Running.saved = Calling(Top - 1) /\ Fits(Running)
      /\ Running.at = "start" /\ outcome = "running" /\ Running.terms > 0
      /\ Running.step % MaxStop = (performed + Top - 1) % MaxStop
  BY <1>2, AtStart DEF Fits
<1>4. /\ Top \in Nat /\ Top >= 1 /\ Running \in Activation /\ process \in Seq(Activation)
      /\ total = free + Cells(process) /\ Top \in 1 .. Len(process)
      /\ free \in Nat /\ total \in Nat /\ total <= MaxSize /\ performed \in 0 .. MaxStop - 1
  BY Depth DEF Inv, Types, Top
<1>5. CASE free < 2
  <2>1. Exit(Running, 3) /\ UNCHANGED free
    BY <1>5 DEF Try
  <2>2. free' \in Nat /\ total' \in Nat /\ total' <= MaxSize /\ total' - free' = total - free
    BY <1>1, <1>4, <2>1
  <2>3. QED
    BY <1>2, <2>1, <2>2, ExitStep
<1>6. CASE ~ (free < 2)
  <2>1. /\ process' = Append([process EXCEPT ![Top].at = "try"], new)
        /\ block' = Calling(Top) /\ free' = free - 2 /\ UNCHANGED <<outcome, performed>>
    BY <1>6 DEF Try
  <2>2. [process EXCEPT ![Top].at = "try"] = qs
    BY DEF Moved, Running
  <2>3. "try" \in Places
    BY DEF Places
  <2>4. /\ p \in Activation /\ p.at = "try" /\ p.state = 4 /\ p.saved = Calling(Top - 1)
        /\ p.step = Running.step /\ SameWork(p, Running)
    BY <1>3, <1>4, <2>3, MovedParts
  <2>5. new \in Activation /\ Held(new) = 2 /\ new.at = "opening"
    BY CreatedHeld
  <2> HIDE DEF p, new
  <2>6. Fits(p) /\ Held(p) = Held(Running)
    BY <1>3, <2>4, SameFits
  <2>7. /\ qs \in Seq(Activation) /\ Len(qs) = Top /\ qs[Top] = p
        /\ \A i \in 1 .. Top - 1 : qs[i] = process[i]
    BY <1>4, <2>4 DEF Top
  <2>8. Cells(qs) = Cells(process)
    <3>1. Cells(qs) = Cells(process) - Held(process[Top]) + Held(p)
      BY <1>4, <2>4, CellsPut
    <3>2. Held(process[Top]) = Held(p) /\ Held(p) \in Nat /\ Cells(process) \in Int
      BY <1>4, <2>4, <2>6, HeldNat, CellsSum DEF Running
    <3> DEFINE c == Cells(process)
               h == Held(p)
    <3> HIDE DEF c, h, qs
    <3>3. c \in Int /\ h \in Int /\ c - h + h = c
      BY <3>2 DEF c, h
    <3>4. QED
      BY <3>1, <3>2, <3>3 DEF c, h
  <2> HIDE DEF qs
  <2>9. /\ process' \in Seq(Activation) /\ Len(process') = Top + 1 /\ process' # <<>>
        /\ process'[Top + 1] = new /\ process'[Top] = p
        /\ \A i \in 1 .. Top - 1 : process'[i] = process[i]
    <3>1. process' = Append(qs, new)
      BY <2>1, <2>2
    <3>2. Append(qs, new) \in Seq(Activation) /\ Append(qs, new) # <<>>
          /\ Len(Append(qs, new)) = Top + 1
      BY <1>4, <2>5, <2>7
    <3>3. Append(qs, new)[Top + 1] = new /\ \A i \in 1 .. Top : Append(qs, new)[i] = qs[i]
      BY <1>4, <2>5, <2>7
    <3>4. Top \in 1 .. Top /\ \A i \in 1 .. Top - 1 : i \in 1 .. Top
      BY <1>4
    <3>5. QED
      BY <2>7, <3>1, <3>2, <3>3, <3>4
  <2>10. Top' = Top + 1 /\ Running' = new /\ Caller' = p /\ Top' - 1 = Top
    BY <1>4, <2>9 DEF Top, Running, Caller
  <2>11. Types'
    <3>1. block' \in Block
      BY <1>4, <2>1, CallingBlock
    <3>2. QED
      BY <1>1, <1>4, <1>6, <2>1, <2>9, <3>1 DEF Types
  <2>12. ASSUME NEW i \in 1 .. Top' - 1 PROVE Waiting(process'[i], i)
    <3>1. CASE i = Top
      <4>1. p.leading # None /\ p.terms > 0
        BY <1>2, <1>3, <2>4 DEF SameWork
      <4>2. QED
        BY <2>4, <2>9, <3>1, <4>1 DEF Waiting
    <3>2. CASE i # Top
      BY <1>4, <2>9, <2>10, <3>2 DEF Inv
    <3>3. QED
      BY <3>1, <3>2
  <2>13. StoreMoved'
    <3>1. ASSUME NEW i \in 1 .. Top' - 1
          PROVE  process'[i].store = <<>> \/ (i = Top' - 1 /\ Running'.at = "opening")
      <4>1. CASE i = Top
        BY <2>5, <2>10, <4>1
      <4>2. CASE i # Top
        BY <1>3, <1>4, <2>9, <2>10, <4>2 DEF Inv, StoreMoved
      <4>3. QED
        BY <4>1, <4>2
    <3>2. QED
      BY <3>1 DEF StoreMoved
  <2>14. Opening'
    <3>1. Top' > 1 /\ Top' - 2 = Top - 1 /\ performed' + Top' - 2 = performed + Top - 1
      BY <1>4, <2>1, <2>10
    <3>2. block' = Calling(Top' - 1)
      BY <2>1, <2>10
    <3>3. Running' = [Created EXCEPT !.at = "opening"]
      BY <2>10 DEF new
    <3>4. Caller'.leading.kind = "Try" /\ Caller'.step < MaxStop
      BY <1>2, <2>4, <2>10 DEF SameWork
    <3>5. Fits(Caller')
      BY <2>6, <2>10
    <3>6. Caller'.step % MaxStop = (performed' + Top' - 2) % MaxStop
      BY <1>3, <2>4, <2>10, <3>1
    <3>7. QED
      BY <3>1, <3>2, <3>3, <3>4, <3>5, <3>6 DEF Opening, Fits
  <2>15. total' = free' + Cells(process')
    <3>1. Cells(process') = Cells(process) + 2 /\ Cells(process) \in Int
      BY <1>4, <2>1, <2>2, <2>5, <2>7, <2>8, CellsAppend, CellsSum
    <3> DEFINE c == Cells(process)
               d == Cells(process')
               f == free'
    <3>2. c \in Int /\ d = c + 2 /\ f = free - 2 /\ total = free + c /\ free \in Int /\ total \in Int
      BY <1>4, <2>1, <3>1
    <3> HIDE DEF c, d, f
    <3>3. total = f + d
      BY <3>2
    <3>4. QED
      BY <1>1, <3>3 DEF d, f
  <2>16. CellsAccounted'
    BY <2>15 DEF CellsAccounted, Cells, Top
  <2>17. QED
    BY <1>3, <2>1, <2>11, <2>12, <2>13, <2>14, <2>16 DEF Inv
<1>7. QED
  BY <1>5, <1>6
-----------------------------------------------------------------------------
Lent(r, u, s, n) == [r EXCEPT !.plain = u, !.store = s, !.step = n]
Begun(r, t, u, s, n, a) ==
    [r EXCEPT !.terms = t, !.plain = u, !.store = s, !.step = n, !.at = a]
GivenBack(r, n, s, a, f, t, u) ==
    [r EXCEPT !.step = n, !.store = s, !.at = a, !.leading = f, !.terms = t, !.plain = u]

\* A process that lends its store to Try has nothing else changed.
LEMMA LentParts ==
    ASSUME NEW r, NEW u, NEW s, NEW n,
           r \in Activation, u \in Nat, s \in Stores, n \in 0 .. MaxStop
    PROVE  LET p == Lent(r, u, s, n)
           IN  /\ p \in Activation /\ p.at = r.at /\ p.state = r.state /\ p.saved = r.saved
               /\ p.leading = r.leading /\ p.terms = r.terms
               /\ p.plain = u /\ p.store = s /\ p.step = n
BY DEF Activation, Lent

\* A process that begins inside Try has the argument and the store it was lent.
LEMMA BegunParts ==
    ASSUME NEW r, NEW t, NEW u, NEW s, NEW n, NEW a, r \in Activation,
           t \in Nat, u \in Nat, s \in Stores, n \in 0 .. MaxStop, a \in Places
    PROVE  LET p == Begun(r, t, u, s, n, a)
           IN  /\ p \in Activation /\ p.at = a /\ p.state = r.state /\ p.saved = r.saved
               /\ p.leading = r.leading /\ p.terms = t
               /\ p.plain = u /\ p.store = s /\ p.step = n
BY DEF Activation, Begun, Places

\* A process that takes its store and a result back from Try has nothing else changed.
LEMMA GivenBackParts ==
    ASSUME NEW r, NEW n, NEW s, NEW a, NEW f, NEW t, NEW u, r \in Activation,
           n \in 0 .. MaxStop, s \in Stores, a \in Places,
           f \in Rewrites \cup Functions \cup {None}, t \in Nat, u \in Nat
    PROVE  LET p == GivenBack(r, n, s, a, f, t, u)
           IN  /\ p \in Activation /\ p.at = a /\ p.state = r.state /\ p.saved = r.saved
               /\ p.leading = f /\ p.terms = t /\ p.plain = u /\ p.store = s /\ p.step = n
BY DEF Activation, GivenBack, Places

\* A process that is being opened, and its caller.
LEMMA AtOpening ==
    ASSUME Inv, At("opening")
    PROVE  /\ outcome = "running" /\ Top > 1 /\ Running = [Created EXCEPT !.at = "opening"]
           /\ block = Calling(Top - 1) /\ Fits(Caller) /\ Caller.leading.kind = "Try"
           /\ Caller.step \in 0 .. MaxStop /\ Caller.step < MaxStop
           /\ Caller.step % MaxStop = (performed + Top - 2) % MaxStop
           /\ Caller.terms \in Nat /\ Caller.plain \in Nat /\ Caller.store \in Stores
           /\ Caller.leading.argument \in Nat /\ Caller.leading.argument < Caller.plain
<1>1. outcome = "running" /\ Running.at = "opening"
  BY DEF At
<1>2. Opening
  BY <1>1 DEF Inv, Resting
<1>3. Caller \in Activation /\ Waiting(Caller, Top - 1)
  BY <1>2, AtCaller DEF Opening
<1>4. /\ Caller.leading \in Rewrites \cup Functions /\ Caller.leading.kind = "Try"
      /\ ArgumentCells(Caller.leading) < Caller.plain
      /\ Caller.step \in 0 .. MaxStop
      /\ Caller.terms \in Nat /\ Caller.plain \in Nat /\ Caller.store \in Stores
  <2>1. Caller.leading # None /\ Caller.leading.kind = "Try" /\ Fits(Caller)
    BY <1>2, <1>3 DEF Opening, Waiting
  <2>2. ArgumentCells(Caller.leading) < Caller.plain
    BY <2>1 DEF Fits
  <2>3. QED
    BY <1>3, <2>1, <2>2 DEF Activation
<1>5. Caller.leading.argument \in Nat /\ ArgumentCells(Caller.leading) = Caller.leading.argument
  BY <1>4, Leads DEF ArgumentCells
<1>6. QED
  BY <1>1, <1>2, <1>4, <1>5 DEF Opening

\* The call of Try lacks memory for < and >: all that it took is given back.
LEMMA OpenFails ==
    ASSUME Inv, Open, Extended(2).free < 2
    PROVE  Inv'
<1> DEFINE m == Extended(2)
           p == Retried(Caller, 3, "returned")
<1>1. /\ At("opening") /\ UNCHANGED <<outcome, performed>>
      /\ Close(p) /\ block' = Caller.saved /\ free' = m.free + 2 /\ total' = m.total
  BY DEF Open, Retried
<1>2. /\ outcome = "running" /\ Top > 1 /\ Running = [Created EXCEPT !.at = "opening"]
      /\ Fits(Caller) /\ Caller.step % MaxStop = (performed + Top - 2) % MaxStop
  BY <1>1, AtOpening
<1>3. Top \in Nat /\ Caller \in Activation /\ Caller.saved = Calling(Top - 1 - 1)
  BY <1>2, AtCaller DEF Waiting
<1>4. 3 \in 1 .. 4 /\ "returned" \in Places
  BY DEF Places
<1>5. /\ p \in Activation /\ p.at = "returned" /\ p.state = 3 /\ p.step = Caller.step
      /\ SameWork(p, Caller)
  BY <1>3, <1>4, RetriedParts, Zenon
<1> HIDE DEF p
<1>6. Fits(p) /\ Held(p) = Held(Caller)
  BY <1>2, <1>5, SameFits
<1>7. performed' + (Top - 1) - 1 = performed + Top - 2
  <2>1. performed \in Nat /\ performed' = performed
    BY <1>1, ProcessesAssumption DEF Inv, Types
  <2> DEFINE n == performed'
  <2>2. n \in Nat /\ n = performed
    BY <2>1
  <2> HIDE DEF n
  <2>3. n + (Top - 1) - 1 = performed + Top - 2
    BY <1>3, <2>1, <2>2
  <2>4. QED
    BY <2>3 DEF n
<1>8. Resting(p, Top - 1, block', performed')
  BY <1>1, <1>2, <1>3, <1>5, <1>6, <1>7 DEF Resting
<1>9. /\ m.free \in Nat /\ m.total \in Nat /\ m.total <= MaxSize
      /\ m.total - m.free = total - free
  BY ExtendedMemory DEF Inv, Types
<1> HIDE DEF m
<1>10. block' \in Block /\ performed' \in 0 .. MaxStop - 1 /\ outcome' # "abort"
       /\ free' \in Nat /\ total' \in Nat /\ total' <= MaxSize
  <2>1. Caller.saved \in Block
    BY <1>3 DEF Activation
  <2>2. performed \in 0 .. MaxStop - 1
    BY DEF Inv, Types
  <2>3. m.free + 2 \in Nat
    BY <1>9
  <2>4. QED
    BY <1>1, <1>2, <1>9, <2>1, <2>2, <2>3
<1>11. total' - free' - Held(p) = total - free - Held(Running) - Held(Caller)
  <2> DEFINE a == m.free
             b == m.total
             h == Held(p)
             f == free'
             t == total'
             c == Held(Caller)
             d == Held(Running)
  <2>1. /\ a \in Int /\ b \in Int /\ h \in Int /\ b - a = total - free
        /\ f = a + 2 /\ t = b /\ free \in Int /\ total \in Int /\ c = h /\ d = 2
    BY <1>1, <1>2, <1>3, <1>6, <1>9, HeldNat, CreatedHeld DEF Inv, Types
  <2> HIDE DEF a, b, h, f, t, c, d
  <2>2. t - f - h = total - free - d - c
    BY <2>1
  <2>3. QED
    BY <2>2 DEF h, f, t, c, d
<1>12. QED
  BY <1>1, <1>2, <1>5, <1>8, <1>10, <1>11, CloseStep

\* The argument and the store pass from the caller to the process that it opens.
LEMMA OpenSucceeds ==
    ASSUME Inv, Open, ~ (Extended(2).free < 2)
    PROVE  Inv'
<1> DEFINE m == Extended(2)
           a == Caller.leading.argument
           s == (Caller.step + 1) % Wrap
           b == Caller.store
           none == << >>
           u == Caller.plain - a
           p == Begun(Running, 1, a, b, s, "idle")
           q == Lent(Caller, u, none, s)
           d == Top - 1
           qs == [process EXCEPT ![d] = q]
           rs == [qs EXCEPT ![Top] = p]
<1>1. At("opening") /\ UNCHANGED <<block, outcome, performed>>
      /\ free' = m.free - 2 /\ total' = m.total
  BY DEF Open
<1>2. /\ outcome = "running" /\ Top > 1 /\ Running = [Created EXCEPT !.at = "opening"]
      /\ block = Calling(Top - 1) /\ Caller.step \in 0 .. MaxStop /\ Caller.step < MaxStop
      /\ Caller.step % MaxStop = (performed + Top - 2) % MaxStop
      /\ Caller.terms \in Nat /\ Caller.plain \in Nat /\ b \in Stores
      /\ a \in Nat /\ a < Caller.plain
  BY <1>1, AtOpening
<1>3. /\ Top \in Nat /\ Caller \in Activation /\ Waiting(Caller, d)
      /\ process \in Seq(Activation) /\ d \in 1 .. Len(process) /\ Top \in 1 .. Len(process)
      /\ d \in Nat /\ Top # d /\ Running \in Activation /\ total = free + Cells(process)
  BY <1>2, AtCaller, Depth DEF Inv, Types, Top
<1>4. process' = rs
  <2>1. process' = [process EXCEPT
            ![Top - 1] = [Caller EXCEPT !.plain = @ - a, !.store = <<>>, !.step = s],
            ![Top] = [Running EXCEPT !.terms = 1, !.plain = a, !.store = Caller.store,
                                     !.step = s, !.at = "idle"]]
    BY DEF Open
  <2>2. [Caller EXCEPT !.plain = @ - a, !.store = <<>>, !.step = s] = q
    BY DEF Lent
  <2>3. [Running EXCEPT !.terms = 1, !.plain = a, !.store = Caller.store,
                        !.step = s, !.at = "idle"] = p
    BY DEF Begun
  <2> HIDE DEF p, q
  <2>4. QED
    BY <2>1, <2>2, <2>3
<1>5. s = Caller.step + 1 /\ s \in 0 .. MaxStop
  <2> DEFINE e == Caller.step + 1
  <2>1. e \in Nat /\ e < Wrap /\ e \in 0 .. MaxStop
    BY <1>2, ProcessesAssumption
  <2>2. e % Wrap = e
    <3> HIDE DEF e
    <3>1. QED
      BY <2>1, SmallRemainder, ProcessesAssumption
  <2>3. QED
    BY <2>1, <2>2
<1>6. u \in Nat /\ none \in Stores /\ Len(none) = 0 /\ 1 \in Nat /\ "idle" \in Places
  BY <1>2 DEF Stores, Places
<1>7. /\ p \in Activation /\ p.at = "idle" /\ p.state = 1 /\ p.leading = None
      /\ p.terms = 1 /\ p.plain = a /\ p.store = b /\ p.step = s
  <2>1. Running.state = 1 /\ Running.leading = None
    BY <1>2 DEF Created
  <2>2. QED
    <3>1. /\ p \in Activation /\ p.at = "idle" /\ p.state = Running.state
          /\ p.leading = Running.leading
          /\ p.terms = 1 /\ p.plain = a /\ p.store = b /\ p.step = s
      <4> DEFINE one == 1
                 idle == "idle"
                 pp == Begun(Running, one, a, b, s, idle)
      <4>1. /\ Running \in Activation /\ one \in Nat /\ a \in Nat /\ b \in Stores
            /\ s \in 0 .. MaxStop /\ idle \in Places
        BY <1>2, <1>3, <1>5, <1>6
      <4> HIDE DEF one, idle, a, b, s
      <4>2. /\ pp \in Activation /\ pp.at = idle /\ pp.state = Running.state
            /\ pp.leading = Running.leading
            /\ pp.terms = one /\ pp.plain = a /\ pp.store = b /\ pp.step = s
        BY <4>1, BegunParts
      <4>3. QED
        BY <4>2 DEF one, idle
    <3> HIDE DEF p
    <3>2. QED
      BY <2>1, <3>1
<1>8. /\ q \in Activation /\ q.at = Caller.at /\ q.state = Caller.state /\ q.saved = Caller.saved
      /\ q.leading = Caller.leading /\ q.terms = Caller.terms
      /\ q.plain = u /\ q.store = none /\ q.step = s
  BY <1>2, <1>3, <1>5, <1>6, LentParts
<1> HIDE DEF p, q, s
<1>9. /\ qs \in Seq(Activation) /\ Len(qs) = Len(process) /\ qs[Top] = Running /\ qs[d] = q
      /\ \A i \in 1 .. Top - 2 : qs[i] = process[i]
  BY <1>3, <1>8 DEF Running
<1>10. Cells(qs) = Cells(process) - Held(Caller) + Held(q)
  BY <1>3, <1>8, CellsPut DEF Caller
<1> HIDE DEF qs
<1>11. /\ rs \in Seq(Activation) /\ Len(rs) = Top /\ rs[Top] = p /\ rs[d] = q
       /\ \A i \in 1 .. Top - 2 : rs[i] = process[i]
  BY <1>3, <1>7, <1>9 DEF Top
<1>12. Cells(rs) = Cells(qs) - Held(Running) + Held(p)
  <2>1. Top \in 1 .. Len(qs)
    BY <1>3, <1>9
  <2>2. QED
    BY <1>7, <1>9, <2>1, CellsPut
<1> HIDE DEF rs
<1>13. Top' = Top /\ Running' = p /\ process' # <<>> /\ process' \in Seq(Activation)
  BY <1>3, <1>4, <1>11 DEF Top, Running
<1>14. /\ m.free \in Nat /\ m.total \in Nat /\ m.total <= MaxSize
       /\ m.total - m.free = total - free /\ ~ (m.free < 2)
  BY ExtendedMemory DEF Inv, Types
<1> HIDE DEF m
<1>15. Types'
  <2>1. m.free - 2 \in Nat
    BY <1>14
  <2>2. block \in Block /\ performed \in 0 .. MaxStop - 1
    BY DEF Inv, Types
  <2>3. QED
    BY <1>1, <1>13, <1>14, <2>1, <2>2 DEF Types
<1>16. ASSUME NEW i \in 1 .. Top' - 1 PROVE Waiting(process'[i], i)
  <2>1. CASE i = d
    BY <1>3, <1>4, <1>8, <1>11, <2>1 DEF Waiting
  <2>2. CASE i # d
    BY <1>3, <1>4, <1>11, <1>13, <2>2 DEF Inv
  <2>3. QED
    BY <2>1, <2>2
<1>17. StoreMoved'
  <2>1. ASSUME NEW i \in 1 .. Top' - 1 PROVE process'[i].store = <<>>
    <3>1. CASE i = d
      BY <1>4, <1>8, <1>11, <3>1
    <3>2. CASE i # d
      BY <1>3, <1>4, <1>11, <1>13, <3>2 DEF Inv, StoreMoved
    <3>3. QED
      BY <3>1, <3>2
  <2>2. QED
    BY <2>1 DEF StoreMoved
<1>18. p.step % MaxStop = (performed + Top - 1) % MaxStop
  <2> DEFINE e == Caller.step
             k == performed + Top - 2
  <2>1. e \in Int /\ k \in Int /\ e % MaxStop = k % MaxStop /\ p.step = e + 1
        /\ performed + Top - 1 = k + 1 /\ MaxStop \in Nat /\ MaxStop > 0
    <3>1. performed \in Int /\ MaxStop \in Nat /\ MaxStop > 0
      BY ProcessesAssumption DEF Inv, Types
    <3>2. k \in Int /\ performed + Top - 1 = k + 1
      BY <1>3, <3>1
    <3>3. QED
      BY <1>2, <1>5, <1>7, <3>1, <3>2
  <2> HIDE DEF e, k
  <2>2. (e + 1) % MaxStop = (k + 1) % MaxStop
    BY <2>1, NextCongruent
  <2>3. QED
    BY <2>1, <2>2
<1>19. Resting(p, Top, block', performed')
  BY <1>1, <1>2, <1>7, <1>18 DEF Resting, Fits
<1>20. total' = free' + Cells(process')
  <2> DEFINE c == Cells(process)
             e == Cells(process')
             g == Caller.terms
             h == Caller.plain
             l == Len(b)
             x == m.free
             y == m.total
             f == free'
             t == total'
             v == Held(p)
             w == Held(q)
             z == Held(Caller)
             r == Held(Running)
             mid == Cells(qs)
  <2>1. l \in Nat
    BY <1>2 DEF Stores
  <2>2. v = 4 + a + 4 * l
    <3>1. v = 2 + 2 * 1 + a + 4 * l
      BY <1>7 DEF Held, ItemCells
    <3> HIDE DEF v, l, a
    <3>2. a \in Nat /\ l \in Nat
      BY <1>2, <2>1 DEF a
    <3>3. QED
      BY <3>1, <3>2
  <2>3. w = 2 + 2 * g + (h - a) + 4 * 0
    BY <1>6, <1>8 DEF Held, ItemCells
  <2>4. z = 2 + 2 * g + h + 4 * l
    BY DEF Held, ItemCells
  <2>5. r = 2
    BY <1>2, CreatedHeld
  <2>6. c \in Int
    BY <1>3, CellsSum
  <2>7. mid = c - z + w
    BY <1>10
  <2>8. e = mid - r + v
    BY <1>4, <1>12
  <2>9. g \in Int /\ h \in Int /\ a \in Int /\ x \in Int /\ y \in Int /\ y - x = total - free
        /\ total = free + c /\ free \in Int /\ total \in Int /\ f = x - 2 /\ t = y
    BY <1>1, <1>2, <1>3, <1>14, SMTT(30) DEF Inv, Types
  <2> HIDE DEF c, e, g, h, l, x, y, f, t, v, w, z, r, a, mid
  <2>10. w - z = 0 - a - 4 * l /\ w \in Int /\ z \in Int /\ v \in Int
    BY <2>1, <2>2, <2>3, <2>4, <2>9
  <2>11. mid = c - a - 4 * l /\ mid \in Int
    BY <2>1, <2>6, <2>7, <2>9, <2>10
  <2>12. e = c + 2
    BY <2>1, <2>2, <2>5, <2>6, <2>8, <2>9, <2>11
  <2>13. t = f + e
    BY <2>6, <2>9, <2>12
  <2>14. QED
    BY <2>13 DEF t, f, e
<1>21. CellsAccounted'
  BY <1>20 DEF CellsAccounted, Cells, Top
<1>22. Resting(Running, Top, block, performed)'
  BY <1>13, <1>19 DEF Resting, Fits
<1>23. QED
  BY <1>1, <1>2, <1>15, <1>16, <1>17, <1>21, <1>22 DEF Inv

\* The beginning of the inner process preserves the invariant.
LEMMA OpenStep == ASSUME Inv, Open PROVE Inv'
BY OpenFails, OpenSucceeds
-----------------------------------------------------------------------------
\* try_() takes one off the counter that CFDONE adds again, also when it is zero.
LEMMA OnceMore ==
    ASSUME NEW n \in 0 .. MaxStop
    PROVE  (((n + Wrap - 1) % Wrap) + 1) % Wrap = n
<1>1. Wrap \in Nat /\ Wrap > 0 /\ n \in Nat /\ n < Wrap /\ n + Wrap - 1 \in Int
  BY ProcessesAssumption
<1> DEFINE a == n + Wrap - 1
           b == a + 1
<1>2. ((a % Wrap) + 1) % Wrap = b % Wrap
  <2> HIDE DEF a
  <2>1. a \in Int /\ 1 \in Int
    BY <1>1 DEF a
  <2>2. QED
    BY <1>1, <2>1, RemainderInside
<1>3. b % Wrap = n % Wrap
  <2>1. b \in Int /\ n \in Int /\ 1 \in Int /\ b = n + Wrap * 1
    BY <1>1
  <2> HIDE DEF b
  <2>2. QED
    BY <1>1, <2>1, Congruent, Zenon
<1>4. n % Wrap = n
  BY <1>1, SmallRemainder
<1>5. QED
  BY <1>2, <1>3, <1>4

\* The end of Try preserves the invariant.
LEMMA FinishStep == ASSUME Inv, Finish PROVE Inv'
<1>1. /\ At("returned") /\ Top > 1 /\ performed' = (performed + 1) % MaxStop
      /\ UNCHANGED <<block, total, outcome>>
  BY DEF Finish
<1>2. PICK result \in Results(Running) :
          /\ Close([Caller EXCEPT !.step = (((Running.step + Wrap - 1) % Wrap) + 1) % Wrap,
                                  !.store = Running.store, !.at = "start", !.leading = None,
                                  !.terms = @ - 1, !.plain = @ + result])
          /\ free' = free + 2 + 2 * Running.terms + Running.plain - result + 2
  BY DEF Finish
<1>3. /\ outcome = "running" /\ Running.at = "returned" /\ block = Calling(Top - 1)
      /\ Running.state # 4
      /\ Running.step % MaxStop = (performed + Top - 1) % MaxStop
  BY <1>1, AtRest DEF At
<1>4. /\ Top \in Nat /\ Caller \in Activation /\ Waiting(Caller, Top - 1) /\ Caller.store = <<>>
      /\ Running \in Activation
  BY <1>1, <1>3, AtCaller, Depth
<1>5. /\ Caller.state = 4 /\ Caller.saved = Calling(Top - 1 - 1) /\ Caller.terms > 0
      /\ Caller.terms \in Nat /\ Caller.plain \in Nat
      /\ Running.step \in 0 .. MaxStop /\ Running.state \in 1 .. 4 /\ Running.terms \in Nat
      /\ Running.plain \in Nat /\ Running.store \in Stores
  BY <1>4 DEF Waiting, Activation
<1>6. result \in Nat /\ result <= Running.plain
  <2>1. Running.state \in {1, 2, 3}
    BY <1>3, <1>5
  <2>2. QED
    BY <1>5, <2>1 DEF Results
<1> DEFINE n == Running.step
           s == Running.store
           t == Caller.terms - 1
           u == Caller.plain + result
           start == "start"
           p == GivenBack(Caller, n, s, start, None, t, u)
<1>7. Close(p)
  BY <1>2, <1>5, OnceMore DEF GivenBack
<1>8. /\ t \in Nat /\ u \in Nat /\ n \in 0 .. MaxStop /\ s \in Stores /\ start \in Places
      /\ None \in Rewrites \cup Functions \cup {None} /\ start = "start"
  BY <1>5, <1>6 DEF Places
<1> HIDE DEF n, s, t, u, start
<1>9. /\ p \in Activation /\ p.at = start /\ p.state = Caller.state /\ p.saved = Caller.saved
      /\ p.leading = None /\ p.terms = t /\ p.plain = u /\ p.store = s /\ p.step = n
  BY <1>4, <1>8, GivenBackParts
<1> HIDE DEF p
<1>10. n % MaxStop = (performed' + (Top - 1) - 1) % MaxStop
  <2> DEFINE a == performed + 1
             k == Top - 2
             f == performed'
  <2>1. a \in Int /\ k \in Int /\ performed + Top - 1 = a + k /\ MaxStop \in Nat /\ MaxStop > 0
        /\ f = a % MaxStop
    <3>1. performed \in Int /\ MaxStop \in Nat /\ MaxStop > 0
      BY ProcessesAssumption DEF Inv, Types
    <3>2. QED
      BY <1>1, <1>4, <3>1
  <2>2. f \in Int
    BY <2>1, Quotient
  <2> HIDE DEF a, f
  <2>3. ((a % MaxStop) + k) % MaxStop = (a + k) % MaxStop
    <3> HIDE DEF k
    <3>1. QED
      BY <2>1, RemainderInside
  <2>4. f + (Top - 1) - 1 = f + k
    BY <1>4, <2>2
  <2>5. QED
    BY <1>3, <2>1, <2>3, <2>4 DEF n, f
<1>11. Resting(p, Top - 1, block', performed')
  BY <1>5, <1>8, <1>9, <1>10 DEF Resting, Fits
<1>12. /\ block' \in Block /\ performed' \in 0 .. MaxStop - 1 /\ outcome' # "abort"
       /\ total' \in Nat /\ total' <= MaxSize
  <2>1. /\ block \in Block /\ performed + 1 \in Int /\ MaxStop \in Nat /\ MaxStop > 0
        /\ total \in Nat /\ total <= MaxSize
    BY ProcessesAssumption DEF Inv, Types
  <2>2. (performed + 1) % MaxStop \in 0 .. MaxStop - 1
    BY <2>1, Quotient
  <2>3. QED
    BY <1>1, <1>3, <2>1, <2>2
<1>13. free' \in Nat /\ total' - free' - Held(p) = total - free - Held(Running) - Held(Caller)
  <2> DEFINE f == free'
             g == Caller.terms
             h == Caller.plain
             c == Running.terms
             d == Running.plain
             l == Len(s)
             x == Held(p)
             y == Held(Running)
             z == Held(Caller)
  <2>1. l \in Nat /\ Len(<<>>) = 0
    BY <1>8 DEF Stores
  <2>2. x = 2 + 2 * (g - 1) + (h + result) + 4 * l
    BY <1>9 DEF Held, ItemCells, t, u
  <2>3. y = 2 + 2 * c + d + 4 * l
    BY DEF Held, ItemCells, s
  <2>4. z = 2 + 2 * g + h + 4 * 0
    BY <1>4, <2>1 DEF Held, ItemCells
  <2>5. /\ f = free + 2 + 2 * c + d - result + 2 /\ free \in Nat /\ total \in Nat
        /\ g \in Nat /\ h \in Nat /\ c \in Nat /\ d \in Nat /\ result <= d /\ total' = total
    BY <1>1, <1>2, <1>5, <1>6 DEF Inv, Types
  <2> HIDE DEF f, g, h, c, d, l, x, y, z
  <2>6. f \in Nat
    BY <1>6, <2>5
  <2>7. x = z - 2 + result + 4 * l /\ x \in Int /\ y \in Int /\ z \in Int
    BY <1>6, <2>1, <2>2, <2>3, <2>4, <2>5
  <2>8. f + x = free + y + z
    BY <1>6, <2>1, <2>3, <2>5, <2>7
  <2>9. total - f - x = total - free - y - z
    BY <2>5, <2>6, <2>7, <2>8
  <2>10. QED
    BY <2>5, <2>6, <2>9 DEF f, x, y, z
<1>14. QED
  BY <1>1, <1>7, <1>9, <1>11, <1>12, <1>13, CloseStep
-----------------------------------------------------------------------------
\* The main process with the term < F >, before its first step.
LEMMA FirstParts ==
    LET p == [Created EXCEPT !.terms = 1, !.plain = 1]
    IN  /\ p \in Activation /\ p.at = "idle" /\ p.state = 1 /\ p.leading = None /\ p.step = 0
        /\ p.store = <<>> /\ Held(p) = 5
<1> DEFINE p == [Created EXCEPT !.terms = 1, !.plain = 1]
<1>1. Created.saved \in Block /\ 0 \in 0 .. MaxStop
  BY ProcessesAssumption DEF Created, Outside, Block
<1>2. <<>> \in Stores /\ Len(<<>>) = 0
  BY DEF Stores
<1>3. Created \in Activation
  BY <1>1, <1>2 DEF Created, Activation
<1>4. p \in Activation
  BY <1>3 DEF Activation
<1>5. /\ p.at = "idle" /\ p.state = 1 /\ p.leading = None /\ p.step = 0
      /\ p.store = <<>> /\ p.terms = 1 /\ p.plain = 1
  BY DEF Created
<1> HIDE DEF p
<1>6. Held(p) = 2 + 2 * 1 + 1 + 4 * 0
  BY <1>2, <1>5 DEF Held, ItemCells
<1>7. QED
  BY <1>4, <1>5, <1>6 DEF p

\* The initial states satisfy the invariant ...
LEMMA InitStep == Init => Inv
<1> SUFFICES ASSUME Init PROVE Inv
  OBVIOUS
<1> DEFINE p == [Created EXCEPT !.terms = 1, !.plain = 1]
<1>1. /\ process = <<p>> /\ block = Outside /\ free = MinSize - 5 /\ total = MinSize
      /\ outcome = "running" /\ performed = 0
  BY DEF Init
<1>2. /\ p \in Activation /\ p.at = "idle" /\ p.state = 1 /\ p.leading = None /\ p.step = 0
      /\ p.store = <<>> /\ Held(p) = 5
  BY FirstParts
<1> HIDE DEF p
<1>3. process \in Seq(Activation) /\ process # <<>> /\ Top = 1 /\ Running = p
  BY <1>1, <1>2 DEF Top, Running
<1>4. Outside \in Block /\ Outside = Calling(1 - 1)
  BY DEF Outside, Block, Calling
<1>5. Types
  BY <1>1, <1>3, <1>4, ProcessesAssumption DEF Types
<1>6. Resting(Running, Top, block, performed)
  <2>1. performed + 1 - 1 = 0
    BY <1>1
  <2>2. Fits(p)
    BY <1>2 DEF Fits
  <2>3. QED
    BY <1>1, <1>2, <1>3, <1>4, <2>1, <2>2 DEF Resting
<1>7. CellsAccounted
  <2>1. <<>> \in Seq(Activation) /\ Append(<<>>, p) = process
    BY <1>1, <1>2
  <2>2. Cells(process) = Cells(<<>>) + Held(p)
    BY <1>2, <2>1, CellsAppend
  <2>3. Cells(<<>>) = 0
    <3>1. 1 .. Len(<<>>) = {}
      OBVIOUS
    <3>2. Cells(<<>>) = SumFunctionOnSet([i \in 1 .. Len(<<>>) |-> Held(<<>>[i])], 1 .. Len(<<>>))
      BY <2>1, CellsSum
    <3>3. QED
      BY <3>1, <3>2, SumOfNone
  <2> DEFINE c == Cells(process)
  <2>4. c = 5
    BY <1>2, <2>2, <2>3
  <2> HIDE DEF c
  <2>5. total = free + c
    BY <1>1, <2>4, ProcessesAssumption
  <2>6. QED
    BY <2>5 DEF CellsAccounted, Cells, Top, c
<1>8. QED
  BY <1>1, <1>3, <1>5, <1>6, <1>7 DEF Inv, StoreMoved

\* ... and every step preserves it.
LEMMA NextStep == Inv /\ [Next]_vars => Inv'
<1> SUFFICES ASSUME Inv, [Next]_vars PROVE Inv'
  OBVIOUS
<1>1. CASE RunProcess
  BY <1>1, RunProcessStep
<1>2. CASE Stop \/ Lead
  BY <1>2, StopStep, LeadStep
<1>3. CASE Rewrite \/ Impossible
  BY <1>3, RewriteStep, ImpossibleStep
<1>4. CASE Br \/ Rp \/ Dg \/ Cp \/ Dgall
  BY <1>4, BrStep, RpStep, DgStep, CpStep, DgallStep
<1>5. CASE Try \/ Open
  BY <1>5, TryStep, OpenStep
<1>6. CASE Again \/ Finish \/ Continue
  BY <1>6, AgainStep, FinishStep, ContinueStep
<1>7. CASE UNCHANGED vars
  BY <1>7, StayStep DEF vars, Inv
<1>8. QED
  BY <1>1, <1>2, <1>3, <1>4, <1>5, <1>6, <1>7 DEF Next

\* The invariant holds for any memory and any number of nested calls of Try, as deep and
\* as long as the program goes.
THEOREM Invariant == Spec => []Inv
<1>1. QED
  BY InitStep, NextStep, PTL DEF Spec

\* When refal_run() has returned, or is about to be called, the refal block is that of the
\* call that is being executed in the process below.
THEOREM BlockIsRestored == Spec => []BlockRestored
<1>1. Inv => BlockRestored
  BY DEF Inv, Opening, Resting, BlockRestored
<1>2. QED
  BY <1>1, Invariant, PTL

\* No order of calls, lacks of memory, retries and ends of Try runs or deletes a process
\* in the middle of a step: refal_run() and delete_status_table() never abort.
THEOREM ProcessesNeverAbort == Spec => []NeverAborts
<1>1. Inv => NeverAborts
  <2> SUFFICES ASSUME Inv PROVE NeverAborts
    OBVIOUS
  <2>1. Top \in Nat /\ Top >= 1
    BY Depth
  <2>2. \A i \in 1 .. Top - 1 : process[i].state = 4 /\ process[i].at = "try"
    BY DEF Inv, Waiting
  <2>3. Running.state = 4 <=> Running.at \in {"start", "try"}
    <3>1. CASE Opening
      BY <3>1 DEF Opening, Created
    <3>2. CASE Resting(Running, Top, block, performed)
      BY <3>2 DEF Resting
    <3>3. QED
      BY <3>1, <3>2 DEF Inv
  <2>4. \A i \in 1 .. Top : i \in 1 .. Top - 1 \/ process[i] = Running
    BY <2>1 DEF Running
  <2>5. QED
    BY <2>2, <2>3, <2>4 DEF Inv, NeverAborts
<1>2. QED
  BY <1>1, Invariant, PTL

\* The cells obtained are the free ones and those of the processes: none is lost, or is in
\* two lists, when a process is opened, lacks memory, is run again or is deleted.
THEOREM ProcessesCellsAccounted == Spec => []CellsAccounted
<1>1. Inv => CellsAccounted
  BY DEF Inv
<1>2. QED
  BY <1>1, Invariant, PTL

\* The counter of the running process counts every step of every process once.
THEOREM AllStepsCounted == Spec => []StepsCounted
<1>1. Inv => StepsCounted
  BY DEF Inv, Opening, Created, Resting, StepsCounted
<1>2. QED
  BY <1>1, Invariant, PTL
-----------------------------------------------------------------------------
\* The store that StoreFollows shows to a program, and the call that may change it.
TheStore == IF Running.at = "opening" THEN Caller.store ELSE Running.store
TheCall == IF Running.at = "start" /\ Running.leading # None THEN Running.leading
           ELSE [kind |-> "none"]
Follows == TheStore' = TheStore \/ OneStore!Next

\* The burial store of the program is that of the process put on top, ...
LEMMA PutShows ==
    ASSUME Inv, NEW p, Put(p), p.at # "opening"
    PROVE  TheStore' = p.store
<1>1. /\ Len(process') = Len(process) /\ process'[Len(process)] = p
  BY DEF Inv, Types, Put, Top
<1>2. QED
  BY <1>1 DEF TheStore, Running, Top

\* ... that of the process below when the top one is closed, ...
LEMMA CloseShows ==
    ASSUME Inv, Top > 1, NEW p, Close(p), p.at # "opening"
    PROVE  TheStore' = p.store
<1>1. Top \in Nat /\ Top = Len(process) /\ process \in Seq(Activation)
  BY DEF Inv, Types, Top
<1> DEFINE low == SubSeq(process, 1, Top - 2)
           d == Top - 1
<1>2. Len(low) = Top - 2 /\ low \in Seq(Activation) /\ Top - 2 + 1 = d
  BY <1>1, Lower
<1> HIDE DEF low, d
<1>3. Len(Append(low, p)) = d /\ Append(low, p)[d] = p
  BY <1>1, <1>2
<1>4. Len(process') = d /\ process'[d] = p
  BY <1>3 DEF Close, low
<1>5. QED
  BY <1>4 DEF TheStore, Running, Top

\* ... the same after an exit from refal_run, ...
LEMMA ExitShows ==
    ASSUME Inv, At("start"), NEW s \in 1 .. 4, Exit(Running, s)
    PROVE  TheStore' = TheStore
<1> DEFINE p == [Running EXCEPT !.state = s, !.at = "returned"]
<1>1. Put(p) /\ Running.at = "start" /\ Running \in Activation
  BY Depth DEF Exit, At
<1>2. p.at = "returned" /\ p.store = Running.store
  BY <1>1, Stopped, Zenon
<1> HIDE DEF p
<1>3. TheStore' = p.store
  BY <1>1, <1>2, PutShows
<1>4. QED
  BY <1>1, <1>2, <1>3 DEF TheStore

\* ... that of the process that advanced, ...
LEMMA AdvanceShows ==
    ASSUME Inv, NEW p \in Activation, p.at # "opening", Advance(p)
    PROVE  TheStore' = p.store
<1> DEFINE n == (p.step + 1) % Wrap
           q == [p EXCEPT !.step = n, !.leading = None]
<1>1. Put(q)
  BY DEF Advance
<1> HIDE DEF n
<1>2. q.at = p.at /\ q.store = p.store
  BY DEF Activation
<1> HIDE DEF q
<1>3. QED
  BY <1>1, <1>2, PutShows

\* ... and the one a function of the store returned.
LEMMA ReturnShows ==
    ASSUME Inv, At("start"), Running.terms > 0,
           NEW store, NEW used, NEW result, NEW gain,
           store \in Stores, used \in Nat, result \in Nat, used <= Running.plain,
           Return(store, used, result, gain)
    PROVE  TheStore' = store
<1> DEFINE t == Running.terms - 1
           u == Running.plain - used + result
           p == WithLists(Running, t, u, store)
<1>1. Advance(p)
  BY DEF Return, WithLists
<1>2. Running \in Activation /\ Running.at = "start"
  BY Depth DEF At
<1>3. t \in Nat /\ u \in Nat
  BY <1>2 DEF Activation
<1> HIDE DEF t, u
<1>4. p \in Activation /\ p.store = store /\ p.at = Running.at
  BY <1>2, <1>3, ListsReplaced
<1> HIDE DEF p
<1>5. QED
  BY <1>1, <1>2, <1>4, AdvanceShows

\* The call that is being executed is the one that Burial sees.
LEMMA CallSeen ==
    ASSUME Inv, NEW kind \in {"Br", "Rp", "Dg", "Cp", "Dgall"}, Led(kind)
    PROVE  TheCall = Running.leading /\ TheCall.kind = kind /\ TheStore = Running.store
           /\ Running.store \in Stores
<1>1. Running.at = "start" /\ Running.leading # None /\ Running.leading.kind = kind
  BY DEF Led, At
<1>2. QED
  BY <1>1, AtStoreCall DEF TheCall, TheStore

\* The first value of a name in the order of the store is the youngest of the process.
LEMMA FirstIsYoungest ==
    ASSUME NEW n, TheStore = Running.store, Running.store \in Stores
    PROVE  /\ OneStore!Buried(n) <=> Named(n) # {}
           /\ Named(n) # {} => OneStore!First(n) = Youngest(n)
<1>1. OneStore!Buried(n) <=> Named(n) # {}
  BY DEF OneStore!Buried, TheStore, Named
<1>2. ASSUME Named(n) # {} PROVE OneStore!First(n) = Youngest(n)
  <2> DEFINE y == Youngest(n)
             s == Running.store
             P(i) == i \in DOMAIN s /\ s[i].name = n /\ \A j \in 1 .. i - 1 : s[j].name # n
  <2>1. /\ y \in 1 .. Len(s) /\ s[y].name = n /\ \A i \in 1 .. Len(s) : s[i].name = n => y <= i
    BY <1>2, YoungestNamed
  <2>2. DOMAIN s = 1 .. Len(s) /\ Len(s) \in Nat
    BY DEF Stores
  <2> HIDE DEF y
  <2>3. P(y)
    BY <2>1, <2>2
  <2>4. \A i : P(i) => i = y
    BY <2>1, <2>2
  <2> HIDE DEF P
  <2>5. (CHOOSE i : P(i)) = y
    BY <2>3, <2>4
  <2>6. OneStore!First(n) = CHOOSE i \in DOMAIN s : s[i].name = n /\ \A j \in 1 .. i - 1 : s[j].name # n
    BY DEF OneStore!First, TheStore
  <2>7. QED
    BY <2>5, <2>6 DEF P, y
<1>3. QED
  BY <1>1, <1>2

\* A burial puts the item in front of the store, unless memory is lacking.
LEMMA BuryShows ==
    ASSUME Inv, At("start"), Running.terms > 0, Running.plain >= 3,
           NEW n, NEW v, n \in Name, v \in Value, Bury(n, v)
    PROVE  TheStore' = TheStore \/ OneStore!Br(n, v)
<1> DEFINE m == Extended(1)
           item == [name |-> n, value |-> v]
           store == <<item>> \o Running.store
<1>1. CASE m.free < 1
  <2>1. Exit(Running, 3)
    BY <1>1 DEF Bury
  <2>2. QED
    BY <2>1, ExitShows
<1>2. CASE ~ (m.free < 1)
  <2> DEFINE t == Running.terms - 1
             u == Running.plain - 3
             p == WithLists(Running, t, u, store)
  <2>1. Advance(p)
    BY <1>2 DEF Bury, WithLists
  <2>2. Running \in Activation /\ Running.at = "start"
    BY Depth DEF At
  <2>3. t \in Nat /\ u \in Nat /\ Running.store \in Stores
    BY <2>2 DEF Activation
  <2>4. item \in Item
    BY DEF Item
  <2>5. store \in Stores
    BY <2>3, <2>4 DEF Stores
  <2> HIDE DEF t, u, store
  <2>6. p \in Activation /\ p.store = store /\ p.at = Running.at
    BY <2>2, <2>3, <2>5, ListsReplaced
  <2> HIDE DEF p
  <2>7. TheStore' = store
    BY <2>1, <2>2, <2>6, AdvanceShows
  <2>8. TheStore = Running.store
    BY <2>2 DEF TheStore
  <2>9. TheStore' = <<item>> \o TheStore
    BY <2>7, <2>8 DEF store
  <2>10. QED
    BY <2>9 DEF OneStore!Br, TheStore
<1>3. QED
  BY <1>1, <1>2

\* Br is burying in the one store of Burial, or is refused, ...
LEMMA BrFollows == ASSUME Inv, Br PROVE Follows
<1> DEFINE n == Running.leading.name
           v == Running.leading.value
<1>1. Led("Br") /\ Bury(n, v)
  BY DEF Br
<1>2. /\ At("start") /\ Running.terms > 0 /\ Running.plain >= 3 /\ n \in Name /\ v \in Value
      /\ TheCall = Running.leading /\ TheCall.kind = "Br"
  BY <1>1, AtStoreCall, CallSeen
<1> HIDE DEF n, v
<1>3. TheStore' = TheStore \/ OneStore!Br(n, v)
  BY <1>1, <1>2, BuryShows
<1>4. OneStore!Br(n, v) => OneStore!Return
  BY <1>2 DEF OneStore!Return, TheCall, n, v
<1>5. QED
  BY <1>3, <1>4 DEF Follows, OneStore!Next

\* ... Rp is replacing, ...
LEMMA RpFollows == ASSUME Inv, Rp PROVE Follows
<1> DEFINE n == Running.leading.name
           v == Running.leading.value
           i == Youngest(n)
           s == [Running.store EXCEPT ![i].value = v]
<1>1. Led("Rp")
  BY DEF Rp
<1>2. /\ At("start") /\ Running.step < MaxStop /\ Running.terms > 0 /\ Running.plain >= 3
      /\ n \in Name /\ v \in Value /\ Running.plain \in Nat /\ Running.store \in Stores
      /\ TheCall = Running.leading /\ TheCall.kind = "Rp" /\ TheStore = Running.store
  BY <1>1, AtStoreCall, CallSeen
<1>3. OneStore!Rp(n, v) => OneStore!Return
  BY <1>2 DEF OneStore!Return, TheCall
<1>4. CASE Named(n) = {}
  <2>1. Bury(n, v)
    BY <1>4 DEF Rp
  <2>2. TheStore' = TheStore \/ OneStore!Br(n, v)
    BY <1>2, <2>1, BuryShows
  <2>3. ~ OneStore!Buried(n)
    BY <1>2, <1>4, FirstIsYoungest
  <2>4. OneStore!Br(n, v) => OneStore!Rp(n, v)
    BY <2>3 DEF OneStore!Rp
  <2>5. QED
    BY <1>3, <2>2, <2>4 DEF Follows, OneStore!Next
<1>5. CASE Named(n) # {}
  <2>1. Return(s, 3, 0, free + 3)
    BY <1>5 DEF Rp
  <2>2. i \in 1 .. Len(Running.store)
    BY <1>2, <1>5, YoungestNamed
  <2>3. s \in Stores
    BY <1>2, <2>2, StoreReplaced
  <2>4. OneStore!Buried(n) /\ OneStore!First(n) = i
    BY <1>2, <1>5, FirstIsYoungest
  <2> HIDE DEF s, i, n, v
  <2>5. TheStore' = s
    BY <1>2, <2>1, <2>3, ReturnShows
  <2>6. TheStore' = [TheStore EXCEPT ![OneStore!First(n)].value = v]
    BY <1>2, <2>4, <2>5 DEF s
  <2>7. OneStore!Rp(n, v)
    BY <2>4, <2>6 DEF OneStore!Rp, TheStore
  <2>8. QED
    BY <1>3, <2>7 DEF Follows, OneStore!Next, n, v
<1>6. QED
  BY <1>4, <1>5

\* ... Dg is digging up, ...
LEMMA DgFollows == ASSUME Inv, Dg PROVE Follows
<1> DEFINE n == Running.leading.name
           i == Youngest(n)
           s == RemoveAt(Running.store, i)
<1>1. Led("Dg")
  BY DEF Dg
<1>2. /\ At("start") /\ Running.terms > 0 /\ 2 <= Running.plain
      /\ Running.plain \in Nat /\ Running.store \in Stores
      /\ TheCall = Running.leading /\ TheCall.kind = "Dg" /\ TheStore = Running.store
  BY <1>1, AtStoreCall, CallSeen
<1>3. CASE Named(n) = {}
  <2>1. Return(Running.store, 2, 0, free + 2)
    BY <1>3 DEF Dg
  <2>2. TheStore' = Running.store
    BY <1>2, <2>1, ReturnShows
  <2>3. QED
    BY <1>2, <2>2 DEF Follows
<1>4. CASE Named(n) # {}
  <2>1. Return(s, 2, 1, free + 5)
    BY <1>4 DEF Dg
  <2>2. i \in 1 .. Len(Running.store)
    BY <1>2, <1>4, YoungestNamed
  <2>3. s \in Stores
    BY <1>2, <2>2, StoreRemoved
  <2>4. OneStore!Buried(n) /\ OneStore!First(n) = i
    BY <1>2, <1>4, FirstIsYoungest
  <2>5. s = SubSeq(Running.store, 1, i - 1) \o SubSeq(Running.store, i + 1, Len(Running.store))
    BY DEF RemoveAt
  <2> HIDE DEF s, i, n
  <2>6. TheStore' = s
    BY <1>2, <2>1, <2>3, ReturnShows
  <2>7. OneStore!Dg(n)
    BY <1>2, <2>4, <2>5, <2>6 DEF OneStore!Dg, TheStore
  <2>8. OneStore!Dg(n) => OneStore!Return
    BY <1>2 DEF OneStore!Return, TheCall, n
  <2>9. QED
    BY <2>7, <2>8 DEF Follows, OneStore!Next
<1>5. QED
  BY <1>3, <1>4

\* ... Cp is copying, ...
LEMMA CpFollows == ASSUME Inv, Cp PROVE Follows
<1>1. Led("Cp")
  BY DEF Cp
<1>2. /\ At("start") /\ Running.terms > 0 /\ 2 <= Running.plain
      /\ Running.plain \in Nat /\ Running.store \in Stores /\ TheStore = Running.store
  BY <1>1, AtStoreCall, CallSeen
<1>3. CASE Exit(Running, 3)
  BY <1>2, <1>3, ExitShows DEF Follows
<1>4. CASE \E result \in {0, 1} : \E gain : Return(Running.store, 2, result, gain)
  BY <1>2, <1>4, ReturnShows DEF Follows
<1>5. QED
  BY <1>3, <1>4 DEF Cp

\* ... and Dgall is digging up everything.
LEMMA DgallFollows == ASSUME Inv, Dgall PROVE Follows
<1> DEFINE l == ItemCells * Len(Running.store)
           none == << >>
<1>1. Led("Dgall") /\ Return(none, 1, l, free + 1)
  BY DEF Dgall
<1>2. /\ At("start") /\ Running.terms > 0 /\ 1 <= Running.plain
      /\ Running.plain \in Nat /\ Running.store \in Stores
      /\ TheCall = Running.leading /\ TheCall.kind = "Dgall" /\ TheStore = Running.store
  BY <1>1, AtStoreCall, CallSeen
<1>3. none \in Stores /\ l \in Nat
  BY <1>2 DEF Stores, ItemCells
<1> HIDE DEF l
<1>4. TheStore' = none
  BY <1>1, <1>2, <1>3, ReturnShows
<1>5. OneStore!Dgall
  BY <1>4 DEF OneStore!Dgall, TheStore
<1>6. QED
  BY <1>2, <1>5 DEF Follows, OneStore!Next, OneStore!Return, TheCall

\* A process that is put in the place of the running one keeps the store.
LEMMA SamePut ==
    ASSUME Inv, Running.at # "opening", NEW p, Put(p), p.at # "opening",
           p.store = Running.store
    PROVE  Follows
BY PutShows DEF Follows, TheStore

\* None of the other places is the one where the store is being lent.
LEMMA PlacesDiffer == {"idle", "start", "try", "returned"} \subseteq Places \ {"opening"}
BY DEF Places

\* refal_run shows nothing to the store.
LEMMA RunProcessFollows == ASSUME Inv, RunProcess PROVE Follows
<1> DEFINE p == Started(Running, block, 4, "start")
<1>1. Running.at = "idle" /\ Running \in Activation /\ block \in Block
  BY Depth DEF RunProcess, At, Inv, Types
<1>2. Put(p)
  BY <1>1, AtRest DEF RunProcess, Started
<1>3. 4 \in 1 .. 4 /\ "start" \in Places
  BY PlacesDiffer
<1>4. /\ p \in Activation /\ p.at = "start" /\ p.state = 4 /\ p.saved = block
      /\ p.step = Running.step /\ SameWork(p, Running)
  BY <1>1, <1>3, StartedParts, Zenon
<1> HIDE DEF p
<1>5. QED
  BY <1>1, <1>2, <1>4, SamePut DEF SameWork

\* Taking up a term shows nothing to the store.
LEMMA LeadFollows == ASSUME Inv, Lead PROVE Follows
<1>1. Running.at = "start" /\ Running \in Activation
  BY Depth DEF Lead, At
<1>2. PICK f \in Rewrites \cup Functions : Put(LeadBy(Running, f))
  BY DEF Lead, LeadBy
<1>3. LeadBy(Running, f).at = "start" /\ LeadBy(Running, f).store = Running.store
  BY <1>1, LeadByParts
<1>4. QED
  BY <1>1, <1>2, <1>3, SamePut

\* A sentence shows nothing to the store.
LEMMA RewriteFollows == ASSUME Inv, Rewrite PROVE Follows
<1> DEFINE r == Running.leading
           t == Running.terms - 1 + r.calls
           u == Running.plain - r.used + r.symbols
           p == WithField(Running, t, u)
<1>1. At("start") /\ Running.leading # None /\ r.kind = "rewrite"
  BY DEF Rewrite, Led
<1>2. t \in Nat /\ u \in Nat /\ Running \in Activation /\ Running.at = "start"
  BY <1>1, AtLeading, Depth DEF At
<1>3. CASE Exit(Running, 3)
  BY <1>1, <1>3, ExitShows DEF Follows
<1>4. CASE Advance(p)
  <2> HIDE DEF t, u
  <2>1. p \in Activation /\ p.at = "start" /\ p.store = Running.store
    BY <1>2, FieldReplaced
  <2> HIDE DEF p
  <2>2. QED
    BY <1>2, <1>4, <2>1, AdvanceShows DEF Follows, TheStore
<1>5. QED
  BY <1>3, <1>4 DEF Rewrite, WithField

\* Try leaves the store with its caller while it opens a process ...
LEMMA TryFollows == ASSUME Inv, Try PROVE Follows
<1> DEFINE new == [Created EXCEPT !.at = "opening"]
           p == Moved(Running, "try")
           qs == [process EXCEPT ![Top] = p]
<1>1. At("start") /\ Running.at = "start" /\ Running \in Activation
  BY Depth DEF Try, Led, At
<1>2. CASE Exit(Running, 3)
  BY <1>1, <1>2, ExitShows DEF Follows
<1>3. CASE process' = Append([process EXCEPT ![Top].at = "try"], new)
  <2>1. process' = Append(qs, new)
    BY <1>3 DEF Moved, Running
  <2>2. "try" \in Places
    BY PlacesDiffer
  <2>3. p \in Activation /\ p.store = Running.store
    BY <1>1, <2>2, MovedParts DEF SameWork
  <2>4. new.at = "opening"
    BY CreatedHeld
  <2> HIDE DEF new, p
  <2>5. /\ Top \in Nat /\ Top >= 1 /\ process \in Seq(Activation) /\ Top = Len(process)
        /\ Top \in 1 .. Len(process)
    BY Depth DEF Inv, Types, Top
  <2>6. qs \in Seq(Activation) /\ Len(qs) = Top /\ qs[Top] = p
    BY <2>3, <2>5
  <2> HIDE DEF qs
  <2>7. Len(process') = Top + 1 /\ process'[Top + 1] = new /\ process'[Top] = p
    BY <2>1, <2>5, <2>6
  <2>8. Top' = Top + 1
    BY <2>5, <2>7 DEF Top
  <2>9. Running' = new /\ Caller' = p
    <3>1. Running' = process'[Top'] /\ Caller' = process'[Top' - 1]
      BY DEF Running, Caller
    <3>2. Top' - 1 = Top
      <4> DEFINE t == Top'
      <4>1. t = Top + 1 /\ Top \in Nat
        BY <2>5, <2>8
      <4> HIDE DEF t
      <4>2. t - 1 = Top
        BY <4>1
      <4>3. QED
        BY <4>2 DEF t
    <3>3. QED
      BY <2>7, <2>8, <3>1, <3>2, Zenon
  <2>10. QED
    BY <1>1, <2>3, <2>4, <2>9 DEF Follows, TheStore
<1>4. QED
  BY <1>2, <1>3 DEF Try

\* ... moves it when the process has its field, and has never moved it when there is no
\* memory for the field.
LEMMA OpenFollows == ASSUME Inv, Open PROVE Follows
<1> DEFINE a == Caller.leading.argument
           s == (Caller.step + 1) % Wrap
           b == Caller.store
           p == Begun(Running, 1, a, b, s, "idle")
           q == Lent(Caller, Caller.plain - a, << >>, s)
           d == Top - 1
           qs == [process EXCEPT ![d] = q]
           rs == [qs EXCEPT ![Top] = p]
           c == Retried(Caller, 3, "returned")
<1>1. /\ At("opening") /\ Running.at = "opening" /\ Top > 1 /\ a \in Nat /\ b \in Stores
      /\ Caller.step \in 0 .. MaxStop /\ Caller.step < MaxStop
  BY AtOpening DEF Open, At
<1>2. /\ Top \in Nat /\ Caller \in Activation /\ Running \in Activation
      /\ process \in Seq(Activation) /\ Top = Len(process) /\ Top \in 1 .. Len(process)
      /\ d \in 1 .. Len(process) /\ d # Top
  BY <1>1, AtCaller, Depth DEF Inv, Types, Top
<1>3. TheStore = b
  BY <1>1 DEF TheStore
<1>4. CASE Close(c)
  <2>1. 3 \in 1 .. 4 /\ "returned" \in Places
    BY PlacesDiffer
  <2>2. /\ c \in Activation /\ c.at = "returned" /\ c.state = 3 /\ c.step = Caller.step
        /\ SameWork(c, Caller)
    BY <1>2, <2>1, RetriedParts, Zenon
  <2> HIDE DEF c
  <2>3. QED
    BY <1>1, <1>3, <1>4, <2>2, CloseShows DEF Follows, SameWork
<1>5. CASE process' = rs
  <2>1. s \in 0 .. MaxStop
    <3> DEFINE e == Caller.step + 1
    <3>1. e \in Nat /\ e < Wrap /\ e \in 0 .. MaxStop /\ Wrap \in Nat
      BY <1>1, ProcessesAssumption
    <3> HIDE DEF e
    <3>2. e % Wrap = e
      BY <3>1, SmallRemainder
    <3>3. QED
      BY <3>1, <3>2 DEF e
  <2>2. 1 \in Nat /\ "idle" \in Places
    BY PlacesDiffer
  <2> DEFINE one == 1
             idle == "idle"
  <2>3. p = Begun(Running, one, a, b, s, idle) /\ one \in Nat /\ idle \in Places /\ idle = "idle"
    BY <2>2
  <2> HIDE DEF a, s, b, p, one, idle
  <2>4. p.at = idle /\ p.store = b
    BY <1>1, <1>2, <2>1, <2>3, BegunParts
  <2> HIDE DEF p, q, d
  <2>5. Len(qs) = Len(process) /\ Top \in DOMAIN qs /\ DOMAIN qs = 1 .. Len(qs)
    BY <1>2
  <2> HIDE DEF qs
  <2>6. DOMAIN rs = 1 .. Len(qs) /\ rs[Top] = p
    BY <2>5
  <2>7. Len(process') = Len(process) /\ process'[Len(process)] = p
    <3>1. Len(qs) \in Nat
      BY <1>2, <2>5
    <3>2. Len(rs) = Len(qs)
      BY <2>6, <3>1, LenProperties
    <3>3. QED
      BY <1>2, <1>5, <2>5, <2>6, <3>2
  <2>8. TheStore' = b
    BY <2>3, <2>4, <2>7 DEF TheStore, Running, Top
  <2>9. QED
    BY <1>3, <2>8 DEF Follows
<1>6. QED
  <2>1. CASE Extended(2).free < 2
    BY <1>4, <2>1 DEF Open, Retried
  <2>2. CASE ~ (Extended(2).free < 2)
    <3>1. process' = [process EXCEPT
              ![Top - 1] = [Caller EXCEPT !.plain = @ - a, !.store = <<>>, !.step = s],
              ![Top] = [Running EXCEPT !.terms = 1, !.plain = a, !.store = Caller.store,
                                       !.step = s, !.at = "idle"]]
      BY <2>2 DEF Open
    <3>2. [Caller EXCEPT !.plain = @ - a, !.store = <<>>, !.step = s] = q
      BY DEF Lent
    <3>3. [Running EXCEPT !.terms = 1, !.plain = a, !.store = Caller.store,
                          !.step = s, !.at = "idle"] = p
      BY DEF Begun
    <3> HIDE DEF p, q
    <3>4. process' = rs
      BY <3>1, <3>2, <3>3
    <3>5. QED
      BY <1>5, <3>4 DEF p, q
  <2>3. QED
    BY <2>1, <2>2

\* Repeating a step shows nothing to the store.
LEMMA AgainFollows == ASSUME Inv, Again PROVE Follows
<1>1. Running.at = "returned" /\ Running \in Activation
  BY Depth DEF Again, At
<1>2. 1 \in 1 .. 4 /\ 0 \in 0 .. MaxStop /\ "idle" \in Places
  BY ProcessesAssumption, PlacesDiffer
<1> DEFINE p == Restarted(Running, 0, "idle")
           q == Retried(Running, 1, "idle")
<1>3. Put(p) \/ Put(q)
  BY DEF Again, Restarted, Retried
<1>4. /\ p \in Activation /\ p.at = "idle" /\ p.state = Running.state /\ p.step = 0
      /\ SameWork(p, Running)
  BY <1>1, <1>2, RestartedParts, Zenon
<1>5. /\ q \in Activation /\ q.at = "idle" /\ q.state = 1 /\ q.step = Running.step
      /\ SameWork(q, Running)
  BY <1>1, <1>2, RetriedParts, Zenon
<1> HIDE DEF p, q
<1>6. QED
  BY <1>1, <1>3, <1>4, <1>5, SamePut DEF SameWork

\* The store comes back with all that the process has buried, however it has ended.
LEMMA FinishFollows == ASSUME Inv, Finish PROVE Follows
<1>1. At("returned") /\ Top > 1 /\ Running.at = "returned"
  BY DEF Finish, At
<1>2. PICK result \in Results(Running) :
          Close([Caller EXCEPT !.step = (((Running.step + Wrap - 1) % Wrap) + 1) % Wrap,
                               !.store = Running.store, !.at = "start", !.leading = None,
                               !.terms = @ - 1, !.plain = @ + result])
  BY DEF Finish
<1>3. Caller \in Activation /\ Running \in Activation
  BY <1>1, AtCaller, Depth
<1> DEFINE n == (((Running.step + Wrap - 1) % Wrap) + 1) % Wrap
           s == Running.store
           t == Caller.terms - 1
           u == Caller.plain + result
           p == [Caller EXCEPT !.step = n, !.store = s, !.at = "start", !.leading = None,
                               !.terms = t, !.plain = u]
<1>4. Close(p)
  BY <1>2
<1> HIDE DEF n, s, t, u
<1>5. p.at = "start" /\ p.store = s
  BY <1>3 DEF Activation
<1> HIDE DEF p
<1>6. TheStore' = s
  BY <1>1, <1>4, <1>5, CloseShows
<1>7. QED
  BY <1>1, <1>6 DEF Follows, TheStore, s

\* Continuing after the limit shows nothing to the store.
LEMMA ContinueFollows == ASSUME Inv, Continue PROVE Follows
<1>1. Running.at = "returned" /\ Running \in Activation
  BY Depth DEF Continue, At
<1>2. 0 \in 0 .. MaxStop /\ "idle" \in Places
  BY ProcessesAssumption, PlacesDiffer
<1> DEFINE p == Restarted(Running, 0, "idle")
           q == Moved(Running, "idle")
<1>3. Put(p) \/ Put(q) \/ UNCHANGED process
  BY DEF Continue, Restarted, Moved
<1>4. /\ p \in Activation /\ p.at = "idle" /\ p.state = Running.state /\ p.step = 0
      /\ SameWork(p, Running)
  BY <1>1, <1>2, RestartedParts, Zenon
<1>5. q.at = "idle" /\ SameWork(q, Running)
  BY <1>1, <1>2, MovedParts
<1> HIDE DEF p, q
<1>6. UNCHANGED process => Follows
  BY DEF Follows, TheStore, Running, Caller, Top
<1>7. QED
  BY <1>1, <1>3, <1>4, <1>5, <1>6, SamePut DEF SameWork

\* Every step is a step of Burial or shows nothing.
LEMMA NextFollows == Inv /\ [Next]_vars => Follows
<1> SUFFICES ASSUME Inv, [Next]_vars PROVE Follows
  OBVIOUS
<1>1. CASE RunProcess \/ Lead
  BY <1>1, RunProcessFollows, LeadFollows
<1>2. CASE Stop \/ Impossible
  <2>1. At("start") /\ (Exit(Running, 1) \/ Exit(Running, 2))
    BY <1>2 DEF Stop, Impossible, Led
  <2>2. QED
    BY <2>1, ExitShows DEF Follows
<1>3. CASE Rewrite
  BY <1>3, RewriteFollows
<1>4. CASE Br \/ Rp \/ Dg \/ Cp \/ Dgall
  BY <1>4, BrFollows, RpFollows, DgFollows, CpFollows, DgallFollows
<1>5. CASE Try \/ Open
  BY <1>5, TryFollows, OpenFollows
<1>6. CASE Again \/ Finish \/ Continue
  BY <1>6, AgainFollows, FinishFollows, ContinueFollows
<1>7. CASE UNCHANGED vars
  BY <1>7 DEF vars, Follows, TheStore, Running, Caller, Top
<1>8. QED
  BY <1>1, <1>2, <1>3, <1>4, <1>5, <1>6, <1>7 DEF Next

\* The processes implement one burial store: whatever Try opens, retries and deletes, only
\* Br, Rp, Dg and Dgall change what a program finds buried, each as if there were no Try.
THEOREM OneStoreImplemented == Spec => StoreFollows
<1>1. Init => OneStore!Init
  <2> SUFFICES ASSUME Init PROVE TheStore = <<>>
    BY DEF OneStore!Init, TheStore
  <2> DEFINE p == [Created EXCEPT !.terms = 1, !.plain = 1]
  <2>1. process = <<p>>
    BY DEF Init
  <2>2. p.at = "idle" /\ p.store = <<>>
    BY FirstParts
  <2> HIDE DEF p
  <2>3. Running = p
    BY <2>1 DEF Running, Top
  <2>4. QED
    BY <2>2, <2>3 DEF TheStore
<1>2. Inv /\ [Next]_vars => [OneStore!Next]_<<TheStore, TheCall>>
  BY NextFollows DEF Follows, OneStore!Next, TheStore
<1>3. QED
  BY <1>1, <1>2, Invariant, PTL DEF Spec, StoreFollows, OneStore!Spec, TheStore, TheCall
=============================================================================
