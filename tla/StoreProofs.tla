----------------------------- MODULE StoreProofs -----------------------------
(***************************************************************************)
(* Theorems about the calendar store: the encrypted file of another node's *)
(* ticks for any number of appenders and blocks, range queries and storage *)
(* proofs over it, and the cache for any calendars, sizes and width of its *)
(* counter.                                                                *)
(***************************************************************************)
EXTENDS TLAPS, Store, MerkleProofs, SumTheorems, FiniteSetTheorems, SequenceTheorems

-----------------------------------------------------------------------------
(* The calendar store's file *)

Blocks == [id : Nat, ticks : Runs \cup {<< >>}, whole : BOOLEAN]
Appending == [pc : {"idle", "text", "newline"}, id : Nat, ticks : Runs \cup {<< >>}]

StoreTypes ==
  /\ file \in Seq(Seq(Blocks)) /\ file # << >>
  /\ next_block_id \in Nat /\ appender \in [Appenders -> Appending]

\* The ids in the file are given out, each once, and so are those of the
\* blocks that are still to be written.
IdsGivenOut ==
  /\ \A i \in Lines(file) : file[i][1].id < next_block_id
  /\ \A i, j \in Lines(file) : file[i][1].id = file[j][1].id => i = j
  /\ \A a \in Appenders : appender[a].pc = "text" =>
       /\ appender[a].id < next_block_id
       /\ \A i \in Lines(file) : file[i][1].id # appender[a].id
       /\ \A b \in Appenders : appender[b].pc = "text" /\ appender[b].id = appender[a].id => a = b

\* A block is in the file before its newline, and with it, acknowledged.
Holds(f, id, ticks) == \E i \in Lines(f) : f[i][1] = Block(id, ticks)
WrittenHeld ==
  /\ \A a \in Appenders : appender[a].pc = "newline" => Holds(file, appender[a].id, appender[a].ticks)
  /\ \A x \in acknowledged : Holds(file, x.id, x.ticks)

StoreInv == StoreTypes /\ (Readable(file) => IdsGivenOut /\ WrittenHeld)

\* The highest of some numbers below a bound is one of them.
LEMMA HighestBelow ==
  ASSUME NEW T, T \subseteq Nat, T # {}, NEW n \in Nat, \A x \in T : x < n
  PROVE  Max(T) \in T /\ \A x \in T : x <= Max(T)
<1> DEFINE D == {d \in Nat : \E x \in T : d = n - x}
<1>1. D \subseteq Nat /\ D # {}
  <2>1. PICK x \in T : x < n
    OBVIOUS
  <2>2. n - x \in D
    BY <2>1
  <2> QED
    BY <2>2
<1>2. PICK d \in D : \A e \in D : d <= e
  BY <1>1, LeastNatural
<1>3. PICK x \in T : d = n - x
  OBVIOUS
<1>4. \A y \in T : x >= y
  <2> SUFFICES ASSUME NEW y \in T PROVE x >= y
    OBVIOUS
  <2>1. y < n /\ n - y \in D
    OBVIOUS
  <2>2. d <= n - y
    BY <2>1, <1>2
  <2> QED
    BY <2>2, <1>3
<1>5. /\ Max(T) \in T /\ \A y \in T : Max(T) >= y
  BY <1>4 DEF Max
<1> QED
  BY <1>5

\* What writing at the end of the last line does to a file that is then readable.
LEMMA LastLineGrows ==
  ASSUME NEW f \in Seq(Seq(Blocks)), f # << >>, NEW x \in Blocks, NEW g,
         g = OnLastLine(f, x), NEW n, n = Len(f)
  PROVE  /\ g \in Seq(Seq(Blocks)) /\ g # << >>
         /\ Readable(g) =>
              /\ Readable(f) /\ x # Torn /\ Lines(g) = Lines(f) \cup {n}
              /\ n \notin Lines(f) /\ g[n][1] = x
              /\ \A i \in Lines(f) : g[i] = f[i]
<1>0. g = [f EXCEPT ![Len(f)] = Append(f[Len(f)], x)]
  BY DEF OnLastLine
<1>1. Len(f) \in 1..Len(f) /\ Len(f) \in Nat /\ DOMAIN f = 1..Len(f)
  OBVIOUS
<1>2. n \in Nat /\ n = Len(f)
  BY <1>1
<1>3. f[n] \in Seq(Blocks) /\ Append(f[n], x) \in Seq(Blocks)
  BY <1>1, <1>2
<1>4. /\ g \in Seq(Seq(Blocks)) /\ Len(g) = n /\ DOMAIN g = 1..n /\ DOMAIN f = 1..n
      /\ g[n] = Append(f[n], x) /\ \A i \in 1..n : i # n => g[i] = f[i]
  <2>1. PICK v \in Seq(Blocks) : v = Append(f[n], x)
    BY <1>3
  <2>2. g = [f EXCEPT ![n] = v] /\ n \in 1..Len(f)
    BY <2>1, <1>0, <1>1, <1>2
  <2>3. /\ g \in Seq(Seq(Blocks)) /\ Len(g) = Len(f)
        /\ \A i \in 1..Len(f) : g[i] = IF i = n THEN v ELSE f[i]
    <3>1. PICK T : T = Seq(Blocks)
      OBVIOUS
    <3>2. f \in Seq(T) /\ v \in T
      BY <2>1, <3>1
    <3>3. /\ g \in Seq(T) /\ Len(g) = Len(f)
          /\ \A i \in 1..Len(f) : g[i] = IF i = n THEN v ELSE f[i]
      <4>1. /\ f \in [1..n -> T] /\ n = Len(f)
        BY <3>2, <1>1, <1>2
      <4>2. g \in [1..n -> T] /\ \A i \in 1..n : g[i] = IF i = n THEN v ELSE f[i]
        BY <4>1, <3>2, <2>2
      <4>3. PICK h : h = [i \in 1..n |-> IF i = n THEN v ELSE f[i]]
        OBVIOUS
      <4>4. g = h
        BY <4>1, <4>2, <4>3
      <4>5. \A i \in 1..n : (IF i = n THEN v ELSE f[i]) \in T
        BY <4>1, <3>2
      <4>6. h \in Seq(T) /\ Len(h) = n
        BY <4>3, <4>5, IsASeq
      <4> QED
        BY <4>1, <4>2, <4>4, <4>6
    <3> QED
      BY <3>1, <3>3
  <2> QED
    BY <2>1, <2>2, <2>3, <1>1, <1>2
<1>5. g # << >>
  <2>1. n \in DOMAIN g
    BY <1>1, <1>2, <1>4
  <2> QED
    BY <2>1
<1>6. n \in Lines(g) /\ \A i \in 1..n : i # n => (i \in Lines(g) <=> i \in Lines(f))
  <2>1. n \in 1..n
    BY <1>1, <1>2
  <2>2. g[n] # << >>
    BY <1>2, <1>3, <1>4
  <2> QED
    BY <2>1, <2>2, <1>4 DEF Lines
<1>7. ASSUME Readable(g)
      PROVE  /\ Readable(f) /\ x # Torn /\ Lines(g) = Lines(f) \cup {n}
             /\ n \notin Lines(f) /\ g[n][1] = x
             /\ \A i \in Lines(f) : g[i] = f[i]
  <2>1. Len(g[n]) = 1 /\ g[n][1].whole
    BY <1>6, <1>7 DEF Readable, Decodes
  <2>2. f[n] = << >> /\ g[n][1] = x
    BY <2>1, <1>3, <1>4
  <2>7. x # Torn
    BY <2>1, <2>2 DEF Torn
  <2>3. n \notin Lines(f) /\ Lines(f) \subseteq 1..n /\ Lines(g) \subseteq 1..n
    BY <2>2, <1>4 DEF Lines
  <2>4. \A i \in Lines(f) : g[i] = f[i]
    BY <2>3, <1>4
  <2>5. Lines(g) = Lines(f) \cup {n}
    BY <2>3, <1>6
  <2>6. Readable(f)
    BY <2>4, <2>5, <1>7 DEF Readable
  <2> QED
    BY <2>2, <2>3, <2>4, <2>5, <2>6, <2>7
<1> QED
  BY <1>2, <1>4, <1>5, <1>7

\* A new line is blank.
LEMMA NewlineReads ==
  ASSUME NEW f \in Seq(Seq(Blocks)), NEW g, g = Append(f, << >>)
  PROVE  /\ g \in Seq(Seq(Blocks)) /\ g # << >> /\ Lines(g) = Lines(f)
         /\ \A i \in Lines(f) : g[i] = f[i]
         /\ Readable(g) <=> Readable(f)
<1>1. << >> \in Seq(Blocks)
  BY EmptySeq
<1>2. /\ g \in Seq(Seq(Blocks)) /\ Len(f) \in Nat /\ Len(g) = Len(f) + 1 /\ g[Len(f) + 1] = << >>
      /\ \A i \in 1..Len(f) : g[i] = f[i]
  BY <1>1
<1>3. DOMAIN f = 1..Len(f) /\ DOMAIN g = 1..(Len(f) + 1)
  BY <1>2
<1>4. Lines(f) \subseteq 1..Len(f) /\ Lines(g) = Lines(f)
  BY <1>2, <1>3 DEF Lines
<1>5. \A i \in Lines(f) : g[i] = f[i]
  BY <1>2, <1>4
<1>6. g # << >>
  BY <1>2
<1> QED
  BY <1>2, <1>4, <1>5, <1>6 DEF Readable

\* What a readable line holds is a block.
LEMMA LinesHoldBlocks ==
  ASSUME NEW f \in Seq(Seq(Blocks)), NEW i \in Lines(f)
  PROVE  f[i][1] \in Blocks /\ f[i][1].id \in Nat /\ f[i][1].ticks \in Runs \cup {<< >>}
<1>1. i \in DOMAIN f /\ f[i] # << >>
  BY DEF Lines
<1>2. PICK l \in Seq(Blocks) : l = f[i]
  BY <1>1
<1>3. l[1] \in Blocks
  BY <1>1, <1>2
<1>4. PICK b \in Blocks : b = f[i][1]
  BY <1>2, <1>3
<1>5. b.id \in Nat /\ b.ticks \in Runs \cup {<< >>}
  BY DEF Blocks
<1> QED
  BY <1>4, <1>5

\* A block in the file is still there when lines are added to it.
LEMMA HeldStays ==
  ASSUME NEW f, NEW g, NEW id, NEW ticks, Lines(f) \subseteq Lines(g),
         \A i \in Lines(f) : g[i] = f[i], Holds(f, id, ticks)
  PROVE  Holds(g, id, ticks)
BY DEF Holds

\* The record of a block written.
LEMMA BlockParts ==
  ASSUME NEW id \in Nat, NEW ticks \in Runs \cup {<< >>}, NEW x, x = Block(id, ticks)
  PROVE  x \in Blocks /\ x.whole /\ x.id = id
BY DEF Block, Blocks

\* What was cut short cannot be read, whatever is written to its line later.
LEMMA TornUnreadable ==
  ASSUME NEW f \in Seq(Seq(Blocks)), f # << >>, NEW g, g = OnLastLine(f, Torn)
  PROVE  g \in Seq(Seq(Blocks)) /\ g # << >> /\ ~Readable(g)
<1>1. PICK x : x = Torn
  OBVIOUS
<1>2. x \in Blocks
  BY <1>1 DEF Torn, Blocks
<1>3. g = OnLastLine(f, x)
  BY <1>1
<1> QED
  BY <1>1, <1>2, <1>3, LastLineGrows

LEMMA StoreStarts == StoreInit => StoreInv
<1> SUFFICES ASSUME StoreInit PROVE StoreInv
  OBVIOUS
<1>1. file = << << >> >> /\ next_block_id = 0 /\ acknowledged = {}
      /\ appender = [a \in Appenders |-> NotAppending]
  BY DEF StoreInit
<1>2. << >> \in Seq(Blocks)
  BY EmptySeq
<1>3. file \in Seq(Seq(Blocks)) /\ file # << >> /\ DOMAIN file = {1} /\ file[1] = << >>
  BY <1>1, <1>2
<1>4. NotAppending \in Appending /\ NotAppending.pc = "idle"
  BY DEF NotAppending, Appending
<1>5. StoreTypes
  BY <1>1, <1>3, <1>4 DEF StoreTypes
<1>6. Lines(file) = {}
  BY <1>3 DEF Lines
<1>7. \A a \in Appenders : appender[a].pc = "idle"
  BY <1>1, <1>4
<1> QED
  BY <1>1, <1>5, <1>6, <1>7 DEF StoreInv, IdsGivenOut, WrittenHeld

\* append_block takes the next id.
LEMMA AppendKeepsStore ==
  ASSUME StoreInv, NEW a \in Appenders, NEW ticks \in Runs, append_block(a, ticks)
  PROVE  StoreInv'
<1>1. StoreTypes /\ next_block_id \in Nat
  BY DEF StoreInv, StoreTypes
<1> DEFINE r == [pc |-> "text", id |-> next_block_id, ticks |-> ticks]
<1>2. /\ file' = file /\ acknowledged' = acknowledged /\ next_block_id' = next_block_id + 1
      /\ appender' = [appender EXCEPT ![a] = r]
  BY DEF append_block
<1>3. r \in Appending /\ r.pc = "text" /\ r.id = next_block_id
  BY <1>1 DEF Appending
<1> HIDE DEF r
<1>4. /\ appender' \in [Appenders -> Appending] /\ appender'[a] = r
      /\ \A b \in Appenders : b # a => appender'[b] = appender[b]
  BY <1>1, <1>2, <1>3 DEF StoreTypes
<1>5. StoreTypes'
  BY <1>1, <1>2, <1>4 DEF StoreTypes
<1>6. Lines(file)' = Lines(file) /\ (Readable(file)' <=> Readable(file))
  BY <1>2
<1>7. ASSUME Readable(file), IdsGivenOut, WrittenHeld PROVE IdsGivenOut' /\ WrittenHeld'
  <2>1. file \in Seq(Seq(Blocks)) /\ \A i \in Lines(file) : file[i][1].id < next_block_id
    BY <1>1, <1>7 DEF StoreTypes, IdsGivenOut
  <2>2. \A i \in Lines(file) : file[i][1].id \in Nat
    BY <2>1, <1>7, LinesHoldBlocks
  <2>3. \A b \in Appenders : appender[b].id \in Nat
    BY <1>1 DEF StoreTypes, Appending
  <2>4. (\A i \in Lines(file) : file[i][1].id < next_block_id)'
    BY <2>1, <2>2, <1>1, <1>2, <1>6
  <2>5. (\A i, j \in Lines(file) : file[i][1].id = file[j][1].id => i = j)'
    BY <1>2, <1>6, <1>7 DEF IdsGivenOut
  <2>6. ASSUME NEW b \in Appenders, appender'[b].pc = "text"
        PROVE  /\ appender'[b].id < next_block_id'
               /\ \A i \in Lines(file) : file[i][1].id # appender'[b].id
               /\ \A c \in Appenders : appender'[c].pc = "text" /\ appender'[c].id = appender'[b].id => b = c
    <3>1. \A c \in Appenders \ {a} : appender'[c].pc = "text" =>
            /\ appender'[c] = appender[c] /\ appender'[c].id < next_block_id
            /\ \A i \in Lines(file) : file[i][1].id # appender'[c].id
            /\ \A e \in Appenders : appender[e].pc = "text" /\ appender[e].id = appender[c].id => c = e
      BY <1>4, <1>7 DEF IdsGivenOut
    <3>2. CASE b = a
      BY <3>1, <3>2, <2>1, <2>2, <1>1, <1>2, <1>3, <1>4
    <3>3. CASE b # a
      BY <3>1, <3>3, <2>3, <2>6, <1>1, <1>2, <1>3, <1>4
    <3> QED
      BY <3>2, <3>3
  <2>7. IdsGivenOut'
    BY <2>4, <2>5, <2>6, <1>2, <1>6 DEF IdsGivenOut
  <2>8. WrittenHeld'
    BY <1>2, <1>3, <1>4, <1>7 DEF WrittenHeld
  <2> QED
    BY <2>7, <2>8
<1> QED
  BY <1>5, <1>6, <1>7 DEF StoreInv

\* A thread that stops appending leaves the others as they are.
LEMMA AppenderStops ==
  ASSUME StoreTypes, NEW a \in Appenders, appender' = [appender EXCEPT ![a] = NotAppending]
  PROVE  /\ appender' \in [Appenders -> Appending] /\ appender'[a].pc = "idle"
         /\ \A b \in Appenders : b # a => appender'[b] = appender[b]
<1>1. appender \in [Appenders -> Appending]
  BY DEF StoreTypes
<1>2. NotAppending \in Appending /\ NotAppending.pc = "idle"
  BY DEF NotAppending, Appending
<1> QED
  BY <1>1, <1>2

\* What holds of the ids and of what is written still does when the file is the
\* same and fewer threads are appending.
LEMMA FewerAppending ==
  ASSUME IdsGivenOut, WrittenHeld, file' = file, next_block_id' = next_block_id,
         acknowledged' = acknowledged,
         \A b \in Appenders : appender'[b].pc # "idle" => appender'[b] = appender[b]
  PROVE  IdsGivenOut' /\ WrittenHeld'
<1>1. /\ \A i \in Lines(file) : file[i][1].id < next_block_id
      /\ \A i, j \in Lines(file) : file[i][1].id = file[j][1].id => i = j
  BY DEF IdsGivenOut
<1>2. Lines(file)' = Lines(file)
  OBVIOUS
<1>3. \A b \in Appenders : appender'[b].pc \in {"text", "newline"} => appender'[b] = appender[b]
  OBVIOUS
<1>4. ASSUME NEW b \in Appenders, appender'[b].pc = "text"
      PROVE  /\ appender'[b].id < next_block_id
             /\ \A i \in Lines(file) : file[i][1].id # appender'[b].id
             /\ \A c \in Appenders : appender'[c].pc = "text" /\ appender'[c].id = appender'[b].id => b = c
  BY <1>3, <1>4 DEF IdsGivenOut
<1>5. IdsGivenOut'
  BY <1>1, <1>2, <1>4 DEF IdsGivenOut
<1>6. WrittenHeld'
  BY <1>3 DEF WrittenHeld
<1> QED
  BY <1>5, <1>6

LEMMA FailedAppendKeepsStore ==
  ASSUME StoreInv, NEW a \in Appenders, NEW torn \in BOOLEAN, AppendFails(a, torn)
  PROVE  StoreInv'
<1>1. StoreTypes
  BY DEF StoreInv
<1>2. next_block_id' = next_block_id /\ acknowledged' = acknowledged
      /\ appender' = [appender EXCEPT ![a] = NotAppending]
      /\ file' = IF torn THEN OnLastLine(file, Torn) ELSE file
  BY DEF AppendFails
<1>3. /\ appender' \in [Appenders -> Appending] /\ appender'[a].pc = "idle"
      /\ \A b \in Appenders : b # a => appender'[b] = appender[b]
  BY <1>1, <1>2, AppenderStops
<1>4. CASE torn
  <2>1. /\ file' \in Seq(Seq(Blocks)) /\ file' # << >> /\ ~Readable(file')
    BY <1>1, <1>2, <1>4, TornUnreadable DEF StoreTypes
  <2>2. StoreTypes'
    BY <2>1, <1>1, <1>2, <1>3 DEF StoreTypes
  <2> QED
    BY <2>1, <2>2 DEF StoreInv
<1>5. CASE ~torn
  <2>1. file' = file
    BY <1>2, <1>5
  <2>2. StoreTypes'
    BY <2>1, <1>1, <1>2, <1>3 DEF StoreTypes
  <2>3. \A b \in Appenders : appender'[b].pc # "idle" => appender'[b] = appender[b]
    BY <1>3
  <2>4. Readable(file)' => Readable(file)
    BY <2>1
  <2>5. IdsGivenOut /\ WrittenHeld => IdsGivenOut' /\ WrittenHeld'
    BY <2>1, <2>3, <1>2, FewerAppending
  <2> QED
    BY <2>2, <2>4, <2>5 DEF StoreInv
<1> QED
  BY <1>4, <1>5

\* The text of a block is on a line of its own, or the file can no longer be read.
LEMMA TextKeepsStore ==
  ASSUME StoreInv, NEW a \in Appenders, WriteText(a)
  PROVE  StoreInv'
<1>1. StoreTypes /\ file \in Seq(Seq(Blocks)) /\ file # << >>
      /\ appender \in [Appenders -> Appending]
  BY DEF StoreInv, StoreTypes
<1>2. PICK x : x = Block(appender[a].id, appender[a].ticks)
  OBVIOUS
<1>3. PICK n : n = Len(file)
  OBVIOUS
<1>4. /\ appender[a].pc = "text" /\ appender' = [appender EXCEPT ![a].pc = "newline"]
      /\ file' = OnLastLine(file, x)
      /\ next_block_id' = next_block_id /\ acknowledged' = acknowledged
  BY <1>2 DEF WriteText
<1>5. PICK r \in Appending : r = appender[a]
  BY <1>1
<1>6. r.id \in Nat /\ r.ticks \in Runs \cup {<< >>}
  BY DEF Appending
<1>7. x \in Blocks /\ x.id = r.id /\ x = Block(r.id, r.ticks)
  BY <1>2, <1>5, <1>6, BlockParts
<1>8. /\ appender' \in [Appenders -> Appending] /\ appender'[a].pc = "newline"
      /\ appender'[a].id = r.id /\ appender'[a].ticks = r.ticks
      /\ \A b \in Appenders : b # a => appender'[b] = appender[b]
  <2>1. appender' = [appender EXCEPT ![a] = [r EXCEPT !.pc = "newline"]]
    BY <1>1, <1>4, <1>5
  <2>2. PICK q : q = [r EXCEPT !.pc = "newline"]
    OBVIOUS
  <2>3. q = [pc |-> "newline", id |-> r.id, ticks |-> r.ticks]
    BY <2>2 DEF Appending
  <2>4. q \in Appending /\ q.pc = "newline" /\ q.id = r.id /\ q.ticks = r.ticks
    BY <2>3, <1>6 DEF Appending
  <2> QED
    BY <1>1, <2>1, <2>2, <2>4
<1>9. /\ file' \in Seq(Seq(Blocks)) /\ file' # << >>
      /\ Readable(file') =>
           /\ Readable(file) /\ Lines(file') = Lines(file) \cup {n}
           /\ n \notin Lines(file) /\ file'[n][1] = x
           /\ \A i \in Lines(file) : file'[i] = file[i]
  <2>1. PICK f : f = file
    OBVIOUS
  <2>2. PICK g : g = file'
    OBVIOUS
  <2>3. f \in Seq(Seq(Blocks)) /\ f # << >> /\ g = OnLastLine(f, x) /\ n = Len(f)
    BY <2>1, <2>2, <1>1, <1>3, <1>4
  <2>4. /\ g \in Seq(Seq(Blocks)) /\ g # << >>
        /\ Readable(g) =>
             /\ Readable(f) /\ Lines(g) = Lines(f) \cup {n}
             /\ n \notin Lines(f) /\ g[n][1] = x
             /\ \A i \in Lines(f) : g[i] = f[i]
    <3>1. x \in Blocks
      BY <1>7
    <3>2. /\ g \in Seq(Seq(Blocks)) /\ g # << >>
          /\ Readable(g) =>
               /\ Readable(f) /\ x # Torn /\ Lines(g) = Lines(f) \cup {n}
               /\ n \notin Lines(f) /\ g[n][1] = x
               /\ \A i \in Lines(f) : g[i] = f[i]
      BY <2>3, <3>1, LastLineGrows
    <3> QED
      BY <2>3, <3>2, Zenon
  <2> QED
    BY <2>1, <2>2, <2>4
<1>10. StoreTypes'
  BY <1>1, <1>4, <1>8, <1>9 DEF StoreTypes
<1>11. ASSUME Readable(file') PROVE IdsGivenOut' /\ WrittenHeld'
  <2>1. /\ IdsGivenOut /\ WrittenHeld /\ Lines(file') = Lines(file) \cup {n}
        /\ n \notin Lines(file) /\ file'[n][1] = x
        /\ \A i \in Lines(file) : file'[i] = file[i]
    BY <1>9, <1>11 DEF StoreInv
  <2>2. /\ r.id < next_block_id /\ \A i \in Lines(file) : file[i][1].id # r.id
        /\ \A b \in Appenders : appender[b].pc = "text" /\ appender[b].id = r.id => a = b
    BY <2>1, <1>4, <1>5 DEF IdsGivenOut
  <2>3. /\ \A i \in Lines(file) : file[i][1].id < next_block_id
        /\ \A i, j \in Lines(file) : file[i][1].id = file[j][1].id => i = j
    BY <2>1 DEF IdsGivenOut
  <2>4. \A i \in Lines(file') : file'[i][1].id < next_block_id
    BY <2>1, <2>2, <2>3, <1>7
  <2>5. \A i, j \in Lines(file') : file'[i][1].id = file'[j][1].id => i = j
    BY <2>1, <2>2, <2>3, <1>7
  <2>6. ASSUME NEW b \in Appenders, appender'[b].pc = "text"
        PROVE  /\ appender'[b].id < next_block_id
               /\ \A i \in Lines(file') : file'[i][1].id # appender'[b].id
               /\ \A c \in Appenders : appender'[c].pc = "text" /\ appender'[c].id = appender'[b].id => b = c
    <3>1. b # a /\ appender'[b] = appender[b] /\ appender[b].pc = "text"
      BY <2>6, <1>8
    <3>2. /\ appender[b].id < next_block_id /\ \A i \in Lines(file) : file[i][1].id # appender[b].id
          /\ \A c \in Appenders : appender[c].pc = "text" /\ appender[c].id = appender[b].id => b = c
      BY <3>1, <2>1 DEF IdsGivenOut
    <3>3. \A i \in Lines(file') : file'[i][1].id # appender[b].id
      BY <3>1, <3>2, <2>1, <2>2, <1>7
    <3>4. \A c \in Appenders : appender'[c].pc = "text" => appender'[c] = appender[c]
      BY <1>8
    <3> QED
      BY <3>1, <3>2, <3>3, <3>4
  <2>7. IdsGivenOut'
    <3>1. next_block_id' = next_block_id
      BY <1>4
    <3> QED
      BY <2>4, <2>5, <2>6, <3>1, Zenon DEF IdsGivenOut
  <2>8. \A id, ticks : Holds(file, id, ticks) => Holds(file', id, ticks)
    BY <2>1, HeldStays
  <2>9. Holds(file', r.id, r.ticks)
    BY <2>1, <1>7 DEF Holds
  <2>10. \A b \in Appenders : appender'[b].pc = "newline" => Holds(file', appender'[b].id, appender'[b].ticks)
    <3> SUFFICES ASSUME NEW b \in Appenders, appender'[b].pc = "newline"
                 PROVE  Holds(file', appender'[b].id, appender'[b].ticks)
      OBVIOUS
    <3>1. CASE b = a
      BY <3>1, <2>9, <1>8
    <3>2. CASE b # a
      BY <3>2, <2>1, <2>8, <1>8 DEF WrittenHeld
    <3> QED
      BY <3>1, <3>2
  <2>11. \A y \in acknowledged : Holds(file', y.id, y.ticks)
    BY <2>1, <2>8 DEF WrittenHeld
  <2> QED
    BY <2>7, <2>10, <2>11, <1>4 DEF WrittenHeld
<1> QED
  BY <1>10, <1>11 DEF StoreInv

LEMMA NewlineKeepsStore ==
  ASSUME StoreInv, NEW a \in Appenders, WriteNewline(a)
  PROVE  StoreInv'
<1>1. StoreTypes /\ file \in Seq(Seq(Blocks))
  BY DEF StoreInv, StoreTypes
<1>2. /\ appender[a].pc = "newline" /\ appender' = [appender EXCEPT ![a] = NotAppending]
      /\ file' = Append(file, << >>) /\ next_block_id' = next_block_id
      /\ acknowledged' = acknowledged \cup {[id |-> appender[a].id, ticks |-> appender[a].ticks]}
  BY DEF WriteNewline
<1>3. /\ appender' \in [Appenders -> Appending] /\ appender'[a].pc = "idle"
      /\ \A b \in Appenders : b # a => appender'[b] = appender[b]
  BY <1>1, <1>2, AppenderStops
<1>4. /\ file' \in Seq(Seq(Blocks)) /\ file' # << >> /\ Lines(file') = Lines(file)
      /\ \A i \in Lines(file) : file'[i] = file[i]
      /\ Readable(file') <=> Readable(file)
  BY <1>1, <1>2, NewlineReads
<1>5. StoreTypes'
  BY <1>1, <1>2, <1>3, <1>4 DEF StoreTypes
<1>6. ASSUME Readable(file') PROVE IdsGivenOut' /\ WrittenHeld'
  <2>1. IdsGivenOut /\ WrittenHeld
    BY <1>4, <1>6 DEF StoreInv
  <2>2. \A b \in Appenders : appender'[b].pc \in {"text", "newline"} => appender'[b] = appender[b]
    BY <1>3
  <2>3. /\ \A i \in Lines(file') : file'[i][1].id < next_block_id
        /\ \A i, j \in Lines(file') : file'[i][1].id = file'[j][1].id => i = j
    BY <2>1, <1>4 DEF IdsGivenOut
  <2>4. ASSUME NEW b \in Appenders, appender'[b].pc = "text"
        PROVE  /\ appender'[b].id < next_block_id
               /\ \A i \in Lines(file') : file'[i][1].id # appender'[b].id
               /\ \A c \in Appenders : appender'[c].pc = "text" /\ appender'[c].id = appender'[b].id => b = c
    <3>1. appender'[b] = appender[b] /\ appender[b].pc = "text"
      BY <2>2, <2>4
    <3>2. /\ appender[b].id < next_block_id /\ \A i \in Lines(file) : file[i][1].id # appender[b].id
          /\ \A c \in Appenders : appender[c].pc = "text" /\ appender[c].id = appender[b].id => b = c
      BY <3>1, <2>1 DEF IdsGivenOut
    <3>3. \A i \in Lines(file') : file'[i][1].id # appender[b].id
      BY <3>2, <1>4
    <3> QED
      BY <2>2, <3>1, <3>2, <3>3
  <2>5. IdsGivenOut'
    <3>1. next_block_id' = next_block_id
      BY <1>2
    <3> QED
      BY <2>3, <2>4, <3>1, Zenon DEF IdsGivenOut
  <2>6. \A id, ticks : Holds(file, id, ticks) => Holds(file', id, ticks)
    BY <1>4, HeldStays
  <2>7. \A b \in Appenders : appender'[b].pc = "newline" => Holds(file', appender'[b].id, appender'[b].ticks)
    BY <2>1, <2>2, <2>6 DEF WrittenHeld
  <2>8. \A x \in acknowledged' : Holds(file', x.id, x.ticks)
    BY <2>1, <2>6, <1>2 DEF WrittenHeld
  <2> QED
    BY <2>5, <2>7, <2>8 DEF WrittenHeld
<1> QED
  BY <1>5, <1>6 DEF StoreInv

\* The id after a restart is above all ids of a file that can be read.
LEMMA NextIdAbove ==
  ASSUME NEW f \in Seq(Seq(Blocks)), NEW n \in Nat, NEW m, m = compute_next_block_id(f),
         Readable(f) => \A i \in Lines(f) : f[i][1].id < n
  PROVE  m \in Nat /\ (Readable(f) => \A i \in Lines(f) : f[i][1].id < m)
<1>1. CASE ~Readable(f) \/ Lines(f) = {}
  BY <1>1 DEF compute_next_block_id
<1>2. CASE Readable(f) /\ Lines(f) # {}
  <2> DEFINE T == {b.id : b \in Range(read_all(f))}
  <2>1. \A y : y \in T <=> \E i \in Lines(f) : y = f[i][1].id
    BY DEF Range, read_all
  <2>2. m = Max(T) + 1
    BY <1>2 DEF compute_next_block_id
  <2> HIDE DEF T
  <2>3. \A i \in Lines(f) : f[i][1].id \in Nat /\ f[i][1].id < n
    BY <1>2, LinesHoldBlocks
  <2>4. T \subseteq Nat /\ T # {} /\ \A y \in T : y < n
    BY <2>1, <2>3, <1>2
  <2>5. Max(T) \in T /\ \A y \in T : y <= Max(T)
    BY <2>4, HighestBelow
  <2>6. Max(T) \in Nat /\ m = Max(T) + 1
    BY <2>2, <2>4, <2>5
  <2>7. ASSUME NEW i \in Lines(f) PROVE f[i][1].id < m
    <3>1. f[i][1].id \in T
      BY <2>1
    <3>2. f[i][1].id <= Max(T) /\ f[i][1].id \in Nat
      BY <3>1, <2>3, <2>5
    <3> QED
      BY <3>2, <2>6
  <2> QED
    BY <2>6, <2>7
<1> QED
  BY <1>1, <1>2

LEMMA RestartKeepsStore ==
  ASSUME StoreInv, NEW torn \in BOOLEAN, Restart(torn)
  PROVE  StoreInv'
<1>1. StoreTypes /\ file \in Seq(Seq(Blocks)) /\ file # << >> /\ next_block_id \in Nat
  BY DEF StoreInv, StoreTypes
<1>2. /\ file' = IF torn THEN OnLastLine(file, Torn) ELSE file
      /\ appender' = [a \in Appenders |-> NotAppending] /\ acknowledged' = acknowledged
      /\ next_block_id' = compute_next_block_id(file')
  BY DEF Restart
<1>3. NotAppending \in Appending /\ NotAppending.pc = "idle"
  BY DEF NotAppending, Appending
<1>4. appender' \in [Appenders -> Appending] /\ \A a \in Appenders : appender'[a].pc = "idle"
  BY <1>2, <1>3
<1>5. CASE torn
  <2>1. /\ file' \in Seq(Seq(Blocks)) /\ file' # << >> /\ ~Readable(file')
    BY <1>1, <1>2, <1>5, TornUnreadable DEF StoreTypes
  <2>2. next_block_id' = 0
    BY <2>1, <1>2 DEF compute_next_block_id
  <2>3. StoreTypes'
    BY <2>1, <2>2, <1>4 DEF StoreTypes
  <2> QED
    BY <2>1, <2>3 DEF StoreInv
<1>6. CASE ~torn
  <2>1. file' = file /\ next_block_id' = compute_next_block_id(file)
    BY <1>2, <1>6
  <2>2. Readable(file) => \A i \in Lines(file) : file[i][1].id < next_block_id
    BY DEF StoreInv, IdsGivenOut
  <2>3. /\ next_block_id' \in Nat
        /\ Readable(file) => \A i \in Lines(file) : file[i][1].id < next_block_id'
    BY <2>1, <2>2, <1>1, NextIdAbove
  <2>4. StoreTypes'
    BY <2>1, <2>3, <1>1, <1>4 DEF StoreTypes
  <2>5. ASSUME Readable(file) PROVE IdsGivenOut' /\ WrittenHeld'
    <3>1. IdsGivenOut /\ WrittenHeld
      BY <2>5 DEF StoreInv
    <3> QED
      BY <3>1, <2>1, <2>3, <2>5, <1>2, <1>4 DEF IdsGivenOut, WrittenHeld
  <2> QED
    BY <2>1, <2>4, <2>5 DEF StoreInv
<1> QED
  BY <1>5, <1>6

LEMMA StoreStep == StoreInv /\ [StoreNext]_storeVars => StoreInv'
<1> SUFFICES ASSUME StoreInv, [StoreNext]_storeVars PROVE StoreInv'
  OBVIOUS
<1>1. ASSUME NEW a \in Appenders, NEW ticks \in Runs, append_block(a, ticks) PROVE StoreInv'
  BY <1>1, AppendKeepsStore
<1>2. ASSUME NEW a \in Appenders, NEW ticks \in Runs, migrate_plaintext(a, ticks) PROVE StoreInv'
  BY <1>2, AppendKeepsStore DEF migrate_plaintext
<1>3. ASSUME NEW a \in Appenders, NEW torn \in BOOLEAN, AppendFails(a, torn) PROVE StoreInv'
  BY <1>3, FailedAppendKeepsStore
<1>4. ASSUME NEW a \in Appenders, WriteText(a) PROVE StoreInv'
  BY <1>4, TextKeepsStore
<1>5. ASSUME NEW a \in Appenders, WriteNewline(a) PROVE StoreInv'
  BY <1>5, NewlineKeepsStore
<1>6. ASSUME NEW torn \in BOOLEAN, Restart(torn) PROVE StoreInv'
  BY <1>6, RestartKeepsStore
<1>7. CASE UNCHANGED storeVars
  BY <1>7 DEF storeVars, StoreInv, StoreTypes, IdsGivenOut, WrittenHeld
<1> QED
  BY <1>1, <1>2, <1>3, <1>4, <1>5, <1>6, <1>7 DEF StoreNext

\* StoreSound, of the file of encrypted_jsonl.rs: as long as it can be read, every
\* block whose append_block returned Ok is in it, and no two blocks have one id,
\* for any number of threads, failed writes and restarts.
THEOREM StoreIsSound == StoreSpec => []StoreSound
<1>1. StoreInv => StoreSound
  <2> SUFFICES ASSUME StoreInv, Readable(file)
               PROVE  /\ \A x \in acknowledged :
                           \E i \in DOMAIN read_all(file) : read_all(file)[i] = Block(x.id, x.ticks)
                      /\ \A i, j \in DOMAIN read_all(file) :
                           read_all(file)[i].id = read_all(file)[j].id => i = j
    BY DEF StoreSound
  <2>1. DOMAIN read_all(file) = Lines(file) /\ \A i \in Lines(file) : read_all(file)[i] = file[i][1]
    BY DEF read_all
  <2>2. IdsGivenOut /\ WrittenHeld
    BY DEF StoreInv
  <2> QED
    BY <2>1, <2>2 DEF IdsGivenOut, WrittenHeld, Holds
<1>2. StoreInit => StoreInv
  BY StoreStarts
<1>3. StoreInv /\ [StoreNext]_storeVars => StoreInv'
  BY StoreStep
<1> QED
  BY <1>1, <1>2, <1>3, PTL DEF StoreSpec

-----------------------------------------------------------------------------
(* The cache of other nodes' calendars                                       *)

Cached == [bin : {"none", "MyOwn", "Used", "Unused"}, size : Nat, last : Nat]
CacheCalls == [pc : {"idle", "check", "pick", "picked", "deleting", "removed", "demote"},
               calendar : Calendars \cup {"none"}, size : Nat, incoming : Nat, now : Nat]
InHand(d) == d.pc \in {"picked", "deleting"}

CacheTypes ==
  /\ lru \in [Calendars -> Cached] /\ current_bytes \in Int /\ lru_clock \in Nat
  /\ cache_call \in [CacheThreads -> CacheCalls]
  /\ \A w \in CacheThreads : InHand(cache_call[w]) => cache_call[w].calendar \in Calendars

\* One's own are in the bin of one's own.
OwnInBin == \A c \in own : c \in Calendars /\ lru[c].bin = "MyOwn"

\* The copy of a thread that evicts is what the cache holds, and no other thread
\* has one of it, unless the calendar was replaced, removed or picked twice.
CopyOf(l, d, mine) == InHand(d) => l[d.calendar].size = d.size /\ d.calendar \notin mine
Apart(k) ==
  \A v, w \in CacheThreads : InHand(k[v]) /\ InHand(k[w]) /\ k[v].calendar = k[w].calendar => v = w
CopiesAreCurrent ==
  ~drifted => (\A w \in CacheThreads : CopyOf(lru, cache_call[w], own)) /\ Apart(cache_call)

\* The sizes that count, of a cache and the calls under way.
Gone(k, c) == \E w \in CacheThreads : k[w].pc = "deleting" /\ k[w].calendar = c
SizesOf(l, k) == [c \in Calendars |-> IF Gone(k, c) THEN 0 ELSE l[c].size]
Owed(d) == IF d.pc = "removed" THEN d.size ELSE 0
OwedBy(k) == [w \in CacheThreads |-> Owed(k[w])]
Total(l, k) == SumFunctionOnSet(SizesOf(l, k), Calendars) + SumFunctionOnSet(OwedBy(k), CacheThreads)
BytesCounted == ~drifted => current_bytes = Total(lru, cache_call) % LruModulus

CacheInv == CacheTypes /\ OwnInBin /\ CopiesAreCurrent /\ BytesCounted

LEMMA SizesAre ==
  ASSUME NEW l \in [Calendars -> Cached], NEW k \in [CacheThreads -> CacheCalls]
  PROVE  /\ \A c \in Calendars : SizesOf(l, k)[c] = IF Gone(k, c) THEN 0 ELSE l[c].size
         /\ \A w \in CacheThreads : OwedBy(k)[w] = Owed(k[w]) /\ Owed(k[w]) \in Nat
         /\ Ints(SizesOf(l, k), Calendars) /\ Ints(OwedBy(k), CacheThreads)
<1>1. \A c \in Calendars : l[c].size \in Int
  BY DEF Cached
<1>2. \A w \in CacheThreads : k[w].size \in Nat
  BY DEF CacheCalls
<1> QED
  BY <1>1, <1>2 DEF SizesOf, OwedBy, Owed, Ints

\* The total when nothing that counts changes, when one calendar's size and what one
\* thread owes do, and that it is a number.
LEMMA TotalIsInt ==
  ASSUME NEW l \in [Calendars -> Cached], NEW k \in [CacheThreads -> CacheCalls]
  PROVE  /\ Total(l, k) \in Int /\ SumFunctionOnSet(SizesOf(l, k), Calendars) \in Int
         /\ SumFunctionOnSet(OwedBy(k), CacheThreads) \in Int
<1>1. SumFunctionOnSet(SizesOf(l, k), Calendars) \in Int
  BY CacheAssumption, SizesAre, SumIsInt
<1>2. SumFunctionOnSet(OwedBy(k), CacheThreads) \in Int
  BY CacheAssumption, SizesAre, SumIsInt
<1> QED
  BY <1>1, <1>2 DEF Total
SameSizes(l, k, l2, k2) == \A c \in Calendars : SizesOf(l2, k2)[c] = SizesOf(l, k)[c]
SameOwed(k, k2) == \A w \in CacheThreads : OwedBy(k2)[w] = OwedBy(k)[w]
LEMMA SizesKept ==
  ASSUME NEW l \in [Calendars -> Cached], NEW k \in [CacheThreads -> CacheCalls],
         NEW l2 \in [Calendars -> Cached], NEW k2 \in [CacheThreads -> CacheCalls],
         SameSizes(l, k, l2, k2)
  PROVE  SumFunctionOnSet(SizesOf(l2, k2), Calendars) = SumFunctionOnSet(SizesOf(l, k), Calendars)
BY CacheAssumption, SizesAre, SumAgrees DEF SameSizes
LEMMA OwedKept ==
  ASSUME NEW k \in [CacheThreads -> CacheCalls], NEW k2 \in [CacheThreads -> CacheCalls],
         SameOwed(k, k2)
  PROVE  SumFunctionOnSet(OwedBy(k2), CacheThreads) = SumFunctionOnSet(OwedBy(k), CacheThreads)
<1>1. Ints(OwedBy(k), CacheThreads)
  BY DEF OwedBy, Owed, Ints, CacheCalls
<1> QED
  BY <1>1, CacheAssumption, SumAgrees DEF SameOwed
LEMMA TotalKept ==
  ASSUME NEW l \in [Calendars -> Cached], NEW k \in [CacheThreads -> CacheCalls],
         NEW l2 \in [Calendars -> Cached], NEW k2 \in [CacheThreads -> CacheCalls],
         SameSizes(l, k, l2, k2), SameOwed(k, k2)
  PROVE  Total(l2, k2) = Total(l, k)
BY SizesKept, OwedKept DEF Total
\* One calendar counts for another size.
LEMMA SizeChanges ==
  ASSUME NEW l \in [Calendars -> Cached], NEW k \in [CacheThreads -> CacheCalls],
         NEW l2 \in [Calendars -> Cached], NEW k2 \in [CacheThreads -> CacheCalls],
         NEW c \in Calendars, \A x \in Calendars : x # c => SizesOf(l2, k2)[x] = SizesOf(l, k)[x]
  PROVE  SumFunctionOnSet(SizesOf(l2, k2), Calendars) =
           SumFunctionOnSet(SizesOf(l, k), Calendars) - SizesOf(l, k)[c] + SizesOf(l2, k2)[c]
BY CacheAssumption, SizesAre, SumChange
\* One thread owes something else.
LEMMA OwedChanges ==
  ASSUME NEW k \in [CacheThreads -> CacheCalls], NEW k2 \in [CacheThreads -> CacheCalls],
         NEW w \in CacheThreads, \A x \in CacheThreads : x # w => k2[x] = k[x]
  PROVE  SumFunctionOnSet(OwedBy(k2), CacheThreads) =
           SumFunctionOnSet(OwedBy(k), CacheThreads) - OwedBy(k)[w] + OwedBy(k2)[w]
<1>1. Ints(OwedBy(k), CacheThreads) /\ Ints(OwedBy(k2), CacheThreads)
  BY DEF OwedBy, Owed, Ints, CacheCalls
<1>2. \A x \in CacheThreads : x # w => OwedBy(k)[x] = OwedBy(k2)[x]
  BY DEF OwedBy
<1> QED
  BY <1>1, <1>2, CacheAssumption, SumChange

\* An entry of the cache replaced, and a call.
LEMMA EntrySet ==
  ASSUME NEW l \in [Calendars -> Cached], NEW c \in Calendars, NEW r \in Cached, NEW k,
         k = [l EXCEPT ![c] = r]
  PROVE  k \in [Calendars -> Cached] /\ k[c] = r /\ \A x \in Calendars : x # c => k[x] = l[x]
OBVIOUS
LEMMA CallSet ==
  ASSUME NEW k \in [CacheThreads -> CacheCalls], NEW w \in CacheThreads, NEW d \in CacheCalls,
         NEW k2, k2 = [k EXCEPT ![w] = d]
  PROVE  /\ k2 \in [CacheThreads -> CacheCalls] /\ k2[w] = d
         /\ \A x \in CacheThreads : x # w => k2[x] = k[x]
OBVIOUS

LEMMA NoCalendarIs == NoCalendar \in Cached /\ NoCalendar.size = 0 /\ NoCalendar.bin = "none"
BY DEF NoCalendar, Cached
LEMMA NoCallIs == NoCall \in CacheCalls /\ NoCall.pc = "idle"
BY DEF NoCall, CacheCalls
LEMMA CheckingIs ==
  ASSUME NEW n \in Nat, NEW d, d = Checking(n)
  PROVE  d \in CacheCalls /\ d.pc = "check"
BY DEF Checking, NoCall, CacheCalls

\* Who is at neither step of an eviction or removal changes nothing that counts.
Aside(d) == d.pc \notin {"picked", "deleting", "removed"}
LEMMA AsideCounts ==
  ASSUME NEW l, NEW k, NEW k2, NEW w \in CacheThreads, Aside(k[w]), Aside(k2[w]),
         \A x \in CacheThreads : x # w => k2[x] = k[x]
  PROVE  SameSizes(l, k, l, k2) /\ SameOwed(k, k2) /\ \A c : Gone(k2, c) <=> Gone(k, c)
<1>1. \A c : Gone(k2, c) <=> Gone(k, c)
  BY DEF Gone, Aside
<1>2. \A x \in CacheThreads : Owed(k2[x]) = Owed(k[x])
  BY DEF Owed, Aside
<1> QED
  BY <1>1, <1>2 DEF SameSizes, SameOwed, SizesOf, OwedBy

LEMMA CacheStarts == LruInit => CacheInv
<1> SUFFICES ASSUME LruInit PROVE CacheInv
  OBVIOUS
<1>1. /\ lru = [c \in Calendars |-> NoCalendar] /\ current_bytes = 0 /\ lru_clock = 0
      /\ cache_call = [w \in CacheThreads |-> NoCall] /\ own = {}
  BY DEF LruInit
<1>2. /\ lru \in [Calendars -> Cached] /\ cache_call \in [CacheThreads -> CacheCalls]
      /\ \A w \in CacheThreads : cache_call[w].pc = "idle"
      /\ \A c \in Calendars : lru[c].size = 0
  BY <1>1, NoCalendarIs, NoCallIs
<1>3. CacheTypes
  BY <1>1, <1>2 DEF CacheTypes, InHand
<1>4. OwnInBin /\ CopiesAreCurrent
  BY <1>1, <1>2 DEF OwnInBin, CopiesAreCurrent, CopyOf, Apart, InHand
<1>5. PICK l, k : l = lru /\ k = cache_call
  OBVIOUS
<1>6. (\A c \in Calendars : SizesOf(l, k)[c] = 0) /\ (\A w \in CacheThreads : OwedBy(k)[w] = 0)
  BY <1>2, <1>5 DEF SizesOf, OwedBy, Owed
<1>7. SumFunctionOnSet(SizesOf(l, k), Calendars) = 0
  BY <1>6, CacheAssumption, SumOfZeros
<1>8. SumFunctionOnSet(OwedBy(k), CacheThreads) = 0
  BY <1>6, CacheAssumption, SumOfZeros
<1>9. Total(l, k) = 0
  BY <1>7, <1>8 DEF Total
<1>10. 0 % LruModulus = 0
  BY CacheAssumption
<1> QED
  BY <1>1, <1>3, <1>4, <1>5, <1>9, <1>10 DEF CacheInv, BytesCounted

\* Copies stay current when neither the calls nor a calendar they hold changes.
LEMMA CopiesStay ==
  ASSUME CacheInv, cache_call' = cache_call, NEW c \in Calendars, ~drifted, ~Held(c),
         \A x \in Calendars : x # c => lru'[x].size = lru[x].size /\ (x \in own' => x \in own)
  PROVE  /\ \A w \in CacheThreads : CopyOf(lru', cache_call'[w], own')
         /\ Apart(cache_call') /\ ~Gone(cache_call, c)
<1>1. ASSUME NEW w \in CacheThreads, InHand(cache_call[w])
      PROVE  /\ cache_call[w].calendar \in Calendars /\ cache_call[w].calendar # c
             /\ lru[cache_call[w].calendar].size = cache_call[w].size /\ cache_call[w].calendar \notin own
  BY <1>1 DEF CacheInv, CacheTypes, CopiesAreCurrent, CopyOf, Held, Evicting, InHand
<1>2. \A w \in CacheThreads : CopyOf(lru', cache_call'[w], own')
  BY <1>1 DEF CopyOf
<1>3. Apart(cache_call')
  BY DEF CacheInv, CopiesAreCurrent
<1>4. ~Gone(cache_call, c)
  BY DEF Gone, Held, Evicting
<1> QED
  BY <1>2, <1>3, <1>4

\* insert: what a thread evicts or changes its size is no longer counted right.
LEMMA InsertKeepsCache ==
  ASSUME CacheInv, NEW c \in Calendars, NEW bin \in {"MyOwn", "Used", "Unused"}, NEW size \in Sizes,
         lru_insert(c, bin, size)
  PROVE  CacheInv'
<1>1. /\ lru \in [Calendars -> Cached] /\ current_bytes \in Int /\ lru_clock \in Nat /\ size \in Nat
      /\ CacheTypes /\ OwnInBin /\ BytesCounted /\ LruModulus \in Nat \ {0}
      /\ cache_call \in [CacheThreads -> CacheCalls]
  BY CacheAssumption DEF CacheInv, CacheTypes
<1>2. PICK r : r = [bin |-> bin, size |-> size, last |-> lru_clock]
  OBVIOUS
<1>3. r \in Cached /\ r.bin = bin /\ r.size = size
  BY <1>1, <1>2 DEF Cached
<1>4. /\ lru' = [lru EXCEPT ![c] = r] /\ lru_clock' = lru_clock /\ cache_call' = cache_call
      /\ current_bytes' = IF lru[c] = NoCalendar THEN (current_bytes + size) % LruModulus ELSE current_bytes
      /\ own' = IF bin = "MyOwn" THEN own \cup {c} ELSE own \ {c}
  BY <1>2 DEF lru_insert, Wrap
<1>5. ~drifted' => ~drifted /\ ~Held(c) /\ ~(lru[c] # NoCalendar /\ lru[c].size # size)
  BY Zenon DEF lru_insert
<1>6. lru' \in [Calendars -> Cached] /\ lru'[c] = r /\ \A x \in Calendars : x # c => lru'[x] = lru[x]
  BY <1>1, <1>3, <1>4, EntrySet
<1>7. CacheTypes'
  BY <1>1, <1>4, <1>6 DEF CacheTypes
<1>8. OwnInBin'
  BY <1>1, <1>3, <1>4, <1>6 DEF OwnInBin
<1>9. ASSUME ~drifted'
      PROVE  /\ \A w \in CacheThreads : CopyOf(lru', cache_call'[w], own')
             /\ Apart(cache_call')
             /\ current_bytes' = Total(lru', cache_call') % LruModulus
  <2>1. ~drifted /\ ~Held(c) /\ (lru[c] = NoCalendar \/ lru[c].size = size)
    BY <1>5, <1>9
  <2>2. \A x \in Calendars : x # c => lru'[x].size = lru[x].size /\ (x \in own' => x \in own)
    BY <1>4, <1>6
  <2>3. /\ \A w \in CacheThreads : CopyOf(lru', cache_call'[w], own')
        /\ Apart(cache_call') /\ ~Gone(cache_call, c)
    BY <2>1, <2>2, <1>4, CopiesStay
  <2>4. PICK l, l2, k : l = lru /\ l2 = lru' /\ k = cache_call
    OBVIOUS
  <2>5. /\ l \in [Calendars -> Cached] /\ l2 \in [Calendars -> Cached] /\ k \in [CacheThreads -> CacheCalls]
        /\ l2[c].size = size /\ ~Gone(k, c) /\ \A x \in Calendars : x # c => l2[x] = l[x]
    BY <2>3, <2>4, <1>1, <1>3, <1>6
  <2>6. PICK n \in Nat : n = l[c].size
    BY <2>5 DEF Cached
  <2>7. /\ \A x \in Calendars : x # c => SizesOf(l2, k)[x] = SizesOf(l, k)[x]
        /\ SizesOf(l2, k)[c] = size /\ SizesOf(l, k)[c] = n
    BY <2>5, <2>6 DEF SizesOf
  <2>8. PICK t \in Int, u \in Int :
          t = SumFunctionOnSet(SizesOf(l, k), Calendars) /\ u = SumFunctionOnSet(OwedBy(k), CacheThreads)
    BY <2>5, TotalIsInt
  <2>9. SumFunctionOnSet(SizesOf(l2, k), Calendars) = t - n + size
    <3>1. size \in Int /\ n \in Int
      BY <1>1
    <3>9. SumFunctionOnSet(SizesOf(l2, k), Calendars) = SumFunctionOnSet(SizesOf(l, k), Calendars) - SizesOf(l, k)[c] + SizesOf(l2, k)[c]
      BY <3>1, <2>5, <2>7, <2>8, SizeChanges
    <3> QED
      BY <3>9, <2>8, <2>7
  <2>10. Total(l, k) = t + u /\ Total(l2, k) = t - n + size + u
    BY <2>8, <2>9 DEF Total
  <2>11. current_bytes = (t + u) % LruModulus
    BY <2>1, <2>4, <2>10, <1>1 DEF BytesCounted
  <2>12. CASE lru[c] = NoCalendar
    <3>1. n = 0
      BY <2>4, <2>6, <2>12, NoCalendarIs
    <3>2. PICK v \in Int : v = t + u
      OBVIOUS
    <3>3. t - n + size + u = v + size
      BY <3>1, <3>2, <1>1
    <3>4. ((v % LruModulus) + size) % LruModulus = (v + size) % LruModulus
      <4>1. LruModulus \in Nat \ {0} /\ size \in Int
        BY <1>1
      <4> QED
        BY <4>1, ModAdd
    <3>5. current_bytes' = (v + size) % LruModulus
      BY <3>2, <3>4, <2>11, <2>12, <1>4
    <3> QED
      BY <3>3, <3>5, <2>3, <2>4, <2>10, <1>4
  <2>13. CASE lru[c] # NoCalendar
    <3>1. n = size
      BY <2>1, <2>4, <2>6, <2>13
    <3>2. t - n + size + u = t + u
      BY <3>1, <1>1
    <3> QED
      BY <3>2, <2>3, <2>4, <2>10, <2>11, <2>13, <1>4
  <2> QED
    BY <2>12, <2>13
<1> QED
  BY <1>7, <1>8, <1>9 DEF CacheInv, CopiesAreCurrent, BytesCounted

\* A thread goes from aside to aside, and the cache does not change.
LEMMA AsideKeepsCache ==
  ASSUME CacheInv, NEW w \in CacheThreads, NEW d \in CacheCalls,
         cache_call' = [cache_call EXCEPT ![w] = d], Aside(cache_call[w]), Aside(d),
         lru' = lru, current_bytes' = current_bytes, lru_clock' = lru_clock, own' = own, drifted' = drifted
  PROVE  CacheInv'
<1>1. /\ CacheTypes /\ OwnInBin /\ CopiesAreCurrent /\ BytesCounted
      /\ lru \in [Calendars -> Cached] /\ cache_call \in [CacheThreads -> CacheCalls]
  BY DEF CacheInv, CacheTypes
<1>2. PICK l, k, k2 : l = lru /\ k = cache_call /\ k2 = cache_call'
  OBVIOUS
<1>3. /\ k2 \in [CacheThreads -> CacheCalls] /\ k2[w] = d /\ \A x \in CacheThreads : x # w => k2[x] = k[x]
  BY <1>1, <1>2, CallSet
<1>4. ~InHand(k2[w]) /\ \A x \in CacheThreads : InHand(k2[x]) => k2[x] = k[x]
  BY <1>3 DEF InHand, Aside
<1>5. CacheTypes'
  BY <1>1, <1>2, <1>3, <1>4 DEF CacheTypes
<1>6. OwnInBin'
  BY <1>1 DEF OwnInBin
<1>7. CopiesAreCurrent'
  <2>1. ~drifted => (\A x \in CacheThreads : CopyOf(l, k[x], own)) /\ Apart(k)
    BY <1>1, <1>2 DEF CopiesAreCurrent
  <2>2. ~drifted => (\A x \in CacheThreads : CopyOf(l, k2[x], own)) /\ Apart(k2)
    BY <2>1, <1>4 DEF CopyOf, Apart
  <2> QED
    BY <2>2, <1>2 DEF CopiesAreCurrent
<1>8. SameSizes(l, k, l, k2) /\ SameOwed(k, k2)
  BY <1>2, <1>3, AsideCounts
<1>9. Total(l, k2) = Total(l, k)
  BY <1>1, <1>2, <1>3, <1>8, TotalKept
<1> QED
  BY <1>1, <1>2, <1>5, <1>6, <1>7, <1>9 DEF CacheInv, BytesCounted

LEMMA EvictorChecks ==
  ASSUME CacheInv, NEW w \in CacheThreads,
         (\E incoming \in Sizes : evict_to_fit(w, incoming)) \/ Fitting(w) \/ OutOfSpace(w)
           \/ DemoteReadsClock(w)
  PROVE  CacheInv'
<1>1. PICK k : k = cache_call /\ k \in [CacheThreads -> CacheCalls] /\ lru_clock \in Nat
  BY DEF CacheInv, CacheTypes
<1>2. CASE \E incoming \in Sizes : evict_to_fit(w, incoming)
  <2>1. PICK n \in Sizes : evict_to_fit(w, n)
    BY <1>2
  <2>2. PICK d : d = Checking(n)
    OBVIOUS
  <2>3. d \in CacheCalls /\ Aside(d)
    BY <2>2, CheckingIs, CacheAssumption DEF Aside
  <2>4. /\ Aside(cache_call[w]) /\ cache_call' = [cache_call EXCEPT ![w] = d]
        /\ UNCHANGED <<lru, current_bytes, lru_clock, own, drifted>>
    BY <2>1, <2>2 DEF evict_to_fit, Aside
  <2> QED
    BY <2>3, <2>4, AsideKeepsCache
<1>3. CASE Fitting(w)
  <2>1. PICK d : d = IF Wrap(current_bytes + k[w].incoming) > Budget THEN [k[w] EXCEPT !.pc = "pick"] ELSE NoCall
    OBVIOUS
  <2>2. d \in CacheCalls /\ Aside(d)
    <3>1. [k[w] EXCEPT !.pc = "pick"] \in CacheCalls /\ [k[w] EXCEPT !.pc = "pick"].pc = "pick"
      BY <1>1 DEF CacheCalls
    <3> QED
      BY <3>1, <2>1, NoCallIs DEF Aside
  <2>3. cache_call' = [cache_call EXCEPT ![w] = d]
    BY <2>1, <1>1, <1>3 DEF Fitting
  <2>4. Aside(cache_call[w]) /\ UNCHANGED <<lru, current_bytes, lru_clock, own, drifted>>
    BY <1>3 DEF Fitting, Aside
  <2> QED
    BY <2>2, <2>3, <2>4, AsideKeepsCache
<1>4. CASE OutOfSpace(w)
  <2>1. /\ Aside(cache_call[w]) /\ cache_call' = [cache_call EXCEPT ![w] = NoCall]
        /\ UNCHANGED <<lru, current_bytes, lru_clock, own, drifted>>
    BY <1>4 DEF OutOfSpace, Aside
  <2>2. NoCall \in CacheCalls /\ Aside(NoCall)
    BY NoCallIs DEF Aside
  <2> QED
    BY <2>1, <2>2, AsideKeepsCache
<1>5. CASE DemoteReadsClock(w)
  <2>1. PICK d : d = [NoCall EXCEPT !.pc = "demote", !.now = lru_clock]
    OBVIOUS
  <2>2. d \in CacheCalls /\ Aside(d)
    BY <2>1, <1>1 DEF NoCall, CacheCalls, Aside
  <2>3. /\ Aside(cache_call[w]) /\ cache_call' = [cache_call EXCEPT ![w] = d]
        /\ UNCHANGED <<lru, current_bytes, lru_clock, own, drifted>>
    BY <2>1, <1>5 DEF DemoteReadsClock, Aside
  <2> QED
    BY <2>2, <2>3, AsideKeepsCache
<1> QED
  BY <1>2, <1>3, <1>4, <1>5

\* What is picked is no one's own, its size is copied, and if another thread holds
\* it the count is no longer right.
LEMMA PickKeepsCache ==
  ASSUME CacheInv, NEW w \in CacheThreads, NEW c \in Calendars, pick_unused_random(w, c)
  PROVE  CacheInv'
<1>1. /\ CacheTypes /\ OwnInBin /\ BytesCounted /\ lru \in [Calendars -> Cached]
      /\ cache_call \in [CacheThreads -> CacheCalls]
  BY DEF CacheInv, CacheTypes
<1>2. PICK l, k, k2 : l = lru /\ k = cache_call /\ k2 = cache_call'
  OBVIOUS
<1>3. PICK d : d = [k[w] EXCEPT !.pc = "picked", !.calendar = c, !.size = l[c].size]
  OBVIOUS
<1>4. /\ k[w].pc = "pick" /\ lru[c].bin = "Unused" /\ k2 = [k EXCEPT ![w] = d]
      /\ UNCHANGED <<lru, current_bytes, lru_clock, own>>
  BY <1>2, <1>3 DEF pick_unused_random
<1>5. ~drifted' => ~drifted /\ ~Held(c)
  BY Zenon DEF pick_unused_random
<1>6. l[c].size \in Nat
  BY <1>1, <1>2 DEF Cached
<1>7. d \in CacheCalls /\ d.pc = "picked" /\ d.calendar = c /\ d.size = l[c].size
  BY <1>1, <1>2, <1>3, <1>6 DEF CacheCalls
<1>8. k2 \in [CacheThreads -> CacheCalls] /\ k2[w] = d /\ \A x \in CacheThreads : x # w => k2[x] = k[x]
  BY <1>1, <1>2, <1>4, <1>7, CallSet
<1>9. CacheTypes'
  BY <1>1, <1>2, <1>4, <1>7, <1>8 DEF CacheTypes
<1>10. OwnInBin'
  BY <1>1, <1>4 DEF OwnInBin
<1>11. c \notin own
  BY <1>1, <1>4 DEF OwnInBin
<1>12. ASSUME ~drifted'
       PROVE  /\ \A x \in CacheThreads : CopyOf(lru', cache_call'[x], own')
              /\ Apart(cache_call')
              /\ current_bytes' = Total(lru', cache_call') % LruModulus
  <2>1. ~drifted /\ \A x \in CacheThreads : InHand(k[x]) => k[x].calendar # c
    BY <1>2, <1>5, <1>12 DEF Held, Evicting, InHand
  <2>2. (\A x \in CacheThreads : CopyOf(l, k[x], own)) /\ Apart(k)
    BY <2>1, <1>2 DEF CacheInv, CopiesAreCurrent
  <2>3. \A x \in CacheThreads : CopyOf(l, k2[x], own)
    BY <2>2, <1>7, <1>8, <1>11 DEF CopyOf
  <2>4. Apart(k2)
    BY <2>1, <2>2, <1>7, <1>8 DEF Apart
  <2>5. (\A x : Gone(k2, x) <=> Gone(k, x)) /\ \A x \in CacheThreads : Owed(k2[x]) = Owed(k[x])
    BY <1>4, <1>7, <1>8 DEF Gone, Owed
  <2>6. SameSizes(l, k, l, k2) /\ SameOwed(k, k2)
    BY <2>5 DEF SameSizes, SameOwed, SizesOf, OwedBy
  <2>7. Total(l, k2) = Total(l, k)
    BY <2>6, <1>1, <1>2, <1>8, TotalKept
  <2> QED
    BY <2>1, <2>3, <2>4, <2>7, <1>1, <1>2, <1>4 DEF BytesCounted
<1> QED
  BY <1>9, <1>10, <1>12 DEF CacheInv, CopiesAreCurrent, BytesCounted

\* Bins and times change, sizes do not, and no calendar becomes one's own.
LEMMA BinsKeepCache ==
  ASSUME CacheInv, lru' \in [Calendars -> Cached], lru_clock' \in Nat, current_bytes' = current_bytes,
         cache_call' = cache_call, drifted' = drifted, own' \subseteq own,
         \A x \in Calendars : lru'[x].size = lru[x].size,
         \A x \in own' : lru'[x].bin = lru[x].bin
  PROVE  CacheInv'
<1>1. CacheTypes /\ OwnInBin /\ CopiesAreCurrent /\ BytesCounted
  BY DEF CacheInv
<1>2. CacheTypes'
  BY <1>1 DEF CacheTypes
<1>3. OwnInBin'
  BY <1>1 DEF OwnInBin
<1>4. CopiesAreCurrent'
  BY <1>1 DEF CopiesAreCurrent, CopyOf, CacheTypes
<1>5. PICK l, l2, k : l = lru /\ l2 = lru' /\ k = cache_call
  OBVIOUS
<1>6. l \in [Calendars -> Cached] /\ l2 \in [Calendars -> Cached] /\ k \in [CacheThreads -> CacheCalls]
  BY <1>1, <1>5 DEF CacheTypes
<1>7. SameSizes(l, k, l2, k) /\ SameOwed(k, k)
  BY <1>5 DEF SameSizes, SameOwed, SizesOf
<1>8. Total(l2, k) = Total(l, k)
  BY <1>6, <1>7, TotalKept
<1> QED
  BY <1>1, <1>2, <1>3, <1>4, <1>5, <1>8 DEF CacheInv, BytesCounted

LEMMA TouchKeepsCache ==
  ASSUME CacheInv, NEW c \in Calendars, touch(c)
  PROVE  CacheInv'
<1>1. lru \in [Calendars -> Cached] /\ lru_clock \in Nat
  BY DEF CacheInv, CacheTypes
<1>2. PICK r \in Cached : r = lru[c]
  BY <1>1
<1>3. PICK q : q = [r EXCEPT !.bin = "Used", !.last = lru_clock]
  OBVIOUS
<1>4. q \in Cached /\ q.size = r.size
  BY <1>1, <1>3 DEF Cached
<1>5. /\ lru' = [lru EXCEPT ![c].bin = "Used", ![c].last = lru_clock] /\ own' = own \ {c}
      /\ UNCHANGED <<current_bytes, lru_clock, cache_call, drifted>>
  BY DEF touch
<1>6. lru' = [lru EXCEPT ![c] = q]
  BY <1>1, <1>2, <1>3, <1>5
<1>7. lru' \in [Calendars -> Cached] /\ lru'[c] = q /\ \A x \in Calendars : x # c => lru'[x] = lru[x]
  BY <1>1, <1>4, <1>6, EntrySet
<1>8. \A x \in Calendars : lru'[x].size = lru[x].size
  BY <1>2, <1>4, <1>7
<1>9. own \subseteq Calendars /\ \A x \in own' : lru'[x].bin = lru[x].bin
  BY <1>5, <1>7 DEF CacheInv, OwnInBin
<1> QED
  BY <1>1, <1>5, <1>7, <1>8, <1>9, BinsKeepCache

\* Demotion: two changes that each keep the invariant, of bins and of the call.
LEMMA DemoteKeepsCache ==
  ASSUME CacheInv, NEW w \in CacheThreads, demote_stale_to_unused(w)
  PROVE  CacheInv'
<1>1. /\ lru \in [Calendars -> Cached] /\ lru_clock \in Nat /\ cache_call \in [CacheThreads -> CacheCalls]
      /\ CacheTypes /\ OwnInBin /\ CopiesAreCurrent /\ BytesCounted
  BY DEF CacheInv, CacheTypes
<1>2. PICK l, l2, k, k2 : l = lru /\ l2 = lru' /\ k = cache_call /\ k2 = cache_call'
  OBVIOUS
<1>3. /\ k[w].pc = "demote" /\ k2 = [k EXCEPT ![w] = NoCall]
      /\ l2 = [c \in Calendars |-> IF l[c].bin \in {"Used"} /\ Stale(l[c], k[w].now)
                                   THEN [l[c] EXCEPT !.bin = "Unused"] ELSE l[c]]
      /\ UNCHANGED <<current_bytes, lru_clock, own, drifted>>
  BY <1>2 DEF demote_stale_to_unused, Demoted
<1>4. ASSUME NEW c \in Calendars
      PROVE  /\ l2[c] \in Cached /\ l2[c].size = l[c].size
             /\ l[c].bin # "Used" => l2[c] = l[c]
  <2>1. PICK r \in Cached : r = l[c]
    BY <1>1, <1>2
  <2>2. l2[c] = r \/ (r.bin = "Used" /\ l2[c] = [r EXCEPT !.bin = "Unused"])
    BY <2>1, <1>3
  <2>3. PICK q : q = [r EXCEPT !.bin = "Unused"]
    OBVIOUS
  <2>4. q \in Cached /\ q.size = r.size
    BY <2>3 DEF Cached
  <2> QED
    BY <2>1, <2>2, <2>3, <2>4
<1>5. l2 \in [Calendars -> Cached]
  BY <1>3, <1>4
<1>6. /\ k2 \in [CacheThreads -> CacheCalls] /\ k2[w] = NoCall /\ \A x \in CacheThreads : x # w => k2[x] = k[x]
  BY <1>1, <1>2, <1>3, NoCallIs, CallSet
<1>7. Aside(k[w]) /\ Aside(k2[w])
  BY <1>3, <1>6, NoCallIs DEF Aside
<1>8. \A x \in CacheThreads : InHand(k2[x]) => k2[x] = k[x]
  BY <1>6, <1>7 DEF InHand, Aside
<1>9. CacheTypes'
  BY <1>1, <1>2, <1>3, <1>5, <1>6, <1>8 DEF CacheTypes
<1>10. OwnInBin'
  BY <1>1, <1>2, <1>3, <1>4 DEF OwnInBin
<1>11. CopiesAreCurrent'
  <2>1. ~drifted => (\A x \in CacheThreads : CopyOf(l, k[x], own)) /\ Apart(k)
    BY <1>1, <1>2 DEF CopiesAreCurrent
  <2>2. \A x \in CacheThreads : InHand(k[x]) => k[x].calendar \in Calendars
    BY <1>1, <1>2 DEF CacheTypes
  <2>3. ~drifted => (\A x \in CacheThreads : CopyOf(l2, k2[x], own)) /\ Apart(k2)
    BY <2>1, <2>2, <1>4, <1>8 DEF CopyOf, Apart
  <2> QED
    BY <2>3, <1>2, <1>3 DEF CopiesAreCurrent
<1>12. SameOwed(k, k2) /\ \A c : Gone(k2, c) <=> Gone(k, c)
  BY <1>6, <1>7, AsideCounts
<1>13. SameSizes(l, k, l2, k2)
  BY <1>4, <1>12 DEF SameSizes, SizesOf
<1>14. Total(l2, k2) = Total(l, k)
  BY <1>1, <1>2, <1>5, <1>6, <1>12, <1>13, TotalKept
<1> QED
  BY <1>1, <1>2, <1>3, <1>9, <1>10, <1>11, <1>14 DEF CacheInv, BytesCounted

\* The bytes of the picked calendar are given back: it no longer counts.
LEMMA SubtractKeepsCache ==
  ASSUME CacheInv, NEW w \in CacheThreads, EvictSubtracts(w)
  PROVE  CacheInv'
<1>1. /\ CacheTypes /\ OwnInBin /\ BytesCounted /\ lru \in [Calendars -> Cached]
      /\ cache_call \in [CacheThreads -> CacheCalls] /\ current_bytes \in Int /\ LruModulus \in Nat \ {0}
  BY CacheAssumption DEF CacheInv, CacheTypes
<1>2. PICK l, k, k2 : l = lru /\ k = cache_call /\ k2 = cache_call'
  OBVIOUS
<1>3. PICK d, c : d = [k[w] EXCEPT !.pc = "deleting"] /\ c = k[w].calendar
  OBVIOUS
<1>4. k[w].size \in Nat
  BY <1>1, <1>2 DEF CacheCalls
<1>5. PICK n \in Nat : n = k[w].size
  BY <1>4
<1>6. /\ k[w].pc = "picked" /\ k2 = [k EXCEPT ![w] = d]
      /\ current_bytes' = (LruModulus + current_bytes - n) % LruModulus
      /\ lru' = lru /\ lru_clock' = lru_clock /\ own' = own /\ drifted' = drifted
  BY <1>1, <1>2, <1>3, <1>5 DEF EvictSubtracts, Wrap
<1>7. d \in CacheCalls /\ d.pc = "deleting" /\ d.calendar = c /\ d.size = n
  BY <1>1, <1>2, <1>3, <1>5 DEF CacheCalls
<1>8. k2 \in [CacheThreads -> CacheCalls] /\ k2[w] = d /\ \A x \in CacheThreads : x # w => k2[x] = k[x]
  BY <1>1, <1>2, <1>6, <1>7, CallSet
<1>9. c \in Calendars
  BY <1>1, <1>2, <1>3, <1>6 DEF CacheTypes, InHand
<1>10. CacheTypes'
  <2>1. (LruModulus + current_bytes - n) % LruModulus \in Int
    BY <1>1
  <2> QED
    BY <2>1, <1>1, <1>2, <1>6, <1>7, <1>8, <1>9 DEF CacheTypes
<1>11. OwnInBin'
  BY <1>1, <1>6 DEF OwnInBin
<1>12. ASSUME ~drifted'
       PROVE  /\ \A x \in CacheThreads : CopyOf(lru', cache_call'[x], own')
              /\ Apart(cache_call')
              /\ current_bytes' = Total(lru', cache_call') % LruModulus
  <2>1. ~drifted /\ (\A x \in CacheThreads : CopyOf(l, k[x], own)) /\ Apart(k)
    BY <1>2, <1>6, <1>12 DEF CacheInv, CopiesAreCurrent
  <2>2. InHand(k[w]) /\ \A x \in CacheThreads : /\ InHand(k2[x]) <=> InHand(k[x])
                                                /\ k2[x].calendar = k[x].calendar /\ k2[x].size = k[x].size
    BY <1>3, <1>5, <1>6, <1>7, <1>8 DEF InHand
  <2>3. (\A x \in CacheThreads : CopyOf(l, k2[x], own)) /\ Apart(k2)
    BY <2>1, <2>2 DEF CopyOf, Apart
  <2>4. l[c].size = n
    BY <2>1, <2>2, <1>3, <1>5 DEF CopyOf
  <2>5. \A x \in CacheThreads : k[x].pc = "deleting" => k[x].calendar # c
    BY <2>1, <2>2, <1>3, <1>6 DEF Apart, InHand
  <2>6. /\ ~Gone(k, c) /\ Gone(k2, c) /\ \A x : x # c => (Gone(k2, x) <=> Gone(k, x))
    BY <2>5, <1>6, <1>7, <1>8 DEF Gone
  <2>7. /\ \A x \in Calendars : x # c => SizesOf(l, k2)[x] = SizesOf(l, k)[x]
        /\ SizesOf(l, k2)[c] = 0 /\ SizesOf(l, k)[c] = n
    BY <2>4, <2>6, <1>9 DEF SizesOf
  <2>8. PICK t \in Int, u \in Int :
          t = SumFunctionOnSet(SizesOf(l, k), Calendars) /\ u = SumFunctionOnSet(OwedBy(k), CacheThreads)
    BY <1>1, <1>2, TotalIsInt
  <2>9. SumFunctionOnSet(SizesOf(l, k2), Calendars) = t - n + 0
    <3>1. 0 \in Int /\ n \in Int /\ l \in [Calendars -> Cached] /\ k \in [CacheThreads -> CacheCalls]
      BY <1>1, <1>2
    <3>9. SumFunctionOnSet(SizesOf(l, k2), Calendars) = SumFunctionOnSet(SizesOf(l, k), Calendars) - SizesOf(l, k)[c] + SizesOf(l, k2)[c]
      BY <3>1, <2>7, <2>8, <1>8, <1>9, SizeChanges
    <3> QED
      BY <3>9, <2>8, <2>7
  <2>10. SameOwed(k, k2)
    <3>1. \A x \in CacheThreads : Owed(k2[x]) = Owed(k[x])
      BY <1>6, <1>7, <1>8 DEF Owed
    <3> QED
      BY <3>1 DEF SameOwed, OwedBy
  <2>11. SumFunctionOnSet(OwedBy(k2), CacheThreads) = u
    BY <2>8, <2>10, <1>1, <1>2, <1>8, OwedKept
  <2>12. Total(l, k) = t + u /\ Total(l, k2) = t - n + 0 + u
    BY <2>8, <2>9, <2>11 DEF Total
  <2>13. PICK v \in Int : v = t + u
    OBVIOUS
  <2>14. t - n + 0 + u = v - n
    BY <2>13
  <2>15. (LruModulus + (v % LruModulus) - n) % LruModulus = (v - n) % LruModulus
    <3>1. LruModulus \in Nat \ {0} /\ n \in Int
      BY <1>1
    <3> QED
      BY <3>1, ModAdd
  <2>16. current_bytes = v % LruModulus
    BY <2>1, <2>12, <2>13, <1>1, <1>2 DEF BytesCounted
  <2>17. current_bytes' = (v - n) % LruModulus
    BY <2>15, <2>16, <1>6
  <2> QED
    BY <2>3, <2>12, <2>14, <2>17, <1>2, <1>6
<1> QED
  BY <1>10, <1>11, <1>12 DEF CacheInv, CopiesAreCurrent, BytesCounted

\* What no longer counts is removed.
LEMMA RemovalKeepsCache ==
  ASSUME CacheInv, NEW w \in CacheThreads, EvictRemoves(w)
  PROVE  CacheInv'
<1>1. /\ CacheTypes /\ OwnInBin /\ BytesCounted /\ lru \in [Calendars -> Cached]
      /\ cache_call \in [CacheThreads -> CacheCalls]
  BY DEF CacheInv, CacheTypes
<1>2. PICK l, l2, k, k2, c : l = lru /\ l2 = lru' /\ k = cache_call /\ k2 = cache_call' /\ c = k[w].calendar
  OBVIOUS
<1>3. k[w].incoming \in Nat
  BY <1>1, <1>2 DEF CacheCalls
<1>4. PICK d : d = Checking(k[w].incoming)
  OBVIOUS
<1>5. d \in CacheCalls /\ d.pc = "check"
  BY <1>3, <1>4, CheckingIs
<1>6. /\ k[w].pc = "deleting" /\ l2 = [l EXCEPT ![c] = NoCalendar] /\ own' = own \ {c}
      /\ k2 = [k EXCEPT ![w] = d]
      /\ current_bytes' = current_bytes /\ lru_clock' = lru_clock /\ drifted' = drifted
  BY <1>2, <1>4 DEF EvictRemoves
<1>7. c \in Calendars
  BY <1>1, <1>2, <1>6 DEF CacheTypes, InHand
<1>8. k2 \in [CacheThreads -> CacheCalls] /\ k2[w] = d /\ \A x \in CacheThreads : x # w => k2[x] = k[x]
  BY <1>1, <1>2, <1>5, <1>6, CallSet
<1>9. l2 \in [Calendars -> Cached] /\ l2[c] = NoCalendar /\ \A x \in Calendars : x # c => l2[x] = l[x]
  BY <1>1, <1>2, <1>6, <1>7, NoCalendarIs, EntrySet
<1>10. \A x \in CacheThreads : InHand(k2[x]) => x # w /\ k2[x] = k[x]
  BY <1>5, <1>8 DEF InHand
<1>11. CacheTypes'
  BY <1>1, <1>2, <1>6, <1>8, <1>9, <1>10 DEF CacheTypes
<1>12. OwnInBin'
  BY <1>1, <1>2, <1>6, <1>9 DEF OwnInBin
<1>13. ASSUME ~drifted'
       PROVE  /\ \A x \in CacheThreads : CopyOf(lru', cache_call'[x], own')
              /\ Apart(cache_call')
              /\ current_bytes' = Total(lru', cache_call') % LruModulus
  <2>1. ~drifted /\ (\A x \in CacheThreads : CopyOf(l, k[x], own)) /\ Apart(k)
    BY <1>2, <1>6, <1>13 DEF CacheInv, CopiesAreCurrent
  <2>2. InHand(k[w]) /\ \A x \in CacheThreads : InHand(k2[x]) =>
          k2[x].calendar # c /\ k2[x].calendar \in Calendars
    <3>1. InHand(k[w])
      BY <1>6 DEF InHand
    <3>2. \A x \in CacheThreads : InHand(k[x]) => k[x].calendar \in Calendars
      BY <1>1, <1>2 DEF CacheTypes
    <3>3. \A x \in CacheThreads : InHand(k[x]) /\ k[x].calendar = c => x = w
      BY <3>1, <2>1, <1>2 DEF Apart
    <3> QED
      BY <3>1, <3>2, <3>3, <1>10
  <2>3. (\A x \in CacheThreads : CopyOf(l2, k2[x], own'))
    BY <2>1, <2>2, <1>6, <1>9, <1>10 DEF CopyOf
  <2>4. Apart(k2)
    BY <2>1, <1>10 DEF Apart
  <2>5. Gone(k, c) /\ \A x : x # c => (Gone(k2, x) <=> Gone(k, x))
    BY <1>2, <1>5, <1>6, <1>8 DEF Gone
  <2>6. SameSizes(l, k, l2, k2)
    BY <2>5, <1>7, <1>9, NoCalendarIs DEF SameSizes, SizesOf
  <2>7. SameOwed(k, k2)
    <3>1. \A x \in CacheThreads : Owed(k2[x]) = Owed(k[x])
      BY <1>5, <1>6, <1>8 DEF Owed
    <3> QED
      BY <3>1 DEF SameOwed, OwedBy
  <2>8. Total(l2, k2) = Total(l, k)
    BY <2>6, <2>7, <1>1, <1>2, <1>8, <1>9, TotalKept
  <2> QED
    BY <2>1, <2>3, <2>4, <2>8, <1>1, <1>2, <1>6 DEF BytesCounted
<1> QED
  BY <1>11, <1>12, <1>13 DEF CacheInv, CopiesAreCurrent, BytesCounted

\* remove: the size is owed until it is subtracted; what a thread evicts is given
\* back twice, and drifted says so.
LEMMA RemoveKeepsCache ==
  ASSUME CacheInv, NEW w \in CacheThreads, NEW c \in Calendars, lru_remove(w, c)
  PROVE  CacheInv'
<1>1. /\ lru \in [Calendars -> Cached] /\ cache_call \in [CacheThreads -> CacheCalls]
      /\ CacheTypes /\ OwnInBin /\ BytesCounted
  BY DEF CacheInv, CacheTypes
<1>2. PICK l, l2, k, k2 : l = lru /\ l2 = lru' /\ k = cache_call /\ k2 = cache_call'
  OBVIOUS
<1>3. l[c].size \in Nat
  BY <1>1, <1>2 DEF Cached
<1>4. PICK n \in Nat : n = l[c].size
  BY <1>3
<1>5. PICK d : d = [NoCall EXCEPT !.pc = "removed", !.size = n]
  OBVIOUS
<1>6. d \in CacheCalls /\ d.pc = "removed" /\ d.size = n
  BY <1>5 DEF NoCall, CacheCalls
<1>7. /\ k[w].pc = "idle" /\ l2 = [l EXCEPT ![c] = NoCalendar] /\ own' = own \ {c}
      /\ k2 = [k EXCEPT ![w] = d] /\ current_bytes' = current_bytes /\ lru_clock' = lru_clock
  BY <1>2, <1>4, <1>5 DEF lru_remove
<1>8. ~drifted' => ~drifted /\ ~Held(c)
  BY Zenon DEF lru_remove
<1>9. k2 \in [CacheThreads -> CacheCalls] /\ k2[w] = d /\ \A x \in CacheThreads : x # w => k2[x] = k[x]
  BY <1>1, <1>2, <1>6, <1>7, CallSet
<1>10. l2 \in [Calendars -> Cached] /\ l2[c] = NoCalendar /\ \A x \in Calendars : x # c => l2[x] = l[x]
  BY <1>1, <1>2, <1>7, NoCalendarIs, EntrySet
<1>11. \A x \in CacheThreads : InHand(k2[x]) => k2[x] = k[x]
  BY <1>6, <1>9 DEF InHand
<1>12. CacheTypes'
  BY <1>1, <1>2, <1>7, <1>9, <1>10, <1>11 DEF CacheTypes
<1>13. OwnInBin'
  BY <1>1, <1>2, <1>7, <1>10 DEF OwnInBin
<1>14. ASSUME ~drifted'
       PROVE  /\ \A x \in CacheThreads : CopyOf(lru', cache_call'[x], own')
              /\ Apart(cache_call')
              /\ current_bytes' = Total(lru', cache_call') % LruModulus
  <2>1. ~drifted /\ \A x \in CacheThreads : InHand(k[x]) => k[x].calendar # c
    BY <1>2, <1>8, <1>14 DEF Held, Evicting, InHand
  <2>2. (\A x \in CacheThreads : CopyOf(l, k[x], own)) /\ Apart(k)
    BY <2>1, <1>2 DEF CacheInv, CopiesAreCurrent
  <2>3. \A x \in CacheThreads : InHand(k[x]) => k[x].calendar \in Calendars
    BY <1>1, <1>2 DEF CacheTypes
  <2>4. \A x \in CacheThreads : CopyOf(l2, k2[x], own')
    BY <2>1, <2>2, <2>3, <1>7, <1>10, <1>11 DEF CopyOf
  <2>5. Apart(k2)
    BY <2>2, <1>11 DEF Apart
  <2>6. ~Gone(k, c) /\ \A x : Gone(k2, x) <=> Gone(k, x)
    BY <2>1, <1>6, <1>7, <1>9 DEF Gone, InHand
  <2>7. /\ \A x \in Calendars : x # c => SizesOf(l2, k2)[x] = SizesOf(l, k)[x]
        /\ SizesOf(l2, k2)[c] = 0 /\ SizesOf(l, k)[c] = n
    BY <2>6, <1>4, <1>10, NoCalendarIs DEF SizesOf
  <2>8. PICK t \in Int, u \in Int :
          t = SumFunctionOnSet(SizesOf(l, k), Calendars) /\ u = SumFunctionOnSet(OwedBy(k), CacheThreads)
    BY <1>1, <1>2, TotalIsInt
  <2>9. SumFunctionOnSet(SizesOf(l2, k2), Calendars) = t - n + 0
    <3>1. 0 \in Int /\ n \in Int /\ l \in [Calendars -> Cached] /\ k \in [CacheThreads -> CacheCalls]
      BY <1>1, <1>2
    <3>9. SumFunctionOnSet(SizesOf(l2, k2), Calendars) = SumFunctionOnSet(SizesOf(l, k), Calendars) - SizesOf(l, k)[c] + SizesOf(l2, k2)[c]
      BY <3>1, <2>7, <2>8, <1>9, <1>10, SizeChanges
    <3> QED
      BY <3>9, <2>8, <2>7
  <2>10. SumFunctionOnSet(OwedBy(k2), CacheThreads) = u - 0 + n
    <3>1. 0 \in Int /\ n \in Int /\ k \in [CacheThreads -> CacheCalls]
      BY <1>1, <1>2
    <3>2. Owed(k[w]) = 0 /\ Owed(k2[w]) = n
      BY <1>6, <1>7, <1>9 DEF Owed
    <3>8. OwedBy(k)[w] = Owed(k[w]) /\ OwedBy(k2)[w] = Owed(k2[w])
      BY DEF OwedBy
    <3>9. SumFunctionOnSet(OwedBy(k2), CacheThreads) = SumFunctionOnSet(OwedBy(k), CacheThreads) - OwedBy(k)[w] + OwedBy(k2)[w]
      BY <3>1, <3>2, <2>8, <1>9, OwedChanges
    <3> QED
      BY <3>9, <2>8, <3>2, <3>8
  <2>11. Total(l, k) = t + u /\ Total(l2, k2) = (t - n + 0) + (u - 0 + n)
    BY <2>8, <2>9, <2>10 DEF Total
  <2>12. (t - n + 0) + (u - 0 + n) = t + u
    OBVIOUS
  <2>13. current_bytes = (t + u) % LruModulus
    BY <2>1, <2>11, <1>1, <1>2 DEF BytesCounted
  <2> QED
    BY <2>4, <2>5, <2>11, <2>12, <2>13, <1>2, <1>7
<1> QED
  BY <1>12, <1>13, <1>14 DEF CacheInv, CopiesAreCurrent, BytesCounted

\* The second step of remove pays what is owed.
LEMMA PaymentKeepsCache ==
  ASSUME CacheInv, NEW w \in CacheThreads, RemoveSubtracts(w)
  PROVE  CacheInv'
<1>1. /\ CacheTypes /\ OwnInBin /\ BytesCounted /\ lru \in [Calendars -> Cached]
      /\ cache_call \in [CacheThreads -> CacheCalls] /\ current_bytes \in Int /\ LruModulus \in Nat \ {0}
  BY CacheAssumption DEF CacheInv, CacheTypes
<1>2. PICK l, k, k2 : l = lru /\ k = cache_call /\ k2 = cache_call'
  OBVIOUS
<1>3. k[w].size \in Nat
  BY <1>1, <1>2 DEF CacheCalls
<1>4. PICK n \in Nat : n = k[w].size
  BY <1>3
<1>5. /\ k[w].pc = "removed" /\ k2 = [k EXCEPT ![w] = NoCall]
      /\ current_bytes' = (LruModulus + current_bytes - n) % LruModulus
      /\ lru' = lru /\ lru_clock' = lru_clock /\ own' = own /\ drifted' = drifted
  BY <1>2, <1>4 DEF RemoveSubtracts, Wrap
<1>6. k2 \in [CacheThreads -> CacheCalls] /\ k2[w] = NoCall /\ \A x \in CacheThreads : x # w => k2[x] = k[x]
  BY <1>1, <1>2, <1>5, NoCallIs, CallSet
<1>7. \A x \in CacheThreads : InHand(k2[x]) => k2[x] = k[x]
  BY <1>6, NoCallIs DEF InHand
<1>8. CacheTypes'
  <2>1. (LruModulus + current_bytes - n) % LruModulus \in Int
    BY <1>1
  <2> QED
    BY <2>1, <1>1, <1>2, <1>5, <1>6, <1>7 DEF CacheTypes
<1>9. OwnInBin'
  BY <1>1, <1>5 DEF OwnInBin
<1>10. ASSUME ~drifted'
       PROVE  /\ \A x \in CacheThreads : CopyOf(lru', cache_call'[x], own')
              /\ Apart(cache_call')
              /\ current_bytes' = Total(lru', cache_call') % LruModulus
  <2>1. ~drifted /\ (\A x \in CacheThreads : CopyOf(l, k[x], own)) /\ Apart(k)
    BY <1>2, <1>5, <1>10 DEF CacheInv, CopiesAreCurrent
  <2>2. (\A x \in CacheThreads : CopyOf(l, k2[x], own)) /\ Apart(k2)
    BY <2>1, <1>7 DEF CopyOf, Apart
  <2>3. \A x : Gone(k2, x) <=> Gone(k, x)
    BY <1>5, <1>6, NoCallIs DEF Gone
  <2>4. SameSizes(l, k, l, k2)
    BY <2>3 DEF SameSizes, SizesOf
  <2>5. PICK t \in Int, u \in Int :
          t = SumFunctionOnSet(SizesOf(l, k), Calendars) /\ u = SumFunctionOnSet(OwedBy(k), CacheThreads)
    BY <1>1, <1>2, TotalIsInt
  <2>6. SumFunctionOnSet(SizesOf(l, k2), Calendars) = t
    BY <2>4, <2>5, <1>1, <1>2, <1>6, SizesKept
  <2>7. SumFunctionOnSet(OwedBy(k2), CacheThreads) = u - n + 0
    <3>1. 0 \in Int /\ n \in Int /\ k \in [CacheThreads -> CacheCalls]
      BY <1>1, <1>2
    <3>2. Owed(k[w]) = n /\ Owed(k2[w]) = 0
      BY <1>4, <1>5, <1>6, NoCallIs DEF Owed
    <3>8. OwedBy(k)[w] = Owed(k[w]) /\ OwedBy(k2)[w] = Owed(k2[w])
      BY DEF OwedBy
    <3>9. SumFunctionOnSet(OwedBy(k2), CacheThreads) = SumFunctionOnSet(OwedBy(k), CacheThreads) - OwedBy(k)[w] + OwedBy(k2)[w]
      BY <3>1, <3>2, <2>5, <1>6, OwedChanges
    <3> QED
      BY <3>9, <2>5, <3>2, <3>8
  <2>8. Total(l, k) = t + u /\ Total(l, k2) = t + (u - n + 0)
    BY <2>5, <2>6, <2>7 DEF Total
  <2>9. PICK v \in Int : v = t + u
    OBVIOUS
  <2>10. t + (u - n + 0) = v - n
    BY <2>9
  <2>11. (LruModulus + (v % LruModulus) - n) % LruModulus = (v - n) % LruModulus
    <3>1. LruModulus \in Nat \ {0} /\ n \in Int
      BY <1>1
    <3> QED
      BY <3>1, ModAdd
  <2>12. current_bytes = v % LruModulus
    BY <2>1, <2>8, <2>9, <1>1, <1>2 DEF BytesCounted
  <2>13. current_bytes' = (v - n) % LruModulus
    BY <2>11, <2>12, <1>5
  <2> QED
    BY <2>2, <2>8, <2>10, <2>13, <1>2, <1>5
<1> QED
  BY <1>8, <1>9, <1>10 DEF CacheInv, CopiesAreCurrent, BytesCounted

LEMMA CacheStep == CacheInv /\ [LruNext]_lruVars => CacheInv'
<1> SUFFICES ASSUME CacheInv, [LruNext]_lruVars PROVE CacheInv'
  OBVIOUS
<1>1. ASSUME NEW c \in Calendars, NEW bin \in {"MyOwn", "Used", "Unused"}, NEW size \in Sizes,
             lru_insert(c, bin, size)
      PROVE  CacheInv'
  BY <1>1, InsertKeepsCache
<1>2. ASSUME NEW c \in Calendars, touch(c) PROVE CacheInv'
  BY <1>2, TouchKeepsCache
<1>3. ASSUME NEW w \in CacheThreads, CallNext(w) PROVE CacheInv'
  <2>1. ASSUME NEW c \in Calendars, lru_remove(w, c) \/ pick_unused_random(w, c) PROVE CacheInv'
    BY <2>1, RemoveKeepsCache, PickKeepsCache
  <2>2. CASE (\E incoming \in Sizes : evict_to_fit(w, incoming)) \/ Fitting(w) \/ OutOfSpace(w)
             \/ DemoteReadsClock(w)
    BY <2>2, EvictorChecks
  <2>3. CASE EvictSubtracts(w)
    BY <2>3, SubtractKeepsCache
  <2>4. CASE EvictRemoves(w)
    BY <2>4, RemovalKeepsCache
  <2>5. CASE RemoveSubtracts(w)
    BY <2>5, PaymentKeepsCache
  <2>6. CASE demote_stale_to_unused(w)
    BY <2>6, DemoteKeepsCache
  <2> QED
    BY <1>3, <2>1, <2>2, <2>3, <2>4, <2>5, <2>6 DEF CallNext
<1>4. CASE LruTime \/ UNCHANGED lruVars
  <2>1. lru \in [Calendars -> Cached] /\ lru_clock \in Nat
    BY DEF CacheInv, CacheTypes
  <2>2. UNCHANGED <<lru, current_bytes, cache_call, own, drifted>> /\ lru_clock' \in Nat
    BY <2>1, <1>4 DEF LruTime, lruVars
  <2> QED
    BY <2>1, <2>2, BinsKeepCache
<1> QED
  BY <1>1, <1>2, <1>3, <1>4 DEF LruNext

\* CacheAccounts, of lru.rs, for any number of threads that evict and remove: a
\* calendar inserted as one's own is not picked for eviction until it is touched,
\* replaced or removed, and at every step current_bytes, on a machine word of any
\* size, counts the calendars of the cache, until one changes its size or one that a
\* thread is evicting is replaced, removed or picked by a second thread.
THEOREM CacheIsAccountedFor == LruSpec => []CacheAccounts
<1>1. CacheInv => CacheAccounts
  <2> SUFFICES ASSUME CacheInv, ~drifted
               PROVE  /\ \A w \in CacheThreads : Evicting(w) => cache_call[w].calendar \notin own
                      /\ current_bytes = (SumFunctionOnSet(CountedSizes, Calendars)
                                          + SumFunctionOnSet(RemovedSizes, CacheThreads)) % LruModulus
    BY Zenon DEF CacheAccounts, Wrap
  <2>1. CountedSizes = SizesOf(lru, cache_call)
    BY DEF CountedSizes, SizesOf, Gone
  <2>2. RemovedSizes = OwedBy(cache_call)
    BY DEF RemovedSizes, OwedBy, Owed
  <2>3. current_bytes = Total(lru, cache_call) % LruModulus
    BY DEF CacheInv, BytesCounted
  <2>4. \A w \in CacheThreads : Evicting(w) => cache_call[w].calendar \notin own
    BY DEF CacheInv, CopiesAreCurrent, CopyOf, InHand, Evicting
  <2> QED
    BY <2>1, <2>2, <2>3, <2>4, Zenon DEF Total
<1>2. LruInit => CacheInv
  BY CacheStarts
<1>3. CacheInv /\ [LruNext]_lruVars => CacheInv'
  BY CacheStep
<1> QED
  BY <1>1, <1>2, <1>3, PTL DEF LruSpec
-----------------------------------------------------------------------------
(* Range queries                                                             *)

\* What a number of the word is modulo the word, and the word itself.
LEMMA OfTheWord ==
  ASSUME NEW m \in Nat \ {0}, NEW x \in 0..m
  PROVE  x % m = IF x = m THEN 0 ELSE x
<1>1. x \in Int /\ 0 \in 0..(m - 1)
  OBVIOUS
<1>2. x \div m \in Int /\ x % m \in 0..(m - 1) /\ x = m * (x \div m) + (x % m)
  BY <1>1, DivFacts
<1>3. PICK q \in Int, r \in 0..(m - 1) : r = x % m /\ x = m * q + r
  BY <1>2
<1>4. CASE x = m
  <2>1. m * q + r = m * 1 + 0
    <3>1. m * 1 + 0 = m
      OBVIOUS
    <3> QED
      BY <3>1, <1>3, <1>4
  <2>2. r = 0
    BY <2>1, <1>1, RemainderUnique
  <2> QED
    BY <2>2, <1>3, <1>4
<1>5. CASE x # m
  <2>1. m * 0 + x = x /\ x \in 0..(m - 1)
    BY <1>5
  <2>2. m * q + r = m * 0 + x
    BY <2>1, <1>3
  <2>3. r = x
    BY <2>1, <2>2, RemainderUnique
  <2> QED
    BY <2>3, <1>3, <1>5
<1> QED
  BY <1>4, <1>5

\* The arithmetic of the queries: where it wraps, and that it wraps nowhere else.
LEMMA SuccIs ==
  ASSUME NEW n \in TickNumbers
  PROVE  Succ(n) = IF n = TickModulus - 1 THEN 0 ELSE n + 1
<1>1. TickModulus \in Nat \ {0} /\ n + 1 \in 0..TickModulus
  BY StoreAssumption DEF TickNumbers
<1>2. (n + 1) % TickModulus = IF n + 1 = TickModulus THEN 0 ELSE n + 1
  BY <1>1, OfTheWord
<1>3. n + 1 = TickModulus <=> n = TickModulus - 1
  BY <1>1 DEF TickNumbers
<1>4. Succ(n) = IF n + 1 = TickModulus THEN 0 ELSE n + 1
  BY <1>2 DEF Succ
<1> QED
  BY <1>3, <1>4, Zenon
LEMMA RequestedIs ==
  ASSUME NEW lo \in TickNumbers, NEW hi \in TickNumbers, lo <= hi
  PROVE  Requested(lo, hi) = IF hi - lo + 1 = TickModulus THEN 0 ELSE hi - lo + 1
<1>1. TickModulus \in Nat \ {0} /\ hi - lo + 1 \in 0..TickModulus
  BY StoreAssumption DEF TickNumbers
<1>2. (hi - lo + 1) % TickModulus = IF hi - lo + 1 = TickModulus THEN 0 ELSE hi - lo + 1
  BY <1>1, OfTheWord
<1> QED
  BY <1>2 DEF Requested
LEMMA NumbersAre ==
  /\ TickModulus \in Nat \ {0} /\ TickNumbers \subseteq Nat
  /\ \A n : n \in TickNumbers <=> n \in Nat /\ n <= TickModulus - 1
  /\ \A ticks \in Runs : ticks \in Seq(Nat)
BY StoreAssumption DEF TickNumbers

\* Where the number expected before n lies: after everything found below n.
LEMMA ExpectedIs ==
  ASSUME NEW S, NEW lo \in TickNumbers, NEW n \in TickNumbers, lo <= n, \A t \in S : t \in Nat /\ lo <= t
  PROVE  /\ Expected(S, lo, n) \in Nat /\ lo <= Expected(S, lo, n) /\ Expected(S, lo, n) <= n
         /\ \A t \in S : t < n => t < Expected(S, lo, n)
         /\ \A x \in Nat : (lo <= x /\ \A t \in S : t < n => t < x) => Expected(S, lo, n) <= x
<1> DEFINE before == {t \in S : t < n}
<1>0. lo \in Nat /\ n \in Nat /\ n <= TickModulus - 1
  BY NumbersAre
<1>1. CASE before = {}
  <2>1. Expected(S, lo, n) = lo
    BY <1>1 DEF Expected
  <2>2. \A t \in S : ~(t < n)
    BY <1>1
  <2>3. PICK x : x = Expected(S, lo, n) /\ x = lo
    BY <2>1
  <2>4. x \in Nat /\ lo <= x /\ x <= n /\ \A y \in Nat : lo <= y => x <= y
    BY <2>3, <1>0
  <2> QED
    BY <2>2, <2>3, <2>4
<1>2. CASE before # {}
  <2>1. before \subseteq Nat /\ \A t \in before : t < n
    OBVIOUS
  <2>2. Max(before) \in before /\ \A t \in before : t <= Max(before)
    <3> HIDE DEF before
    <3> QED
      BY <2>1, <1>0, <1>2, HighestBelow
  <2>3. Expected(S, lo, n) = Succ(Max(before))
    BY <1>2 DEF Expected
  <2>4. PICK m \in before : m = Max(before) /\ \A t \in before : t <= m
    BY <2>2
  <2>5. m \in Nat /\ m < n
    BY <2>1
  <2>6. m \in TickNumbers /\ m # TickModulus - 1
    BY <2>5, <1>0, NumbersAre
  <2>7. Succ(m) = m + 1
    BY <2>6, SuccIs
  <2>8. PICK x : x = Expected(S, lo, n) /\ x = m + 1
    BY <2>3, <2>4, <2>7
  <2>9. \A t \in S : t \in Nat /\ (t < n => t <= m)
    BY <2>4
  <2>10. m \in S /\ m < n
    BY <2>4
  <2>11. x \in Nat /\ lo <= x /\ x <= n
    BY <2>5, <2>8, <2>10, <1>0
  <2>12. \A t \in S : t < n => t < x
    BY <2>5, <2>8, <2>9
  <2>13. \A y \in Nat : (\A t \in S : t < n => t < y) => x <= y
    BY <2>5, <2>8, <2>10
  <2> QED
    BY <2>8, <2>11, <2>12, <2>13
<1> QED
  BY <1>1, <1>2

\* Exactly the others of lo..hi lie in the gaps, but those after the last one found
\* when the range ends with the word.
AfterThem(S, lo, hi) == {n \in lo..hi : \A m \in S : m < n}
Fill(gaps, S, lo, hi) ==
  UNION {g[1]..(g[2] - 1) : g \in gaps} =
    ((lo..hi) \ S) \ (IF hi = TickModulus - 1 THEN AfterThem(S, lo, hi) ELSE {})

\* The last gap: after the last one found to the end, or nothing.
LEMMA LastGap ==
  ASSUME NEW hi \in TickNumbers, NEW top \in TickNumbers, top <= hi,
         NEW gaps, gaps = (IF Succ(top) <= hi THEN {<<Succ(top), Succ(hi)>>} ELSE {})
  PROVE  UNION {g[1]..(g[2] - 1) : g \in gaps} =
           IF hi = TickModulus - 1 THEN {} ELSE (top + 1)..hi
<1>1. hi \in Nat /\ top \in Nat /\ TickModulus \in Nat \ {0} /\ hi <= TickModulus - 1 /\ top <= TickModulus - 1
  BY NumbersAre
<1>2. PICK a, b : a = Succ(top) /\ b = Succ(hi)
  OBVIOUS
<1>3. /\ a = IF top = TickModulus - 1 THEN 0 ELSE top + 1
      /\ b = IF hi = TickModulus - 1 THEN 0 ELSE hi + 1
  BY <1>2, SuccIs
<1>4. a \in Nat /\ b \in Nat
  BY <1>1, <1>3
<1>5. UNION {g[1]..(g[2] - 1) : g \in gaps} = IF a <= hi THEN a..(b - 1) ELSE {}
  <2>1. gaps = IF a <= hi THEN {<<a, b>>} ELSE {}
    BY <1>2
  <2>2. CASE a <= hi
    <3>1. PICK g : g = <<a, b>>
      OBVIOUS
    <3>2. gaps = {g} /\ g[1] = a /\ g[2] = b
      BY <2>1, <2>2, <3>1
    <3> QED
      BY <2>2, <3>2
  <2>3. CASE ~(a <= hi)
    BY <2>1, <2>3
  <2> QED
    BY <2>2, <2>3
<1>6. (IF a <= hi THEN a..(b - 1) ELSE {}) = IF hi = TickModulus - 1 THEN {} ELSE (top + 1)..hi
  <2>1. CASE hi = TickModulus - 1
    <3>1. b = 0
      BY <2>1, <1>3
    <3>2. a..(b - 1) = {}
      BY <3>1, <1>4
    <3> QED
      BY <3>2, <2>1
  <2>2. CASE hi # TickModulus - 1
    <3>1. b - 1 = hi /\ a = top + 1
      BY <2>2, <1>1, <1>3
    <3>2. ~(a <= hi) => (top + 1)..hi = {}
      BY <3>1, <1>1
    <3> QED
      BY <3>1, <3>2, <2>2
  <2> QED
    BY <2>1, <2>2
<1> QED
  BY <1>5, <1>6

\* The gaps of a range are what was not found of it.
LEMMA GapsAreTheOthers ==
  ASSUME NEW lo \in TickNumbers, NEW hi \in TickNumbers, NEW S, lo <= hi, S \subseteq lo..hi, S # {},
         NEW gaps, gaps = find_gaps(S, lo, hi)
  PROVE  Fill(gaps, S, lo, hi)
<1> DEFINE e(n) == Expected(S, lo, n)
           inner == {<<e(n), n>> : n \in {m \in S : m > e(m)}}
           within == UNION {g[1]..(g[2] - 1) : g \in inner}
<1>0. lo \in Nat /\ hi \in Nat /\ hi <= TickModulus - 1
  BY NumbersAre
<1>1. \A t \in S : t \in Nat /\ lo <= t /\ t <= hi /\ t \in TickNumbers
  BY <1>0, NumbersAre
<1>2. \A n \in S :
        /\ e(n) \in Nat /\ lo <= e(n) /\ e(n) <= n
        /\ \A t \in S : t < n => t < e(n)
        /\ \A x \in Nat : (lo <= x /\ \A t \in S : t < n => t < x) => e(n) <= x
  BY <1>1, ExpectedIs
<1>3. PICK top \in S : top = Max(S) /\ \A t \in S : t <= top
  <2>1. S \subseteq Nat /\ hi + 1 \in Nat /\ \A t \in S : t < hi + 1
    BY <1>0, <1>1
  <2>2. Max(S) \in S /\ \A t \in S : t <= Max(S)
    BY <2>1, HighestBelow
  <2> QED
    BY <2>2
<1>4. PICK last : last = (IF Succ(top) <= hi THEN {<<Succ(top), Succ(hi)>>} ELSE {})
  OBVIOUS
<1>5. gaps = inner \cup last
  BY <1>3, <1>4 DEF find_gaps
<1>6. UNION {g[1]..(g[2] - 1) : g \in last} = IF hi = TickModulus - 1 THEN {} ELSE (top + 1)..hi
  BY <1>1, <1>4, LastGap
<1> HIDE DEF e
<1>7. ASSUME NEW x \in within PROVE x \in (lo..hi) \ S /\ x < top
  <2>1. PICK g \in inner : x \in g[1]..(g[2] - 1)
    OBVIOUS
  <2>2. PICK n \in S : g = <<e(n), n>>
    BY <2>1
  <2>3. x \in e(n)..(n - 1)
    BY <2>1, <2>2
  <2> QED
    BY <2>3, <1>0, <1>1, <1>2, <1>3
<1>8. ASSUME NEW x \in (lo..hi) \ S, x < top PROVE x \in within
  <2> DEFINE above == {t \in S : t > x}
  <2>1. top \in above
    BY <1>8
  <2>2. PICK n \in above : \A t \in above : n <= t
    <3>1. above \subseteq Nat
      BY <1>1
    <3> HIDE DEF above
    <3> QED
      BY <3>1, <2>1, LeastNatural
  <2>3. n \in S /\ x < n /\ \A t \in S : t < n => t < x
    BY <2>2, <1>0, <1>1
  <2>4. e(n) <= x /\ e(n) \in Nat /\ n \in Nat
    BY <2>3, <1>0, <1>1, <1>2
  <2>5. PICK g : g = <<e(n), n>> /\ g \in inner
    <3>1. n > e(n)
      BY <2>3, <2>4, <1>0
    <3> QED
      BY <3>1, <2>3, Zenon
  <2>6. x \in g[1]..(g[2] - 1)
    BY <2>3, <2>4, <2>5, <1>0
  <2> QED
    BY <2>5, <2>6
<1>9. within = {x \in (lo..hi) \ S : x < top}
  <2> HIDE DEF within
  <2> QED
    BY <1>7, <1>8
<1>10. AfterThem(S, lo, hi) = {x \in lo..hi : top < x}
  BY <1>0, <1>1, <1>3 DEF AfterThem
<1>11. (top + 1)..hi = {x \in (lo..hi) \ S : top < x}
  BY <1>0, <1>1, <1>3
<1>12. (lo..hi) \ S = {x \in (lo..hi) \ S : x < top} \cup {x \in (lo..hi) \ S : top < x}
  BY <1>0, <1>1, <1>3
<1>13. UNION {g[1]..(g[2] - 1) : g \in gaps} =
         within \cup (IF hi = TickModulus - 1 THEN {} ELSE (top + 1)..hi)
  <2> HIDE DEF inner
  <2> DEFINE R(g) == g[1]..(g[2] - 1)
  <2> HIDE DEF R
  <2>1. \A g : g \in gaps <=> g \in inner \/ g \in last
    BY <1>5
  <2>2. PICK A, B, C : /\ A = UNION {R(g) : g \in inner} /\ B = UNION {R(g) : g \in last}
                      /\ C = UNION {R(g) : g \in gaps}
    OBVIOUS
  <2>3. /\ \A x : x \in A <=> \E g \in inner : x \in R(g)
        /\ \A x : x \in B <=> \E g \in last : x \in R(g)
        /\ \A x : x \in C <=> \E g \in gaps : x \in R(g)
    BY <2>2
  <2>4. \A x : x \in C <=> x \in A \/ x \in B
    BY <2>1, <2>3, Zenon
  <2>5. C = A \cup B
    BY <2>4
  <2>6. A = within /\ B = IF hi = TickModulus - 1 THEN {} ELSE (top + 1)..hi
    BY <2>2, <1>6 DEF R
  <2> QED
    BY <2>2, <2>5, <2>6 DEF R
<1> HIDE DEF within
<1>14. CASE hi = TickModulus - 1
  <2>1. UNION {g[1]..(g[2] - 1) : g \in gaps} = within
    BY <1>13, <1>14
  <2>2. within = ((lo..hi) \ S) \ AfterThem(S, lo, hi)
    BY <1>0, <1>1, <1>3, <1>9, <1>10, <1>12
  <2> QED
    BY <2>1, <2>2, <1>14 DEF Fill
<1>15. CASE hi # TickModulus - 1
  <2>1. UNION {g[1]..(g[2] - 1) : g \in gaps} = within \cup (top + 1)..hi
    BY <1>13, <1>15
  <2>2. UNION {g[1]..(g[2] - 1) : g \in gaps} = (lo..hi) \ S
    BY <2>1, <1>9, <1>11, <1>12, Zenon
  <2> QED
    BY <2>2, <1>15 DEF Fill
<1> QED
  BY <1>14, <1>15

\* The number n is in a block of f.
Stored(f, n) == \E i \in Lines(f) : n \in Range(f[i][1].ticks)

\* What a range query and a query for one record find.
LEMMA QueriesFind ==
  ASSUME NEW f \in Seq(Seq(Blocks)), Readable(f), NEW lo \in Nat, NEW hi \in Nat
  PROVE  /\ \A n : n \in Found(read_all(f), lo, hi) <=> n \in lo..hi /\ Stored(f, n)
         /\ \A n : handle_get_chronon(f, n) = "found" <=> Stored(f, n)
<1>1. DOMAIN read_all(f) = Lines(f) /\ \A i \in Lines(f) : read_all(f)[i] = f[i][1]
  BY DEF read_all
<1>2. \A i \in Lines(f) : i \in Nat \ {0} /\ f[i][1] \in Blocks
  <2> SUFFICES ASSUME NEW i \in Lines(f) PROVE i \in Nat \ {0} /\ f[i][1] \in Blocks
    OBVIOUS
  <2>1. i \in 1..Len(f) /\ Len(f) \in Nat /\ f[i] \in Seq(Blocks) /\ Len(f[i]) = 1
    BY DEF Lines, Readable, Decodes
  <2> QED
    BY <2>1
<1>3. \A i \in Lines(f) : Range(f[i][1].ticks) \subseteq Nat
  <2> SUFFICES ASSUME NEW i \in Lines(f) PROVE Range(f[i][1].ticks) \subseteq Nat
    OBVIOUS
  <2>1. f[i][1].ticks \in Runs \cup {<< >>}
    BY <1>2 DEF Blocks
  <2>2. PICK ticks : ticks = f[i][1].ticks
    OBVIOUS
  <2>4. ticks \in Seq(Nat)
    <3>1. << >> \in Seq(Nat)
      OBVIOUS
    <3>2. ticks \in Runs \/ ticks = << >>
      BY <2>1, <2>2
    <3> QED
      BY <3>1, <3>2, NumbersAre
  <2>3. Range(ticks) \subseteq Nat
    BY <2>4 DEF Range
  <2> QED
    BY <2>2, <2>3
<1>4. \A n : Stored(f, n) => n \in Nat
  BY <1>3 DEF Stored
<1>5. ASSUME NEW n PROVE n \in Found(read_all(f), lo, hi) <=> n \in lo..hi /\ Stored(f, n)
  <2>1. Range(read_all(f)) = {f[i][1] : i \in Lines(f)}
    BY <1>1 DEF Range
  <2>2. n \in UNION {Range(b.ticks) : b \in Range(read_all(f))} <=> Stored(f, n)
    BY <2>1 DEF Stored
  <2>3. n \in Found(read_all(f), lo, hi) <=> Stored(f, n) /\ lo <= n /\ n <= hi
    BY <2>2 DEF Found, Within
  <2> QED
    BY <2>3, <1>4
<1>6. ASSUME NEW n PROVE handle_get_chronon(f, n) = "found" <=> Stored(f, n)
  <2> DEFINE holding == {i \in DOMAIN read_all(f) : n \in Range(read_all(f)[i].ticks)}
  <2>1. \A i : i \in holding <=> i \in Lines(f) /\ n \in Range(f[i][1].ticks)
    BY <1>1
  <2>2. holding \subseteq Nat \ {0} /\ (holding # {} <=> Stored(f, n))
    BY <2>1, <1>2 DEF Stored
  <2>3. get_chronon(f, n) = IF holding = {} THEN 0 ELSE Min(holding)
    BY DEF get_chronon
  <2> HIDE DEF holding
  <2>4. holding # {} => Min(holding) \in holding
    <3> SUFFICES ASSUME holding # {} PROVE Min(holding) \in holding
      OBVIOUS
    <3>1. holding \subseteq Nat
      BY <2>2
    <3>2. \E x \in holding : \A y \in holding : x <= y
      BY <3>1, LeastNatural
    <3> QED
      BY <3>2 DEF Min
  <2>5. get_chronon(f, n) = 0 <=> holding = {}
    BY <2>2, <2>3, <2>4
  <2> QED
    BY <2>2, <2>5 DEF handle_get_chronon
<1> QED
  BY <1>5, <1>6

\* A range query of a file that can be read.
LEMMA ChainIsExact ==
  ASSUME NEW f \in Seq(Seq(Blocks)), Readable(f), NEW lo \in TickNumbers, NEW hi \in TickNumbers, lo <= hi
  PROVE  ChainExact(f, lo, hi)
<1>0. lo \in Nat /\ hi \in Nat /\ hi <= TickModulus - 1 /\ TickModulus \in Nat \ {0}
  BY NumbersAre
<1>1. PICK S : S = Found(read_all(f), lo, hi)
  OBVIOUS
<1>2. S = {n \in lo..hi : handle_get_chronon(f, n) = "found"}
  BY <1>0, <1>1, QueriesFind
<1>3. S \subseteq lo..hi
  BY <1>2
<1>4. /\ Cardinality(S) \in Nat /\ (Cardinality(S) = 0 => S = {})
      /\ Cardinality(S) = hi - lo + 1 <=> S = lo..hi
  <2>1. IsFiniteSet(lo..hi) /\ Cardinality(lo..hi) = hi - lo + 1
    BY <1>0, FS_Interval
  <2> QED
    BY <2>1, <1>3, FS_Subset, FS_CardinalityType, FS_EmptySet
<1>5. PICK wanted : wanted = Requested(lo, hi)
  OBVIOUS
<1>6. wanted = (IF hi - lo + 1 = TickModulus THEN 0 ELSE hi - lo + 1)
  BY <1>5, RequestedIs
<1>7. S # {} => (Cardinality(S) = wanted <=> S = lo..hi /\ wanted # 0)
  <2>1. hi - lo + 1 # 0
    BY <1>0
  <2> QED
    BY <2>1, <1>4, <1>6
<1> DEFINE chain == get_chronon_chain(f, lo, hi)
           missing == UNION {g[1]..(g[2] - 1) : g \in chain.gaps}
           silent == IF hi = TickModulus - 1 THEN AfterThem(S, lo, hi) ELSE {}
<1>8. /\ chain.records = S
      /\ chain.status = IF S = {} THEN "none" ELSE IF Cardinality(S) = wanted THEN "complete" ELSE "partial"
      /\ chain.gaps = IF chain.status = "partial" THEN find_gaps(S, lo, hi) ELSE {}
  <2>1. ~(lo > hi)
    BY <1>0
  <2> QED
    BY <2>1, <1>1, <1>5 DEF get_chronon_chain
<1> HIDE DEF chain
<1>9. chain.status = "none" <=> S = {}
  BY <1>8
<1>10. chain.status = "complete" <=> S = lo..hi /\ wanted # 0
  <2>1. lo \in lo..hi
    BY <1>0
  <2> QED
    BY <2>1, <1>7, <1>8
<1>11. chain.status = "partial" => missing = ((lo..hi) \ S) \ silent
  <2> SUFFICES ASSUME chain.status = "partial" PROVE missing = ((lo..hi) \ S) \ silent
    OBVIOUS
  <2>1. PICK gaps : gaps = chain.gaps /\ gaps = find_gaps(S, lo, hi)
    BY <1>8
  <2>2. S # {}
    BY <1>9
  <2>3. Fill(gaps, S, lo, hi)
    BY <2>1, <2>2, <1>3, GapsAreTheOthers
  <2> QED
    BY <2>1, <2>3 DEF Fill
<1>12. silent = IF hi = TickModulus - 1 THEN {n \in lo..hi : \A m \in S : m < n} ELSE {}
  BY DEF AfterThem
<1> QED
  <2> HIDE DEF silent, missing
  <2> QED
    BY <1>2, <1>5, <1>8, <1>9, <1>10, <1>11, <1>12, Zenon DEF ChainExact, chain, missing

\* get_chronon_chain on whatever was appended to the file: of any range of numbers
\* of the word, what it returns is what the query for one record finds, and
\* find_gaps names the rest, but what follows the last record up to the end of the
\* word, where its arithmetic wraps.
THEOREM RangeQueriesAreExact ==
  StoreSpec => [](Readable(file) => \A lo, hi \in TickNumbers : lo <= hi => ChainExact(file, lo, hi))
<1>1. StoreInv => (Readable(file) => \A lo, hi \in TickNumbers : lo <= hi => ChainExact(file, lo, hi))
  <2> SUFFICES ASSUME StoreInv, Readable(file), NEW lo \in TickNumbers, NEW hi \in TickNumbers, lo <= hi
               PROVE  ChainExact(file, lo, hi)
    OBVIOUS
  <2>1. file \in Seq(Seq(Blocks))
    BY DEF StoreInv, StoreTypes
  <2> QED
    BY <2>1, ChainIsExact
<1>2. StoreInit => StoreInv
  BY StoreStarts
<1>3. StoreInv /\ [StoreNext]_storeVars => StoreInv'
  BY StoreStep
<1> QED
  BY <1>1, <1>2, <1>3, PTL DEF StoreSpec

-----------------------------------------------------------------------------
(* Storage proofs                                                            *)

\* Ticks in order.
Ascending(ticks) == \A i, j \in DOMAIN ticks : i < j => ticks[i] < ticks[j]

\* What First and After cut off such ticks, and what is left.
Cuts(ticks, lo, hi, f, a) ==
  /\ f \in Nat /\ a \in Nat /\ f <= a /\ a <= Len(ticks)
  /\ InRange(ticks, lo, hi) = (f + 1)..a
LEMMA FirstAndAfter ==
  ASSUME NEW ticks \in Seq(Nat), Ascending(ticks), NEW lo \in Nat, NEW hi \in Nat, lo <= hi
  PROVE  Cuts(ticks, lo, hi, First(ticks, lo), After(ticks, hi))
<1>1. PICK n \in Nat : n = Len(ticks) /\ DOMAIN ticks = 1..n
  BY LenProperties
<1>2. \A i \in 1..n : ticks[i] \in Nat
  BY <1>1, ElementOfSeq
<1>3. \A i, j \in 1..n : i < j => ticks[i] < ticks[j]
  BY <1>1 DEF Ascending
<1> DEFINE P == {i \in 1..n : \A j \in 1..i : ticks[j] < lo}
           B == {i \in 1..n : ticks[i] >= lo}
<1>4. \E f \in 0..n : P = 1..f /\ (\A i \in 1..n : ticks[i] >= lo <=> i > f)
  <2>1. CASE B = {}
    <3>1. \A i \in 1..n : ticks[i] < lo
      BY <2>1, <1>2
    <3>2. P = 1..n
      BY <3>1
    <3>3. \A i \in 1..n : ticks[i] >= lo <=> i > n
      BY <3>1, <1>2
    <3> HIDE DEF P, B
    <3> QED
      BY <3>2, <3>3
  <2>2. CASE B # {}
    <3>1. PICK b \in B : \A c \in B : b <= c
      <4>1. B \subseteq Nat
        OBVIOUS
      <4> HIDE DEF B
      <4> QED
        BY <4>1, <2>2, LeastNatural
    <3>2. b \in 1..n /\ ticks[b] >= lo
      BY <3>1
    <3>3. \A i \in 1..n : i < b => ticks[i] < lo
      BY <3>1, <1>2
    <3>4. \A i \in 1..n : i >= b => ticks[i] >= lo
      <4> SUFFICES ASSUME NEW i \in 1..n, i >= b PROVE ticks[i] >= lo
        OBVIOUS
      <4>1. i = b \/ b < i
        BY <3>2
      <4>2. b < i => ticks[b] < ticks[i]
        BY <3>2, <1>3
      <4> QED
        BY <4>1, <4>2, <3>2, <1>2
    <3>5. PICK f \in 0..n : f = b - 1
      BY <3>2
    <3>6. \A i \in 1..n : ticks[i] >= lo <=> i > f
      BY <3>3, <3>4, <3>5, <1>2
    <3>7. P = 1..f
      BY <3>6, <1>2
    <3> QED
      BY <3>6, <3>7
  <2> QED
    BY <2>1, <2>2
<1>5. PICK f \in 0..n : P = 1..f /\ (\A i \in 1..n : ticks[i] >= lo <=> i > f)
  BY <1>4
<1>6. First(ticks, lo) = f
  <2>1. First(ticks, lo) = Cardinality(P)
    BY <1>1 DEF First
  <2>2. Cardinality(1..f) = f
    BY FS_Interval
  <2> QED
    BY <2>1, <2>2, <1>5
<1> HIDE DEF P, B
<1>7. PICK a \in 0..n : a = After(ticks, hi) /\ \A i \in 1..n : ticks[i] <= hi <=> i <= a
  <2> DEFINE T == {0} \cup {i \in 1..n : ticks[i] <= hi}
  <2>1. T \subseteq Nat /\ T # {} /\ \A i \in T : i < n + 1
    OBVIOUS
  <2>2. PICK a \in T : a = Max(T) /\ \A i \in T : i <= a
    <3> HIDE DEF T
    <3>1. n + 1 \in Nat
      OBVIOUS
    <3>2. Max(T) \in T /\ \A i \in T : i <= Max(T)
      BY <2>1, <3>1, HighestBelow
    <3> QED
      BY <3>2
  <2>3. ASSUME NEW i \in 1..n, i <= a PROVE ticks[i] <= hi
    <3>1. a \in 1..n /\ ticks[a] <= hi
      BY <2>3
    <3>2. i = a \/ i < a
      BY <2>3
    <3>3. i < a => ticks[i] < ticks[a]
      BY <3>1, <1>3
    <3> QED
      BY <3>1, <3>2, <3>3, <1>2
  <2>4. \A i \in 1..n : ticks[i] <= hi => i <= a
    BY <2>2
  <2>5. After(ticks, hi) = a
    BY <2>2, <1>1 DEF After
  <2>6. a \in 0..n
    OBVIOUS
  <2> QED
    BY <2>3, <2>4, <2>5, <2>6
<1>8. f <= a
  <2>1. f \in 1..n => ~(ticks[f] >= lo)
    BY <1>5
  <2>2. f \in 1..n => ticks[f] <= hi
    BY <2>1, <1>2
  <2> QED
    BY <2>2, <1>7
<1>9. InRange(ticks, lo, hi) = (f + 1)..a
  <2>1. InRange(ticks, lo, hi) = {j \in 1..n : lo <= ticks[j] /\ ticks[j] <= hi}
    BY <1>1 DEF InRange, Within
  <2>2. \A j \in 1..n : (lo <= ticks[j] /\ ticks[j] <= hi) <=> (j > f /\ j <= a)
    BY <1>2, <1>5, <1>7
  <2>3. {j \in 1..n : j > f /\ j <= a} = (f + 1)..a
    OBVIOUS
  <2> QED
    BY <2>1, <2>2, <2>3
<1> QED
  BY <1>1, <1>6, <1>7, <1>8, <1>9 DEF Cuts

\* The proof of the ticks of a block in a range: of as many leaves as there are
\* of them, and verified from leaf 0 exactly if the block's first tick is one.
ProofOf(p, f, a) ==
  p.start = f /\ Leaves(p) = a - f /\ (BlockVerified(p) <=> f = 0)
LEMMA BlockProofIs ==
  ASSUME NEW b, b.ticks \in Seq(Nat), Ascending(b.ticks), NEW lo, NEW hi, NEW f \in Nat, NEW a \in Nat,
         f = First(b.ticks, lo), a = After(b.ticks, hi), f < a, a <= Len(b.ticks)
  PROVE  ProofOf(BlockProof(b, lo, hi), f, a)
<1>1. PICK ticks : ticks = b.ticks /\ ticks \in Seq(Nat) /\ Ascending(ticks) /\ a <= Len(ticks)
  OBVIOUS
<1>2. PICK n \in Nat : n = Len(ticks) /\ DOMAIN ticks = 1..n
  BY <1>1, LenProperties
<1>3. PICK G : G = {Leaf(x) : x \in Nat}
  OBVIOUS
<1>4. PICK leaves : leaves = LeavesOf(b)
  OBVIOUS
<1>5. leaves = [i \in 1..n |-> Leaf(ticks[i])]
  BY <1>1, <1>2, <1>4 DEF LeavesOf
<1>6. leaves \in Seq(G) /\ Len(leaves) = n
  <2>1. \A i \in 1..n : ticks[i] \in Nat
    BY <1>1, <1>2, ElementOfSeq
  <2>2. leaves \in [1..n -> G]
    BY <2>1, <1>3, <1>5
  <2>3. leaves \in Seq(G)
    BY <2>2, SeqDef
  <2> QED
    BY <2>3, <1>5, LenOfFcn
<1>7. PICK p : p = BlockProof(b, lo, hi)
  OBVIOUS
<1>8. p.root = root_from_leaves(leaves) /\ p.start = f /\ p.proof = range_proof(leaves, f, a)
  BY <1>4, <1>7 DEF BlockProof
<1>9. Leaves(p) = a - f
  <2>1. p.proof.leaves = SubSeq(leaves, f + 1, a)
    <3>1. PICK proof : proof = range_proof(leaves, f, a) /\ proof = p.proof
      BY <1>8
    <3>2. proof.leaves = SubSeq(leaves, f + 1, a)
      BY <3>1, ProofLeaves
    <3> QED
      BY <3>1, <3>2
  <2>2. Len(leaves) <= Pow2[Depth(Len(leaves))] /\ Pow2[Depth(Len(leaves))] \in Nat
    <3>1. PICK d : d = Depth(n)
      OBVIOUS
    <3>2. n \in Nat \ {0}
      BY <1>1, <1>2
    <3>3. d \in Nat /\ Pow2[d] >= n
      BY <3>1, <3>2, DepthIs
    <3>4. Pow2[d] \in Nat
      BY <3>3, Pow2Doubles
    <3> QED
      BY <3>1, <3>3, <3>4, <1>6
  <2>3. a <= Len(leaves)
    BY <1>1, <1>2, <1>6
  <2>4. Len(SubSeq(leaves, f + 1, a)) = a - f
    BY <2>2, <2>3, <1>6, LeavesAre
  <2> QED
    BY <2>1, <2>4 DEF Leaves
<1>10. ASSUME f = 0 PROVE BlockVerified(p)
  <2>1. a <= Len(leaves)
    BY <1>1, <1>2, <1>6
  <2>2. verify_range_proof(root_from_leaves(leaves), range_proof(leaves, f, a), f, a)
    BY <2>1, <1>6, RangeProofsVerify
  <2>3. Leaves(p) = a
    BY <1>9, <1>10
  <2> QED
    BY <2>2, <2>3, <1>8, <1>10 DEF BlockVerified
<1>11. ASSUME BlockVerified(p) PROVE f = 0
  <2>1. a <= Len(leaves)
    BY <1>1, <1>2, <1>6
  <2>2. verify_range_proof(root_from_leaves(leaves), range_proof(leaves, f, a), 0, Leaves(p))
    BY <1>8, <1>11 DEF BlockVerified
  <2>3. leaves[f + 1] = leaves[1]
    BY <2>1, <2>2, <1>6, FromTheFirstLeaf
  <2>4. 1 \in 1..n /\ f + 1 \in 1..n
    BY <1>1, <1>2
  <2>5. Leaf(ticks[f + 1]) = Leaf(ticks[1])
    BY <2>3, <2>4, <1>5
  <2>6. ticks[f + 1] = ticks[1]
    BY <2>5 DEF Leaf
  <2>7. f # 0 => ticks[1] < ticks[f + 1]
    <3>1. 1 \in DOMAIN ticks /\ f + 1 \in DOMAIN ticks
      BY <2>4, <1>1, <1>2
    <3>2. f # 0 => 1 < f + 1
      OBVIOUS
    <3>3. Ascending(ticks)
      BY <1>1
    <3> QED
      BY <3>1, <3>2, <3>3, Zenon DEF Ascending
  <2>8. ticks[1] \in Nat
    BY <2>4, <1>1, <1>2, ElementOfSeq
  <2>9. PICK t \in Nat : t = ticks[1]
    BY <2>8
  <2>10. ~(t < t)
    OBVIOUS
  <2> QED
    BY <2>6, <2>7, <2>9, <2>10, Zenon
<1> QED
  BY <1>7, <1>8, <1>9, <1>10, <1>11 DEF ProofOf

\* What the proof of a block says of its ticks in the range.
BlockProves(b, lo, hi) ==
  /\ Cardinality(InRange(b.ticks, lo, hi)) \in Nat
  /\ Provable(b, lo, hi) <=> InRange(b.ticks, lo, hi) # {}
  /\ ~Provable(b, lo, hi) => Cardinality(InRange(b.ticks, lo, hi)) = 0
  /\ Provable(b, lo, hi) =>
       /\ Leaves(BlockProof(b, lo, hi)) = Cardinality(InRange(b.ticks, lo, hi))
       /\ BlockVerified(BlockProof(b, lo, hi)) <=> BlockProof(b, lo, hi).start = 0

\* Of a block of so many ticks in order those in a range can be proved.
CanProve(ticks, lo, hi) ==
  /\ ticks \in Seq(Nat) /\ Ascending(ticks)
  /\ Len(ticks) <= MaxPadded /\ Cardinality(InRange(ticks, lo, hi)) <= MaxRange

LEMMA BlockIsProved ==
  ASSUME NEW b, NEW lo \in Nat, NEW hi \in Nat, lo <= hi, CanProve(b.ticks, lo, hi)
  PROVE  BlockProves(b, lo, hi)
<1>1. PICK ticks : ticks = b.ticks /\ ticks \in Seq(Nat) /\ Ascending(ticks)
                   /\ Len(ticks) <= MaxPadded /\ Cardinality(InRange(ticks, lo, hi)) <= MaxRange
  BY DEF CanProve
<1>2. PICK n \in Nat : n = Len(ticks) /\ DOMAIN ticks = 1..n
  BY <1>1, LenProperties
<1>3. PICK f, a : f = First(ticks, lo) /\ a = After(ticks, hi)
  OBVIOUS
<1>4. f \in Nat /\ a \in Nat /\ f <= a /\ a <= n /\ InRange(ticks, lo, hi) = (f + 1)..a
  <2>1. Cuts(ticks, lo, hi, f, a)
    BY <1>1, <1>3, FirstAndAfter
  <2> QED
    BY <2>1, <1>2 DEF Cuts
<1>5. Cardinality(InRange(ticks, lo, hi)) = a - f
  <2>1. PICK m \in Nat : m = f + 1
    BY <1>4
  <2>2. Cardinality(m..a) = IF m > a THEN 0 ELSE a - m + 1
    BY <2>1, <1>4, FS_Interval
  <2>3. (IF m > a THEN 0 ELSE a - m + 1) = a - f
    BY <2>1, <1>4
  <2> QED
    BY <2>1, <2>2, <2>3, <1>4
<1>6. InRange(ticks, lo, hi) # {} <=> f < a
  <2>1. f < a => a \in (f + 1)..a
    BY <1>4
  <2>2. ASSUME NEW x \in (f + 1)..a PROVE f < a
    BY <1>4
  <2> QED
    BY <2>1, <2>2, <1>4
<1>7. Overlaps(b, lo, hi) <=> InRange(ticks, lo, hi) # {}
  BY <1>1 DEF Overlaps, InRange
<1>8. f < a => RangeOk(Len(b.ticks), f, a)
  <2> SUFFICES ASSUME f < a PROVE RangeOk(n, f, a)
    BY <1>1, <1>2
  <2>1. n \in Nat \ {0} /\ n <= MaxPadded
    BY <1>1, <1>2, <1>4
  <2>2. Fits(n)
    BY <2>1, SmallFits
  <2>3. a - f <= MaxRange
    BY <1>1, <1>5
  <2> QED
    BY <2>2, <2>3, <1>4 DEF RangeOk
<1>9. Provable(b, lo, hi) <=> f < a
  BY <1>1, <1>3, <1>6, <1>7, <1>8 DEF Provable
<1>10. ASSUME f < a
       PROVE  /\ Leaves(BlockProof(b, lo, hi)) = a - f
              /\ BlockVerified(BlockProof(b, lo, hi)) <=> BlockProof(b, lo, hi).start = 0
  <2>1. /\ b.ticks \in Seq(Nat) /\ Ascending(b.ticks) /\ f = First(b.ticks, lo)
        /\ a = After(b.ticks, hi) /\ a <= Len(b.ticks)
    BY <1>1, <1>2, <1>3, <1>4
  <2>2. ProofOf(BlockProof(b, lo, hi), f, a)
    BY <2>1, <1>4, <1>10, BlockProofIs
  <2> QED
    BY <2>2 DEF ProofOf
<1>11. a - f \in Nat /\ (~(f < a) => a - f = 0)
  BY <1>4
<1> QED
  BY <1>1, <1>5, <1>6, <1>9, <1>10, <1>11 DEF BlockProves

\* The lines of a file are numbers, and hold blocks.
LEMMA LinesFinite ==
  ASSUME NEW f \in Seq(Seq(Blocks)), Readable(f)
  PROVE  IsFiniteSet(Lines(f)) /\ \A i \in Lines(f) : f[i][1].ticks \in Runs \cup {<< >>}
<1>1. PICK n \in Nat : n = Len(f) /\ DOMAIN f = 1..n
  BY LenProperties
<1>2. IsFiniteSet(1..n)
  BY FS_Interval
<1>3. Lines(f) \subseteq 1..n
  BY <1>1 DEF Lines
<1>4. ASSUME NEW i \in Lines(f) PROVE f[i][1].ticks \in Runs \cup {<< >>}
  <2>1. i \in 1..n /\ Len(f[i]) = 1
    BY <1>1, <1>3 DEF Readable, Decodes
  <2>2. f[i] \in Seq(Blocks)
    BY <2>1, <1>1
  <2>3. f[i][1] \in Blocks
    BY <2>1, <2>2, ElementOfSeq
  <2> QED
    BY <2>3 DEF Blocks
<1> QED
  BY <1>2, <1>3, <1>4, FS_Subset

\* Blocks of no tick stand in no way.
LEMMA NoTickProved == ASSUME NEW lo, NEW hi PROVE CanProve(<< >>, lo, hi)
<1>1. PICK none : none = << >> /\ none \in Seq(Nat) /\ Len(none) = 0 /\ DOMAIN none = {}
  <2>1. << >> \in Seq(Nat) /\ Len(<< >>) = 0
    BY EmptySeq
  <2>2. PICK none : none = << >>
    OBVIOUS
  <2>3. none \in Seq(Nat) /\ Len(none) = 0
    BY <2>1, <2>2
  <2>4. DOMAIN none = 1..Len(none)
    BY <2>3, LenProperties
  <2>5. DOMAIN none = {}
    BY <2>3, <2>4
  <2> QED
    BY <2>2, <2>3, <2>5
<1>2. InRange(none, lo, hi) = {}
  BY <1>1 DEF InRange
<1>3. Cardinality({}) = 0
  BY FS_EmptySet
<1>4. Ascending(none)
  BY <1>1 DEF Ascending
<1>5. Cardinality(InRange(none, lo, hi)) = 0
  BY <1>2, <1>3
<1>6. Len(none) <= MaxPadded /\ Cardinality(InRange(none, lo, hi)) <= MaxRange
  BY <1>1, <1>5 DEF MaxPadded, MaxRange
<1>7. CanProve(none, lo, hi)
  BY <1>1, <1>4, <1>6 DEF CanProve
<1> QED
  BY <1>1, <1>7

\* What append_block takes a root of: ticks in order, not too many to pad.
Rooted(ticks) == Ascending(ticks) /\ Len(ticks) <= MaxPadded
LEMMA LinesProvable ==
  ASSUME \A ticks \in Runs : Rooted(ticks), NEW f \in Seq(Seq(Blocks)), Readable(f),
         NEW lo, NEW hi, NEW i \in Lines(f),
         Cardinality(InRange(f[i][1].ticks, lo, hi)) <= MaxRange
  PROVE  CanProve(f[i][1].ticks, lo, hi)
<1>1. PICK ticks : ticks = f[i][1].ticks /\ Cardinality(InRange(ticks, lo, hi)) <= MaxRange
  OBVIOUS
<1>2. ticks \in Runs \cup {<< >>}
  BY <1>1, LinesFinite
<1>3. CASE ticks \in Runs
  BY <1>1, <1>3, NumbersAre DEF CanProve, Rooted
<1>4. CASE ticks = << >>
  BY <1>1, <1>4, NoTickProved
<1> QED
  BY <1>1, <1>2, <1>3, <1>4

\* A storage proof of a range of a file that can be read.
LEMMA ProofIsExact ==
  ASSUME NEW f \in Seq(Seq(Blocks)), Readable(f), NEW lo \in TickNumbers, NEW hi \in TickNumbers, lo <= hi,
         \A i \in Lines(f) : CanProve(f[i][1].ticks, lo, hi)
  PROVE  ProofExact(f, lo, hi)
<1> DEFINE bs == read_all(f)
           E == Lines(f)
           D == {i \in E : Provable(bs[i], lo, hi)}
           count == [i \in E |-> Cardinality(InRange(bs[i].ticks, lo, hi))]
<1>0. lo \in Nat /\ hi \in Nat /\ ~(lo > hi)
  BY NumbersAre
<1>1. IsFiniteSet(E) /\ DOMAIN bs = E /\ D \subseteq E
  BY LinesFinite DEF read_all
<1>2. ASSUME NEW i \in E PROVE BlockProves(bs[i], lo, hi)
  <2>1. PICK b : b = bs[i] /\ b = f[i][1]
    BY DEF read_all
  <2>4. CanProve(b.ticks, lo, hi)
    BY <2>1
  <2>5. BlockProves(b, lo, hi)
    BY <2>4, <1>0, BlockIsProved
  <2> QED
    BY <2>1, <2>5
<1>3. PICK ps : ps = [i \in D |-> BlockProof(bs[i], lo, hi)]
  OBVIOUS
<1>4. handle_storage_proof_request(f, lo, hi) = [ok |-> D # {}, blocks |-> ps]
  <2>1. prove_storage(f, lo, hi) = build_merkle_proofs(bs, lo, hi)
    BY <1>0 DEF prove_storage
  <2>2. build_merkle_proofs(bs, lo, hi) = ps
    BY <1>1, <1>3 DEF build_merkle_proofs
  <2>3. DOMAIN ps = D
    BY <1>3
  <2> QED
    BY <2>1, <2>2, <2>3 DEF handle_storage_proof_request
<1> HIDE DEF bs, E
<1>5. \A i \in D : ps[i] = BlockProof(bs[i], lo, hi)
  BY <1>3
<1>6. \A i \in D : /\ Leaves(ps[i]) = count[i] /\ count[i] \in Nat
                   /\ BlockVerified(ps[i]) <=> ps[i].start = 0
  BY <1>1, <1>2, <1>5 DEF BlockProves
<1>7. \A i \in E : count[i] \in Nat /\ (i \notin D => count[i] = 0)
  BY <1>2 DEF BlockProves
<1>8. DOMAIN ps = D
  BY <1>3
<1>9. D # {} <=> get_chronon_chain(f, lo, hi).status # "none"
  <2>1. get_chronon_chain(f, lo, hi).status = "none" <=> Found(bs, lo, hi) = {}
    BY <1>0 DEF get_chronon_chain, bs
  <2>2. Found(bs, lo, hi) # {} <=> \E i \in E : InRange(bs[i].ticks, lo, hi) # {}
    BY <1>1 DEF Found, InRange, Range
  <2>3. \A i \in E : Provable(bs[i], lo, hi) <=> InRange(bs[i].ticks, lo, hi) # {}
    BY <1>2 DEF BlockProves
  <2> QED
    BY <2>1, <2>2, <2>3
<1> HIDE DEF D, count
<1>10. PICK sizes : sizes = [i \in D |-> Leaves(ps[i])]
  OBVIOUS
<1>20. PICK wanted : wanted = Requested(lo, hi)
  OBVIOUS
<1>21. PICK part : part = [i \in D |-> IF ps[i].start = 0 THEN Leaves(ps[i]) ELSE 0]
  OBVIOUS
<1>11. ASSUME NEW roots, \A i \in D : ps[i].root \in roots \/ roots = {}
       PROVE  verify_storage_proof(lo, hi, ps, roots) =
                [verified |-> wanted # 0 /\ \A i \in D : ps[i].start = 0,
                 covered |-> IF wanted = 0 THEN 0 ELSE SumFunctionOnSet(part, D)]
  <2>1. \A i \in D : Counted(ps[i], roots) <=> ps[i].start = 0
    BY <1>6, <1>11 DEF Counted
  <2>2. [i \in D |-> IF Counted(ps[i], roots) THEN Leaves(ps[i]) ELSE 0] = part
    BY <2>1, <1>21
  <2>3. (\A i \in D : Counted(ps[i], roots)) <=> \A i \in D : ps[i].start = 0
    BY <2>1
  <2>4. (IF lo > hi THEN 0 ELSE Requested(lo, hi)) = wanted
    BY <1>0, <1>20
  <2> QED
    BY <2>2, <2>3, <2>4, <1>8, Zenon DEF verify_storage_proof
<1>12. PICK result : result = [verified |-> wanted # 0 /\ \A i \in D : ps[i].start = 0,
                               covered |-> IF wanted = 0 THEN 0 ELSE SumFunctionOnSet(part, D)]
  OBVIOUS
<1>13. /\ verify_storage_proof(lo, hi, ps, {}) = result
       /\ verify_storage_proof(lo, hi, ps, {ps[i].root : i \in D}) = result
  BY <1>11, <1>12
<1>14. IsFiniteSet(D) /\ Ints(sizes, D) /\ \A i \in D : sizes[i] = count[i]
  BY <1>1, <1>6, <1>10, FS_Subset DEF Ints
<1>15. result.covered <= SumFunctionOnSet(sizes, D)
  <2>1. PICK none : none = [i \in D |-> 0]
    OBVIOUS
  <2>2. \A i \in D : /\ part[i] \in Int /\ part[i] <= sizes[i]
                     /\ none[i] = 0 /\ none[i] \in Int /\ none[i] <= sizes[i]
    BY <2>1, <1>6, <1>10, <1>21
  <2>3. Ints(part, D) /\ Ints(none, D)
    BY <2>2 DEF Ints
  <2>4. SumFunctionOnSet(part, D) <= SumFunctionOnSet(sizes, D)
    BY <2>2, <2>3, <1>14, SumNotGreater
  <2>5. SumFunctionOnSet(none, D) <= SumFunctionOnSet(sizes, D)
    BY <2>2, <2>3, <1>14, SumNotGreater
  <2>6. SumFunctionOnSet(none, D) = 0
    BY <2>2, <1>14, SumOfZeros
  <2>7. result.covered = IF wanted = 0 THEN 0 ELSE SumFunctionOnSet(part, D)
    BY <1>12
  <2> QED
    BY <2>4, <2>5, <2>6, <2>7
<1>16. SumFunctionOnSet(sizes, D) = SumFunctionOnSet(count, E)
  <2>1. Ints(count, E) /\ \A i \in E \ D : count[i] = 0
    BY <1>7 DEF Ints
  <2>2. SumFunctionOnSet(count, E) = SumFunctionOnSet(count, D)
    BY <2>1, <1>1, SumWithoutZeros
  <2>3. SumFunctionOnSet(sizes, D) = SumFunctionOnSet(count, D)
    BY <1>14, SumAgrees
  <2> QED
    BY <2>2, <2>3
<1>17. count = [i \in DOMAIN bs |-> Cardinality(InRange(bs[i].ticks, lo, hi))]
  BY <1>1 DEF count
<1> QED
  <2>1. PICK answer : answer = handle_storage_proof_request(f, lo, hi) /\ answer.ok = (D # {})
                      /\ answer.blocks = ps
    BY <1>4
  <2>2. ~answer.ok <=> get_chronon_chain(f, lo, hi).status = "none"
    BY <2>1, <1>9
  <2>3. handle_storage_proof_verify(lo, hi, answer, {}) = result
    BY <2>1, <1>13 DEF handle_storage_proof_verify
  <2>4. handle_storage_proof_verify(lo, hi, answer, {ps[i].root : i \in DOMAIN ps}) = result
    BY <2>1, <1>8, <1>13 DEF handle_storage_proof_verify
  <2>5. result.verified <=> Requested(lo, hi) # 0 /\ \A i \in DOMAIN ps : ps[i].start = 0
    BY <1>8, <1>12, <1>20
  <2>6. sizes = [i \in DOMAIN ps |-> Leaves(ps[i])]
    BY <1>8, <1>10
  <2>7. /\ result.covered <= SumFunctionOnSet(sizes, DOMAIN ps)
        /\ SumFunctionOnSet(sizes, DOMAIN ps) =
             SumFunctionOnSet([i \in DOMAIN bs |-> Cardinality(InRange(bs[i].ticks, lo, hi))], DOMAIN bs)
    BY <1>1, <1>8, <1>15, <1>16, <1>17
  <2> QED
    BY <2>1, <2>2, <2>3, <2>4, <2>5, <2>6, <2>7, Zenon DEF ProofExact, bs

\* prove_storage and verify_storage_proof on whatever was appended to the file: of
\* any range of numbers of the word of which no block holds more ticks than a range proof may have leaves,
\* what is proved is what the file holds, whatever is between the blocks.
THEOREM StorageProofsAreExact ==
  ASSUME \A ticks \in Runs : Rooted(ticks)
  PROVE  StoreSpec => [](Readable(file) => \A lo, hi \in TickNumbers :
           lo <= hi /\ (\A i \in Lines(file) : Cardinality(InRange(file[i][1].ticks, lo, hi)) <= MaxRange)
             => ProofExact(file, lo, hi))
<1> DEFINE Exact == Readable(file) => \A lo, hi \in TickNumbers :
             lo <= hi /\ (\A i \in Lines(file) : Cardinality(InRange(file[i][1].ticks, lo, hi)) <= MaxRange)
               => ProofExact(file, lo, hi)
<1>1. StoreInv => Exact
  <2> SUFFICES ASSUME StoreInv, Readable(file), NEW lo \in TickNumbers, NEW hi \in TickNumbers, lo <= hi,
                      \A i \in Lines(file) : Cardinality(InRange(file[i][1].ticks, lo, hi)) <= MaxRange
               PROVE  ProofExact(file, lo, hi)
    OBVIOUS
  <2>1. PICK f \in Seq(Seq(Blocks)) : f = file /\ Readable(f)
    BY DEF StoreInv, StoreTypes
  <2>2. \A i \in Lines(f) : CanProve(f[i][1].ticks, lo, hi)
    BY <2>1, LinesProvable
  <2>3. ProofExact(f, lo, hi)
    BY <2>1, <2>2, ProofIsExact
  <2> QED
    BY <2>1, <2>3
<1>2. StoreInit => StoreInv
  BY StoreStarts
<1>3. StoreInv /\ [StoreNext]_storeVars => StoreInv'
  BY StoreStep
<1> QED
  BY <1>1, <1>2, <1>3, PTL DEF StoreSpec

\* RangeAnswersExact, of calendar_store/mod.rs: on whatever is appended, as long as
\* blocks are of ticks in order and no more of them than a proof of a range holds,
\* every range query and every storage proof agrees with the records of the file.
THEOREM RangeAnswersAreExact ==
  ASSUME \A ticks \in Runs : Ascending(ticks) /\ Len(ticks) <= MaxRange
  PROVE  StoreSpec => []RangeAnswersExact
<1>1. StoreInv => RangeAnswersExact
  <2> SUFFICES ASSUME StoreInv, Readable(file), NEW lo \in TickNumbers, NEW hi \in lo..(TickModulus - 1)
               PROVE  ChainExact(file, lo, hi) /\ ProofExact(file, lo, hi)
    BY DEF RangeAnswersExact
  <2>1. hi \in TickNumbers /\ lo <= hi
    BY NumbersAre
  <2>2. PICK f \in Seq(Seq(Blocks)) : f = file /\ Readable(f)
    BY DEF StoreInv, StoreTypes
  <2>3. ASSUME NEW ticks \in Runs
        PROVE  Rooted(ticks) /\ Cardinality(InRange(ticks, lo, hi)) <= MaxRange
    <3>1. PICK n \in Nat : n = Len(ticks) /\ n <= MaxRange /\ DOMAIN ticks = 1..n
      BY NumbersAre, LenProperties
    <3>2. InRange(ticks, lo, hi) \subseteq 1..n
      BY <3>1 DEF InRange
    <3>3. IsFiniteSet(1..n) /\ Cardinality(1..n) = n
      BY FS_Interval
    <3>4. Cardinality(InRange(ticks, lo, hi)) <= n /\ Cardinality(InRange(ticks, lo, hi)) \in Nat
      BY <3>2, <3>3, FS_Subset, FS_CardinalityType
    <3> QED
      BY <3>1, <3>4 DEF Rooted, MaxPadded, MaxRange
  <2>4. ASSUME NEW i \in Lines(f) PROVE CanProve(f[i][1].ticks, lo, hi)
    <3>1. PICK ticks : ticks = f[i][1].ticks /\ ticks \in Runs \cup {<< >>}
      BY LinesFinite, <2>2
    <3>2. CASE ticks \in Runs
      BY <3>1, <3>2, <2>2, <2>3, LinesProvable
    <3>3. CASE ticks = << >>
      BY <3>1, <3>3, NoTickProved
    <3> QED
      BY <3>1, <3>2, <3>3
  <2>5. ChainExact(f, lo, hi) /\ ProofExact(f, lo, hi)
    BY <2>1, <2>2, <2>4, ChainIsExact, ProofIsExact
  <2> QED
    BY <2>2, <2>5
<1>2. StoreInit => StoreInv
  BY StoreStarts
<1>3. StoreInv /\ [StoreNext]_storeVars => StoreInv'
  BY StoreStep
<1> QED
  BY <1>1, <1>2, <1>3, PTL DEF StoreSpec
=============================================================================
