------------------------- MODULE SeqlockQuoteProofs -------------------------
(***************************************************************************)
(* The seqlock returns no torn and no stale quote, for any set of readers, *)
(* any set of payload fields and any number of publishes.                  *)
(***************************************************************************)
EXTENDS SeqlockQuote, TLAPS

\* seq_ is odd exactly while the writer is inside publish, and a field holds
\* the number of the quote in flight from its store on.
WriterInv ==
  /\ seq % 2 = IF writing THEN 1 ELSE 0
  /\ ~writing => todo = {}
  /\ \A f \in Fields :
       payload[f] = IF writing /\ f \notin todo THEN Published + 1 ELSE Published

\* While seq_ is still what the reader loaded first, what it has copied is the
\* quote with that number.
ReaderInv ==
  \A r \in Readers :
    /\ rpc[r] = "start" => since[r] <= Published
    /\ rpc[r] \in {"load", "done"} =>
         /\ s1[r] % 2 = 0 /\ s1[r] <= seq /\ since[r] <= s1[r] \div 2
         /\ rpc[r] = "done" \/ seq = s1[r] =>
              \A f \in Fields \ left[r] : copy[r][f] = s1[r] \div 2
    /\ rpc[r] = "done" => left[r] = {}

Inv == TypeOK /\ WriterInv /\ ReaderInv

\* Halves of consecutive numbers.
LEMMA Halves ==
  ASSUME NEW n \in Nat
  PROVE  /\ n \div 2 \in Nat
         /\ n % 2 = 0 => (n + 1) % 2 = 1 /\ (n + 1) \div 2 = n \div 2
         /\ n % 2 = 1 => (n + 1) % 2 = 0 /\ (n + 1) \div 2 = (n \div 2) + 1
OBVIOUS

LEMMA InitInv == Init => Inv
<1> SUFFICES ASSUME Init PROVE Inv
  OBVIOUS
<1> USE DEF Init
<1>1. TypeOK
  BY DEF TypeOK
<1>2. WriterInv
  BY DEF WriterInv, Published
<1>3. ReaderInv
  BY DEF ReaderInv
<1>4. QED
  BY <1>1, <1>2, <1>3 DEF Inv

LEMMA TypePreserved == TypeOK /\ [Next]_vars => TypeOK'
<1> SUFFICES ASSUME TypeOK, [Next]_vars PROVE TypeOK'
  OBVIOUS
<1> USE DEF TypeOK
<1>1. CASE PublishBegin
  BY <1>1 DEF PublishBegin, readerVars
<1>2. ASSUME NEW f \in Fields, PublishStore(f) PROVE TypeOK'
  BY <1>2, Halves DEF PublishStore, readerVars, Published
<1>3. CASE PublishEnd
  <2>1. writing' = FALSE /\ UNCHANGED <<payload, todo, readerVars>>
    BY <1>3, Zenon DEF PublishEnd
  <2>2. seq' \in Nat
    BY <1>3 DEF PublishEnd
  <2>3. QED
    BY <2>1, <2>2 DEF readerVars
<1>4. ASSUME NEW r \in Readers, ReadCall(r) PROVE TypeOK'
  BY <1>4 DEF ReadCall, writerVars, Published
<1>5. ASSUME NEW r \in Readers, ReadStart(r) PROVE TypeOK'
  BY <1>5 DEF ReadStart, writerVars
<1>6. ASSUME NEW r \in Readers, NEW f \in Fields, ReadLoad(r, f) PROVE TypeOK'
  BY <1>6 DEF ReadLoad, writerVars
<1>7. ASSUME NEW r \in Readers, ReadCheck(r) PROVE TypeOK'
  BY <1>7 DEF ReadCheck, writerVars
<1>8. CASE UNCHANGED vars
  BY <1>8 DEF vars
<1>9. QED
  BY <1>1, <1>2, <1>3, <1>4, <1>5, <1>6, <1>7, <1>8
  DEF Next, WriterStep, ReaderStep

LEMMA WriterPreserved == Inv /\ [Next]_vars => WriterInv'
<1> SUFFICES ASSUME Inv, [Next]_vars PROVE WriterInv'
  OBVIOUS
<1> USE DEF Inv, TypeOK, WriterInv, Published
<1>1. CASE PublishBegin
  <2>1. seq % 2 = 0 /\ seq' = seq + 1 /\ writing' /\ todo' = Fields /\ payload' = payload
    BY <1>1 DEF PublishBegin
  <2>2. seq' % 2 = 1 /\ Published' = Published
    BY <2>1, Halves
  <2>3. \A f \in Fields : payload[f] = Published
    BY <1>1 DEF PublishBegin
  <2>4. QED
    BY <2>1, <2>2, <2>3
<1>2. ASSUME NEW f \in Fields, PublishStore(f) PROVE WriterInv'
  BY <1>2 DEF PublishStore
<1>3. CASE PublishEnd
  <2>1. seq % 2 = 1 /\ seq' = seq + 1 /\ ~writing' /\ todo' = {} /\ payload' = payload
    BY <1>3 DEF PublishEnd
  <2>2. seq' % 2 = 0 /\ Published' = Published + 1
    BY <2>1, Halves
  <2>3. \A f \in Fields : payload[f] = Published + 1
    BY <1>3 DEF PublishEnd
  <2>4. QED
    BY <2>1, <2>2, <2>3
<1>4. CASE UNCHANGED writerVars
  BY <1>4 DEF writerVars
<1>5. ASSUME NEW r \in Readers, ReadCall(r) \/ ReaderStep(r) PROVE UNCHANGED writerVars
  BY <1>5 DEF ReadCall, ReaderStep, ReadStart, ReadLoad, ReadCheck
<1>6. CASE UNCHANGED vars
  BY <1>6 DEF vars
<1>7. QED
  BY <1>1, <1>2, <1>3, <1>4, <1>5, <1>6 DEF Next, WriterStep

LEMMA ReaderPreserved == Inv /\ [Next]_vars => ReaderInv'
<1> SUFFICES ASSUME Inv, [Next]_vars PROVE ReaderInv'
  OBVIOUS
<1> USE DEF Inv, TypeOK, ReaderInv
<1>1. CASE PublishBegin
  BY <1>1 DEF PublishBegin, readerVars, Published
<1>2. ASSUME NEW f \in Fields, PublishStore(f) PROVE ReaderInv'
  BY <1>2 DEF PublishStore, readerVars, Published
<1>3. CASE PublishEnd
  \* seq_ becomes even: an even s1 below the odd seq_ stays below it.
  BY <1>3 DEF PublishEnd, readerVars, Published, WriterInv
<1>4. ASSUME NEW r \in Readers, ReadCall(r) PROVE ReaderInv'
  BY <1>4 DEF ReadCall, writerVars, Published
<1>5. ASSUME NEW r \in Readers, ReadStart(r) PROVE ReaderInv'
  BY <1>5 DEF ReadStart, writerVars, Published
<1>6. ASSUME NEW r \in Readers, NEW f \in Fields, ReadLoad(r, f) PROVE ReaderInv'
  \* If seq_ is unchanged the writer is outside publish and payload is current.
  BY <1>6 DEF ReadLoad, writerVars, Published, WriterInv
<1>7. ASSUME NEW r \in Readers, ReadCheck(r) PROVE ReaderInv'
  BY <1>7 DEF ReadCheck, writerVars, Published
<1>8. CASE UNCHANGED vars
  BY <1>8 DEF vars, Published
<1>9. QED
  BY <1>1, <1>2, <1>3, <1>4, <1>5, <1>6, <1>7, <1>8
  DEF Next, WriterStep, ReaderStep

LEMMA Invariance == SafetySpec => []Inv
<1>1. Inv /\ [Next]_vars => Inv'
  BY TypePreserved, WriterPreserved, ReaderPreserved DEF Inv
<1>2. QED
  BY InitInv, <1>1, PTL DEF SafetySpec

\* The copy that read returns is never torn (the s1 == s2 check of read against
\* the two fetch_adds of publish).
THEOREM NoTornReads == SafetySpec => []NoTornRead
<1>1. Inv => NoTornRead
  BY DEF Inv, TypeOK, ReaderInv, NoTornRead
<1>2. QED
  BY Invariance, <1>1, PTL

\* The copy that read returns is no older than the last publish that had
\* returned when read was called, and its publish has returned.
THEOREM ReadsAreFresh == SafetySpec => []ReadIsFresh
<1>1. Inv => ReadIsFresh
  BY DEF Inv, TypeOK, ReaderInv, ReadIsFresh, Published
<1>2. QED
  BY Invariance, <1>1, PTL
=============================================================================
