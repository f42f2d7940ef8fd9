-------------------------- MODULE ParallelTests_proofs --------------------------
(***************************************************************************)
(* For any directory, any limits, any number of calls and any interleaving. *)
(* Of the allocator: the slices that the files compute on their own never   *)
(* overlap, so no wallet is handed out twice, and the allocator implements  *)
(* the common pool.  Of the files that use it: one whose calls wait for     *)
(* their blocks, and whose waits were not given up, is alone on its         *)
(* accounts; what a step of one wallet's client does reaches no other       *)
(* client, because no other client has that wallet.                         *)
(***************************************************************************)
EXTENDS ParallelTests, TLAPS

-------------------------------------------------------------------------------
(* The allocator (LocalState)                                               *)


(* Once initialised, a file that passes its suite knows its own place.      *)
PositionKnown ==
  \A f \in File :
    f \in SuiteFile /\ phase[f] \in {"ready", "linking"} =>
      /\ testFilePosition[f] + 1 \in DOMAIN DirListing
      /\ DirListing[testFilePosition[f] + 1] = f

(* A file without a state has been given nothing.                           *)
NothingBeforeInit ==
  \A f \in File, n \in Network :
    phase[f] \in {"created", "failed"} => given[f][n] = <<>>

(* What a file was given lies in its slice, below the next offset.          *)
InSlice ==
  \A f \in File, n \in Network : \A k \in DOMAIN given[f][n] :
    /\ SliceStart(f) <= given[f][n][k]
    /\ given[f][n][k] < MnemonicIndex(f, n)

(* A file is never given the same wallet again.                             *)
DistinctInFile ==
  \A f \in File, n \in Network : \A k, l \in DOMAIN given[f][n] :
    given[f][n][k] = given[f][n][l] => k = l

IInv ==
  /\ AllocTypeOK
  /\ PositionKnown
  /\ NothingBeforeInit
  /\ InSlice
  /\ DistinctInFile

(* Updating one entry of a function of functions.                           *)
LEMMA NestedUpdate ==
  ASSUME NEW A, NEW B, NEW C, NEW m \in [A -> [B -> C]],
         NEW a \in A, NEW b \in B, NEW c \in C
  PROVE  /\ [m EXCEPT ![a][b] = c] \in [A -> [B -> C]]
         /\ [m EXCEPT ![a][b] = c][a][b] = c
         /\ \A x \in A, y \in B :
              x # a \/ y # b => [m EXCEPT ![a][b] = c][x][y] = m[x][y]
  OBVIOUS

(* The entries of a sequence that grew by one.                              *)
LEMMA AppendEntries ==
  ASSUME NEW s \in Seq(Nat), NEW i \in Nat
  PROVE  /\ Append(s, i)[Len(s) + 1] = i
         /\ \A x \in DOMAIN Append(s, i) : x \in DOMAIN s \/ x = Len(s) + 1
         /\ \A x \in DOMAIN s : Append(s, i)[x] = s[x] /\ s[x] \in Nat
  OBVIOUS

(* What the types say of one file's entries.                               *)
LEMMA Types ==
  ASSUME AllocTypeOK, NEW f \in File, NEW n \in Network
  PROVE  /\ phase[f] \in Phase
         /\ testFilePosition[f] \in Nat
         /\ SliceStart(f) \in Nat
         /\ walletIndexes[f][n] \in Nat
         /\ walletIndexes[f][n] <= WALLETS_PER_TEST_FILE
         /\ MnemonicIndex(f, n) \in Nat
         /\ given[f][n] \in Seq(Nat)
<1>1. /\ phase[f] \in Phase
      /\ testFilePosition[f] \in Nat
      /\ walletIndexes[f][n] \in 0 .. WALLETS_PER_TEST_FILE
      /\ given[f][n] \in Seq(Nat)
  BY DEF AllocTypeOK
<1>2. \A p, w \in Nat : p * w \in Nat
  OBVIOUS
<1>3. SliceStart(f) \in Nat
  BY <1>1, <1>2, CountAssumption DEF SliceStart
<1>. QED  BY <1>1, <1>3, CountAssumption DEF MnemonicIndex

(* The slice of an earlier file ends before that of a later one begins.     *)
LEMMA SliceOrder ==
  ASSUME NEW p \in Nat, NEW q \in Nat, NEW w \in Nat, p < q
  PROVE  p * w + w <= q * w
<1> DEFINE d == q - (p + 1)
<1>1. d \in Nat /\ q = p + 1 + d
  OBVIOUS
<1>2. q * w = p * w + w + d * w
  BY <1>1
<1>3. d * w >= 0
  BY <1>1
<1>. QED  BY <1>2, <1>3

(* findIndex finds the one place where the file's name stands.              *)
LEMMA PositionInListing ==
  ASSUME NEW f \in File
  PROVE  /\ PositionIn(DirListing, f) \in Nat
         /\ PositionIn(DirListing, f) + 1 \in DOMAIN DirListing
         /\ DirListing[PositionIn(DirListing, f) + 1] = f
<1> DEFINE First(i) == /\ DirListing[i] = f
                       /\ \A j \in DOMAIN DirListing : DirListing[j] = f => i <= j
<1>1. DOMAIN DirListing \subseteq Nat \ {0}
  BY DirListingAssumption
<1>2. PICK i \in DOMAIN DirListing : DirListing[i] = f
  BY DEF File
<1>3. First(i)
  BY <1>1, <1>2, DirListingAssumption
<1>4. /\ (CHOOSE j \in DOMAIN DirListing : First(j)) \in DOMAIN DirListing
      /\ First(CHOOSE j \in DOMAIN DirListing : First(j))
  <2> HIDE DEF First
  <2>. QED  BY <1>2, <1>3
<1> DEFINE c == CHOOSE j \in DOMAIN DirListing : First(j)
<1>5. c \in DOMAIN DirListing /\ DirListing[c] = f
  BY <1>4
<1>6. PositionIn(DirListing, f) = c - 1
  BY DEF PositionIn
<1>7. c \in Nat \ {0}
  BY <1>1, <1>5
<1> HIDE DEF c
<1>8. c - 1 \in Nat /\ (c - 1) + 1 = c
  BY <1>7
<1>. QED  BY <1>5, <1>6, <1>8

(* Two files never hold the same wallet.                                    *)
LEMMA SlicesDisjoint ==
  ASSUME IInv, NEW f \in File, NEW g \in File, f # g, NEW n \in Network,
         phase[f] \in {"ready", "linking"},
         NEW i \in Nat,
         SliceStart(f) <= i,
         i <= MnemonicIndex(f, n),
         walletIndexes[f][n] < WALLETS_PER_TEST_FILE
           \/ i < MnemonicIndex(f, n),
         NEW l \in DOMAIN given[g][n]
  PROVE  given[g][n][l] # i
<1>1. f \in SuiteFile /\ g \in SuiteFile
  BY RunInBandAssumption
<1>2. phase[g] \in {"ready", "linking"}
  BY Types DEF IInv, NothingBeforeInit, Phase
<1>3. testFilePosition[f] # testFilePosition[g]
  BY <1>1, <1>2 DEF IInv, PositionKnown
<1>4. /\ testFilePosition[f] < testFilePosition[g] =>
            SliceStart(f) + WALLETS_PER_TEST_FILE <= SliceStart(g)
      /\ testFilePosition[g] < testFilePosition[f] =>
            SliceStart(g) + WALLETS_PER_TEST_FILE <= SliceStart(f)
  <2>1. testFilePosition[f] \in Nat /\ testFilePosition[g] \in Nat
    BY Types DEF IInv
  <2>. QED  BY <2>1, CountAssumption, SliceOrder DEF SliceStart
<1>5. i < SliceStart(f) + WALLETS_PER_TEST_FILE
  BY Types, CountAssumption DEF IInv, MnemonicIndex
<1>6. given[g][n][l] \in Nat
  BY Types DEF IInv
<1>7. /\ SliceStart(g) <= given[g][n][l]
      /\ given[g][n][l] < SliceStart(g) + WALLETS_PER_TEST_FILE
  <2>1. SliceStart(g) <= given[g][n][l] /\ given[g][n][l] < MnemonicIndex(g, n)
    BY DEF IInv, InSlice
  <2>. QED  BY <1>6, <2>1, Types, CountAssumption DEF IInv, MnemonicIndex
<1>8. /\ testFilePosition[f] \in Nat /\ testFilePosition[g] \in Nat
      /\ SliceStart(f) \in Nat /\ SliceStart(g) \in Nat
  BY Types DEF IInv
<1>9. CASE testFilePosition[f] < testFilePosition[g]
  BY <1>4, <1>5, <1>6, <1>7, <1>8, <1>9, CountAssumption
<1>10. CASE testFilePosition[g] < testFilePosition[f]
  BY <1>4, <1>5, <1>6, <1>7, <1>8, <1>10, CountAssumption
<1>. QED  BY <1>3, <1>8, <1>9, <1>10

-------------------------------------------------------------------------------

LEMMA InitIInv == AllocInit => IInv
<1> SUFFICES ASSUME AllocInit PROVE IInv
  OBVIOUS
<1>1. \A f \in File :
        phase[f] = "created" /\ \A n \in Network : given[f][n] = <<>>
  BY DEF AllocInit
<1>2. AllocTypeOK
  BY CountAssumption DEF AllocInit, AllocTypeOK, Phase
<1>3. PositionKnown
  BY <1>1 DEF PositionKnown
<1>4. NothingBeforeInit /\ InSlice /\ DistinctInFile
  BY <1>1 DEF NothingBeforeInit, InSlice, DistinctInFile
<1>. QED  BY <1>2, <1>3, <1>4 DEF IInv

(* init() reads the listing and hands nothing out.                          *)
LEMMA InitStateIInv ==
  ASSUME IInv, NEW f \in File, InitState(f)
  PROVE  IInv'
<1> USE DEF IInv, AllocTypeOK
<1>1. \A n \in Network : given[f][n] = <<>>
  BY DEF InitState, NothingBeforeInit
<1>2. /\ testFilePosition' \in [File -> Nat]
      /\ phase' \in [File -> Phase]
      /\ \A g \in File \ {f} : /\ testFilePosition'[g] = testFilePosition[g]
                               /\ phase'[g] = phase[g]
      /\ f \in SuiteFile /\ phase'[f] = "ready" =>
           /\ testFilePosition'[f] + 1 \in DOMAIN DirListing
           /\ DirListing[testFilePosition'[f] + 1] = f
      /\ phase'[f] \in {"ready", "failed"}
  <2>1. CASE f \notin SuiteFile
    <3>1. /\ testFilePosition' = [testFilePosition EXCEPT ![f] = 0]
          /\ phase' = [phase EXCEPT ![f] = "ready"]
      BY <2>1 DEF InitState
    <3>. QED  BY <2>1, <3>1 DEF Phase
  <2>2. CASE f \in SuiteFile
    <3>1. PICK listing \in Listings :
             IF \E i \in DOMAIN listing : listing[i] = f
               THEN /\ testFilePosition' =
                         [testFilePosition EXCEPT ![f] = PositionIn(listing, f)]
                    /\ phase' = [phase EXCEPT ![f] = "ready"]
               ELSE /\ phase' = [phase EXCEPT ![f] = "failed"]
                    /\ UNCHANGED testFilePosition
      BY <2>2 DEF InitState
    <3>2. CASE \E i \in DOMAIN listing : listing[i] = f
      <4>1. listing = DirListing
        BY <3>2 DEF Listings
      <4>2. /\ testFilePosition' =
                 [testFilePosition EXCEPT ![f] = PositionIn(DirListing, f)]
            /\ phase' = [phase EXCEPT ![f] = "ready"]
        BY <3>1, <3>2, <4>1
      <4> HIDE DEF IInv
      <4>. QED  BY <4>2, PositionInListing DEF IInv, Phase
    <3>3. CASE ~ \E i \in DOMAIN listing : listing[i] = f
      BY <3>1, <3>3 DEF Phase
    <3>. QED  BY <3>2, <3>3
  <2>. QED  BY <2>1, <2>2
<1>3. UNCHANGED <<walletIndexes, given>>
  BY DEF InitState
<1>4. AllocTypeOK'
  BY <1>2, <1>3
<1>5. PositionKnown'
  BY <1>2 DEF PositionKnown
<1>6. NothingBeforeInit'
  BY <1>1, <1>2, <1>3 DEF NothingBeforeInit
<1>7. InSlice'
  <2>1. \A g \in File \ {f}, n \in Network :
          /\ SliceStart(g)' = SliceStart(g)
          /\ MnemonicIndex(g, n)' = MnemonicIndex(g, n)
    BY <1>2, <1>3 DEF SliceStart, MnemonicIndex
  <2> SUFFICES ASSUME NEW g \in File, NEW n \in Network,
                      NEW k \in DOMAIN given'[g][n]
               PROVE  /\ SliceStart(g)' <= given'[g][n][k]
                      /\ given'[g][n][k] < MnemonicIndex(g, n)'
    BY DEF InSlice
  <2>2. given' = given
    BY <1>3
  <2>3. g # f
    BY <1>1, <2>2
  <2>. QED  BY <2>1, <2>2, <2>3 DEF InSlice
<1>8. DistinctInFile'
  BY <1>3 DEF DistinctInFile
<1>. QED  BY <1>4, <1>5, <1>6, <1>7, <1>8

(* A call hands out the wallet at the offset, throws without changing       *)
(* anything, or throws and spends the offset; nothing else moves.           *)
LEMMA CallIInv ==
  ASSUME IInv, NEW f \in File, NEW n \in Network,
         phase[f] \in {"ready", "linking"},
         NextWalletSucceeds(f, n) \/ NextWalletThrows(f, n),
         UNCHANGED testFilePosition,
         phase' \in [File -> Phase],
         phase'[f] \in {"ready", "linking"},
         \A g \in File \ {f} : phase'[g] = phase[g]
  PROVE  IInv'
<1> DEFINE i == MnemonicIndex(f, n)
<1>1. /\ i \in Nat
      /\ \A g \in File, m \in Network : /\ SliceStart(g) \in Nat
                                        /\ walletIndexes[g][m] \in Nat
                                        /\ given[g][m] \in Seq(Nat)
  BY Types DEF IInv
<1>2. \A g \in File : SliceStart(g)' = SliceStart(g)
  BY DEF SliceStart
<1> DEFINE next == walletIndexes[f][n] + 1
<1>3. \/ walletIndexes' = walletIndexes
      \/ /\ walletIndexes' = [walletIndexes EXCEPT ![f][n] = next]
         /\ walletIndexes[f][n] < WALLETS_PER_TEST_FILE
  BY DEF NextWalletSucceeds, NextWalletThrows, UpdateIndex, OffsetLeft
<1>4. /\ walletIndexes' \in [File -> [Network -> 0 .. WALLETS_PER_TEST_FILE]]
      /\ \A g \in File, m \in Network :
           walletIndexes'[g][m] = walletIndexes[g][m]
             \/ (g = f /\ m = n /\ walletIndexes'[g][m] = next)
  <2>1. walletIndexes[f][n] < WALLETS_PER_TEST_FILE =>
          next \in 0 .. WALLETS_PER_TEST_FILE
    BY <1>1, CountAssumption
  <2>2. walletIndexes \in [File -> [Network -> 0 .. WALLETS_PER_TEST_FILE]]
    BY DEF IInv, AllocTypeOK
  <2> HIDE DEF next
  <2>3. CASE walletIndexes' = walletIndexes
    BY <2>2, <2>3
  <2>4. CASE /\ walletIndexes' = [walletIndexes EXCEPT ![f][n] = next]
             /\ walletIndexes[f][n] < WALLETS_PER_TEST_FILE
    <3> DEFINE Offset == 0 .. WALLETS_PER_TEST_FILE
    <3>1. next \in Offset /\ walletIndexes \in [File -> [Network -> Offset]]
      BY <2>1, <2>2, <2>4
    <3>2. walletIndexes' = [walletIndexes EXCEPT ![f][n] = next]
      BY <2>4
    <3> HIDE DEF Offset
    <3>3. /\ walletIndexes' \in [File -> [Network -> Offset]]
          /\ walletIndexes'[f][n] = next
          /\ \A x \in File, y \in Network :
               x # f \/ y # n => walletIndexes'[x][y] = walletIndexes[x][y]
      BY <3>1, <3>2, NestedUpdate
    <3>. QED  BY <3>3 DEF Offset
  <2>. QED  BY <1>3, <2>3, <2>4
<1>5. AllocTypeOK'
  <2>1. Append(given[f][n], i) \in Seq(Nat)
    BY <1>1
  <2>2. given \in [File -> [Network -> Seq(Nat)]]
    BY DEF IInv, AllocTypeOK
  <2>3. \/ given' = given
        \/ given' = [given EXCEPT ![f][n] = Append(given[f][n], i)]
    BY DEF NextWalletSucceeds, NextWalletThrows, HandOut
  <2>4. given' \in [File -> [Network -> Seq(Nat)]]
    <3> DEFINE longer == Append(given[f][n], i)
               Handed == Seq(Nat)
    <3>1. longer \in Handed /\ given \in [File -> [Network -> Handed]]
      BY <2>1, <2>2
    <3>2. given' = given \/ given' = [given EXCEPT ![f][n] = longer]
      BY <2>3
    <3> HIDE DEF longer, Handed
    <3>3. [given EXCEPT ![f][n] = longer] \in [File -> [Network -> Handed]]
      BY <3>1, NestedUpdate
    <3>4. given' \in [File -> [Network -> Handed]]
      BY <3>1, <3>2, <3>3
    <3>. QED  BY <3>4 DEF Handed
  <2>. QED  BY <1>4, <2>4 DEF IInv, AllocTypeOK
<1>6. PositionKnown'
  BY DEF IInv, PositionKnown
<1>7. \A g \in File, m \in Network :
        /\ MnemonicIndex(g, m) \in Nat /\ MnemonicIndex(g, m)' \in Nat
        /\ MnemonicIndex(g, m) <= MnemonicIndex(g, m)'
  <2>1. \A g \in File, m \in Network :
          /\ walletIndexes'[g][m] \in Nat
          /\ walletIndexes[g][m] <= walletIndexes'[g][m]
    BY <1>1, <1>4
  <2>. QED  BY <1>1, <1>2, <2>1 DEF MnemonicIndex
<1>8. CASE NextWalletThrows(f, n)
  <2>1. given' = given
    BY <1>8 DEF NextWalletThrows
  <2>2. NothingBeforeInit'
    BY <2>1 DEF IInv, NothingBeforeInit
  <2>3. InSlice'
    <3> SUFFICES ASSUME NEW g \in File, NEW m \in Network,
                        NEW k \in DOMAIN given[g][m]
                 PROVE  /\ SliceStart(g) <= given[g][m][k]
                        /\ given[g][m][k] < MnemonicIndex(g, m)'
      BY <1>2, <2>1 DEF InSlice
    <3>1. /\ MnemonicIndex(g, m) \in Nat /\ MnemonicIndex(g, m)' \in Nat
          /\ MnemonicIndex(g, m) <= MnemonicIndex(g, m)'
      BY <1>7
    <3>2. given[g][m][k] \in Nat
      BY <1>1
    <3>. QED  BY <3>1, <3>2 DEF IInv, InSlice
  <2>4. DistinctInFile'
    BY <2>1 DEF IInv, DistinctInFile
  <2>. QED  BY <1>5, <1>6, <2>2, <2>3, <2>4 DEF IInv
<1>9. CASE NextWalletSucceeds(f, n)
  <2>1. /\ given'[f][n] = Append(given[f][n], i)
        /\ \A g \in File, m \in Network :
             g # f \/ m # n => given'[g][m] = given[g][m]
    BY <1>9 DEF IInv, AllocTypeOK, NextWalletSucceeds, HandOut
  <2>2. NothingBeforeInit'
    BY <2>1 DEF IInv, NothingBeforeInit
  <2>3. MnemonicIndex(f, n)' = i + 1
    <3>1. walletIndexes'[f][n] = walletIndexes[f][n] + 1
      BY <1>9 DEF IInv, AllocTypeOK, NextWalletSucceeds, UpdateIndex
    <3>. QED  BY <1>1, <1>2, <3>1 DEF MnemonicIndex
  <2>4. SliceStart(f) <= i
    BY <1>1 DEF MnemonicIndex
  <2>5. InSlice'
    <3> SUFFICES ASSUME NEW g \in File, NEW m \in Network,
                        NEW k \in DOMAIN given'[g][m]
                 PROVE  /\ SliceStart(g) <= given'[g][m][k]
                        /\ given'[g][m][k] < MnemonicIndex(g, m)'
      BY <1>2 DEF InSlice
    <3>1. /\ MnemonicIndex(g, m) \in Nat /\ MnemonicIndex(g, m)' \in Nat
          /\ MnemonicIndex(g, m) <= MnemonicIndex(g, m)'
      BY <1>7
    <3>2. CASE g = f /\ m = n /\ k = Len(given[f][n]) + 1
      <4>1. given[f][n] \in Seq(Nat) /\ SliceStart(f) \in Nat
        BY <1>1
      <4>2. given'[g][m][k] = i
        BY <1>1, <2>1, <3>2, <4>1
      <4>. QED  BY <1>1, <2>3, <2>4, <3>2, <4>2
    <3>3. CASE ~ (g = f /\ m = n /\ k = Len(given[f][n]) + 1)
      <4>1. k \in DOMAIN given[g][m] /\ given'[g][m][k] = given[g][m][k]
        <5> DEFINE s == given[f][n]
        <5>1. s \in Seq(Nat) /\ given'[f][n] = Append(s, i)
          BY <1>1, <2>1
        <5>2. CASE g = f /\ m = n
          <6>1. /\ s = given[g][m] /\ Append(s, i) = given'[g][m]
                /\ k \in DOMAIN Append(s, i) /\ k # Len(s) + 1
                /\ i \in Nat /\ s \in Seq(Nat)
            BY <1>1, <3>3, <5>1, <5>2
          <6> HIDE DEF i, s
          <6>2. k \in DOMAIN s /\ Append(s, i)[k] = s[k]
            BY <6>1, AppendEntries
          <6>. QED  BY <6>1, <6>2
        <5>3. CASE g # f \/ m # n
          BY <2>1, <5>3
        <5>. QED  BY <5>2, <5>3
      <4>2. given[g][m][k] \in Nat
        BY <1>1, <4>1
      <4>. QED  BY <3>1, <4>1, <4>2 DEF IInv, InSlice
    <3>. QED  BY <3>2, <3>3
  <2>6. DistinctInFile'
    <3> SUFFICES ASSUME NEW g \in File, NEW m \in Network,
                        NEW k \in DOMAIN given'[g][m],
                        NEW l \in DOMAIN given'[g][m],
                        given'[g][m][k] = given'[g][m][l]
                 PROVE  k = l
      BY DEF DistinctInFile
    <3>1. CASE ~ (g = f /\ m = n)
      BY <2>1, <3>1 DEF IInv, DistinctInFile
    <3>2. CASE g = f /\ m = n
      <4> DEFINE s == given[f][n]
      <4>1. s \in Seq(Nat) /\ given'[f][n] = Append(s, i)
        BY <1>1, <2>1
      <4>2. \A x \in DOMAIN s : s[x] # i
        <5>1. \A x \in DOMAIN s : s[x] \in Nat /\ s[x] < i
          BY <4>1 DEF IInv, InSlice
        <5>. QED  BY <1>1, <5>1
      <4>3. \A x, y \in DOMAIN s : s[x] = s[y] => x = y
        BY DEF IInv, DistinctInFile
      <4> HIDE DEF s, i
      <4>4. /\ Append(s, i)[Len(s) + 1] = i
            /\ \A x \in DOMAIN Append(s, i) :
                 x \in DOMAIN s \/ x = Len(s) + 1
            /\ \A x \in DOMAIN s : Append(s, i)[x] = s[x]
        BY <1>1, <4>1, AppendEntries
      <4>. QED  BY <3>2, <4>1, <4>2, <4>3, <4>4
    <3>. QED  BY <3>1, <3>2
  <2>. QED  BY <1>5, <1>6, <2>2, <2>5, <2>6 DEF IInv
<1>. QED  BY <1>8, <1>9

LEMMA NextIInv ==
  ASSUME IInv, [AllocNext]_allocVars
  PROVE  IInv'
<1>1. CASE UNCHANGED allocVars
  BY <1>1 DEF IInv, allocVars, AllocTypeOK, PositionKnown, NothingBeforeInit,
              InSlice, DistinctInFile, MnemonicIndex, SliceStart
<1>2. ASSUME NEW f \in File, AllocStep(f)
      PROVE  IInv'
  <2>1. CASE InitState(f)
    BY <2>1, InitStateIInv
  <2>2. ASSUME NEW n \in Network, NextWallet(f, n)
        PROVE  IInv'
    <3>1. /\ phase[f] = "ready" /\ phase' = phase
          /\ NextWalletSucceeds(f, n) \/ NextWalletThrows(f, n)
          /\ UNCHANGED testFilePosition
      BY <2>2 DEF NextWallet
    <3>. QED  BY <3>1, CallIInv DEF IInv, AllocTypeOK
  <2>3. CASE RelayerLink(f)
    <3>1. /\ phase[f] = "ready"
          /\ phase' = [phase EXCEPT ![f] = "linking"] \/ phase' = phase
          /\ NextWalletSucceeds(f, "neutron") \/ NextWalletThrows(f, "neutron")
          /\ UNCHANGED testFilePosition
      BY <2>3 DEF RelayerLink
    <3>2. /\ phase' \in [File -> Phase]
          /\ phase'[f] \in {"ready", "linking"}
          /\ \A g \in File \ {f} : phase'[g] = phase[g]
      BY <3>1 DEF IInv, AllocTypeOK, Phase
    <3>. QED  BY <3>1, <3>2, CallIInv, NetworkAssumption
  <2>4. CASE RelayerLinkGaia(f)
    <3>1. /\ phase[f] = "linking"
          /\ phase' = [phase EXCEPT ![f] = "ready"]
          /\ NextWalletSucceeds(f, "cosmos") \/ NextWalletThrows(f, "cosmos")
          /\ UNCHANGED testFilePosition
      BY <2>4 DEF RelayerLinkGaia
    <3>2. /\ phase' \in [File -> Phase]
          /\ phase'[f] \in {"ready", "linking"}
          /\ \A g \in File \ {f} : phase'[g] = phase[g]
      BY <3>1 DEF IInv, AllocTypeOK, Phase
    <3>. QED  BY <3>1, <3>2, CallIInv, NetworkAssumption
  <2>. QED  BY <1>2, <2>1, <2>2, <2>3, <2>4 DEF AllocStep
<1>. QED  BY <1>1, <1>2 DEF AllocNext

(* No wallet is in two places at once.                                      *)
LEMMA UniqueOfIInv ==
  ASSUME IInv
  PROVE  WalletsUnique
<1> SUFFICES ASSUME NEW f \in File, NEW g \in File, NEW n \in Network,
                    NEW k \in DOMAIN given[f][n], NEW l \in DOMAIN given[g][n],
                    given[f][n][k] = given[g][n][l]
             PROVE  f = g /\ k = l
  BY DEF WalletsUnique
<1>1. phase[f] \in {"ready", "linking"}
  BY Types DEF IInv, NothingBeforeInit, Phase
<1>2. given[f][n][k] \in Nat /\ MnemonicIndex(f, n) \in Nat
  BY Types DEF IInv
<1>3. /\ SliceStart(f) <= given[f][n][k]
      /\ given[f][n][k] < MnemonicIndex(f, n)
  BY DEF IInv, InSlice
<1>4. f = g
  BY <1>1, <1>2, <1>3, SlicesDisjoint
<1>. QED  BY <1>4 DEF IInv, DistinctInFile

(* A call takes a prefunded wallet that nobody has; every other step leaves *)
(* the pool alone.                                                          *)
LEMMA StepTakes ==
  ASSUME IInv, [AllocNext]_allocVars
  PROVE  [Pool!Next]_given
<1>1. ASSUME NEW f \in File, NEW n \in Network, phase[f] \in {"ready", "linking"},
             NextWalletSucceeds(f, n) \/ NextWalletThrows(f, n)
      PROVE  [Pool!Next]_given
  <2>1. CASE NextWalletThrows(f, n)
    BY <2>1 DEF NextWalletThrows
  <2>2. CASE NextWalletSucceeds(f, n)
    <3> DEFINE i == MnemonicIndex(f, n)
    <3>1. /\ i \in Nat /\ i < PREFUNDED_WALLETS_COUNT
          /\ SliceStart(f) <= i
          /\ walletIndexes[f][n] < WALLETS_PER_TEST_FILE
      <4>1. SliceStart(f) <= SliceStart(f) + walletIndexes[f][n]
        BY Types DEF IInv
      <4>. QED  BY <2>2, <4>1, Types
                DEF IInv, NextWalletSucceeds, MnemonicFound, OffsetLeft,
                    MnemonicIndex
    <3>2. i \in 0 .. PREFUNDED_WALLETS_COUNT - 1
      BY <3>1, CountAssumption
    <3>3. ~ Pool!Taken(n, i)
      <4> SUFFICES ASSUME NEW g \in File, NEW l \in DOMAIN given[g][n]
                   PROVE  given[g][n][l] # i
        BY DEF Pool!Taken
      <4>1. CASE g = f
        <5>1. given[f][n][l] \in Nat
          BY <4>1, Types DEF IInv
        <5>. QED  BY <3>1, <4>1, <5>1 DEF IInv, InSlice
      <4>2. CASE g # f
        <5>1. i <= MnemonicIndex(f, n)
          BY <3>1
        <5>. QED  BY <1>1, <3>1, <4>2, <5>1, SlicesDisjoint
      <4>. QED  BY <4>1, <4>2
    <3>4. given' = [given EXCEPT ![f][n] = Append(@, i)]
      BY <2>2 DEF NextWalletSucceeds, HandOut
    <3>. QED  BY <3>2, <3>3, <3>4 DEF Pool!Next, Pool!Take
  <2>. QED  BY <1>1, <2>1, <2>2
<1>2. CASE UNCHANGED allocVars
  BY <1>2 DEF allocVars
<1>3. ASSUME NEW f \in File, AllocStep(f)
      PROVE  [Pool!Next]_given
  <2>1. CASE InitState(f)
    BY <2>1 DEF InitState
  <2>2. ASSUME NEW n \in Network, NextWallet(f, n)
        PROVE  [Pool!Next]_given
    BY <1>1, <2>2 DEF NextWallet
  <2>3. CASE RelayerLink(f)
    BY <1>1, <2>3, NetworkAssumption DEF RelayerLink
  <2>4. CASE RelayerLinkGaia(f)
    BY <1>1, <2>4, NetworkAssumption DEF RelayerLinkGaia
  <2>. QED  BY <1>3, <2>1, <2>2, <2>3, <2>4 DEF AllocStep
<1>. QED  BY <1>2, <1>3 DEF AllocNext

(* The strengthening holds throughout.                                      *)
THEOREM Inductive == AllocSpec => []IInv
<1>1. IInv /\ [AllocNext]_allocVars => IInv'
  BY NextIInv
<1>. QED  BY InitIInv, <1>1, PTL DEF AllocSpec

(* The variables keep their types: no offset ever leaves its slice.         *)
THEOREM TypeCorrect == AllocSpec => []AllocTypeOK
<1>1. IInv => AllocTypeOK
  BY DEF IInv
<1>. QED  BY <1>1, Inductive, PTL

(* No wallet is handed out twice, whatever the files, limits and calls:     *)
(* parallel test files never use one account at the same time.              *)
THEOREM Uniqueness == AllocSpec => []WalletsUnique
<1>1. IInv => WalletsUnique
  BY UniqueOfIInv
<1>. QED  BY <1>1, Inductive, PTL

(* The allocator implements the common pool: each wallet it hands out is    *)
(* prefunded and nobody has it yet; every other step leaves the pool alone. *)
THEOREM Refinement == AllocSpec => PoolSpec
<1>1. AllocInit => Pool!Init
  BY DEF AllocInit, Pool!Init
<1>2. IInv /\ [AllocNext]_allocVars => [Pool!Next]_given
  BY StepTakes
<1>. QED  BY <1>1, <1>2, Inductive, PTL DEF AllocSpec, PoolSpec, Pool!Spec
-------------------------------------------------------------------------------
(* The files that use it (ParallelTests)                                    *)


(* The wallets that were handed out are prefunded, and no more than the     *)
(* offset counts.                                                           *)
GivenCounted ==
  \A f \in File, n \in Network :
    /\ Len(given[f][n]) <= walletIndexes[f][n]
    /\ \A k \in DOMAIN given[f][n] : given[f][n][k] \in Account

(* A client without a wallet has done nothing.                              *)
UnusedIdle ==
  \A f \in File, n \in Network, k \in Slot :
    k \notin DOMAIN given[f][n] => client[f][n][k] = "idle"

(* Nothing is pending of an account that nobody was given.                  *)
UntakenQuiet ==
  \A n \in Network, i \in Account : ~ Pool!Taken(n, i) => mempool[n][i] = 0

(* Between its calls, too, a file that waits leaves nothing pending.        *)
IdleQuiet ==
  \A f \in File \ (SyncFile \union timedOut), n \in Network :
    \A k \in DOMAIN given[f][n] :
      client[f][n][k] = "idle" => mempool[n][given[f][n][k]] = 0

PInv ==
  /\ IInv
  /\ TypeOK
  /\ GivenCounted
  /\ UnusedIdle
  /\ UntakenQuiet
  /\ IdleQuiet
  /\ InFlightAlone
  /\ MismatchIsOwnFault

-------------------------------------------------------------------------------
(* Updating one entry of a function of functions of functions.              *)
LEMMA DeepUpdate ==
  ASSUME NEW A, NEW B, NEW C, NEW D, NEW m \in [A -> [B -> [C -> D]]],
         NEW a \in A, NEW b \in B, NEW c \in C, NEW d \in D
  PROVE  /\ [m EXCEPT ![a][b][c] = d] \in [A -> [B -> [C -> D]]]
         /\ [m EXCEPT ![a][b][c] = d][a][b][c] = d
         /\ \A x \in A, y \in B, z \in C :
              x # a \/ y # b \/ z # c => [m EXCEPT ![a][b][c] = d][x][y][z] = m[x][y][z]
<1> DEFINE g == [m EXCEPT ![a][b][c] = d]
<1>1. m[a] \in [B -> [C -> D]] /\ m[a][b] \in [C -> D]
  OBVIOUS
<1>2. g = [m EXCEPT ![a] = [m[a] EXCEPT ![b] = [m[a][b] EXCEPT ![c] = d]]]
  OBVIOUS
<1>3. [m[a][b] EXCEPT ![c] = d] \in [C -> D]
  BY <1>1
<1>4. [m[a] EXCEPT ![b] = [m[a][b] EXCEPT ![c] = d]] \in [B -> [C -> D]]
  BY <1>1, <1>3
<1>. QED  BY <1>1, <1>2, <1>3, <1>4

(* What the types say of a client and of its account.                       *)
LEMMA ClientTypes ==
  ASSUME PInv, NEW f \in File, NEW n \in Network, NEW k \in DOMAIN given[f][n]
  PROVE  /\ k \in Slot
         /\ given[f][n][k] \in Account
         /\ client[f][n][k] \in PC
         /\ seq[f][n][k] \in Nat
         /\ sequence[n][given[f][n][k]] \in Nat
         /\ mempool[n][given[f][n][k]] \in Nat
<1>1. /\ given[f][n] \in Seq(Nat)
      /\ walletIndexes[f][n] \in Nat
      /\ walletIndexes[f][n] <= WALLETS_PER_TEST_FILE
  BY Types DEF PInv, IInv
<1>2. /\ Len(given[f][n]) <= walletIndexes[f][n]
      /\ given[f][n][k] \in Account
  BY DEF PInv, GivenCounted
<1>3. k \in Slot
  BY <1>1, <1>2, CountAssumption DEF Slot
<1>. QED  BY <1>2, <1>3 DEF PInv, TypeOK

(* Another client has another account.                                      *)
LEMMA OtherAccount ==
  ASSUME PInv, NEW f \in File, NEW g \in File, NEW n \in Network,
         NEW k \in DOMAIN given[f][n], NEW l \in DOMAIN given[g][n],
         g # f \/ l # k
  PROVE  given[g][n][l] # given[f][n][k]
BY UniqueOfIInv DEF PInv, WalletsUnique

LEMMA InitPInv == Init => PInv
<1> SUFFICES ASSUME Init
             PROVE  PInv
  OBVIOUS
<1>1. IInv
  BY InitIInv DEF Init
<1>2. \A f \in File, n \in Network : given[f][n] = <<>> /\ walletIndexes[f][n] = 0
  BY DEF Init, AllocInit
<1>3. TypeOK
  BY <1>1 DEF Init, TypeOK, IInv, PC
<1>4. GivenCounted
  BY <1>2 DEF GivenCounted
<1>5. UnusedIdle
  BY DEF Init, UnusedIdle
<1>6. UntakenQuiet
  BY DEF Init, UntakenQuiet
<1>7. IdleQuiet /\ InFlightAlone
  BY <1>2 DEF IdleQuiet, InFlightAlone
<1>8. MismatchIsOwnFault
  BY DEF Init, MismatchIsOwnFault
<1>. QED  BY <1>1, <1>3, <1>4, <1>5, <1>6, <1>7, <1>8 DEF PInv

-------------------------------------------------------------------------------
(* A test takes another wallet.                                             *)

(* An allocator's step keeps what was given and adds what nobody had.       *)
LEMMA GivenGrows ==
  ASSUME PInv, [AllocNext]_allocVars, NEW g \in File, NEW m \in Network
  PROVE  /\ \A k \in DOMAIN given[g][m] :
              k \in DOMAIN given'[g][m] /\ given'[g][m][k] = given[g][m][k]
         /\ \A k \in DOMAIN given'[g][m] :
              k \in DOMAIN given[g][m] \/ ~ Pool!Taken(m, given'[g][m][k])
<1>1. given \in [File -> [Network -> Seq(Nat)]]
  BY DEF PInv, IInv, AllocTypeOK
<1>2. [Pool!Next]_given
  BY StepTakes DEF PInv
<1>3. CASE given' = given
  BY <1>3
<1>4. ASSUME NEW f \in File, NEW n \in Network, Pool!Take(f, n)
      PROVE  /\ \A k \in DOMAIN given[g][m] :
                  k \in DOMAIN given'[g][m] /\ given'[g][m][k] = given[g][m][k]
             /\ \A k \in DOMAIN given'[g][m] :
                  k \in DOMAIN given[g][m] \/ ~ Pool!Taken(m, given'[g][m][k])
  <2>1. PICK i \in 0 .. PREFUNDED_WALLETS_COUNT - 1 :
          /\ ~ Pool!Taken(n, i)
          /\ given' = [given EXCEPT ![f][n] = Append(given[f][n], i)]
    BY <1>4 DEF Pool!Take
  <2>2. i \in Nat
    BY <2>1, CountAssumption
  <2>3. CASE g = f /\ m = n
    <3> DEFINE s == given[f][n]
    <3>1. s \in Seq(Nat) /\ given'[g][m] = Append(s, i) /\ given[g][m] = s
      BY <1>1, <2>1, <2>3
    <3> HIDE DEF s
    <3>2. /\ Append(s, i)[Len(s) + 1] = i
          /\ \A x \in DOMAIN Append(s, i) : x \in DOMAIN s \/ x = Len(s) + 1
          /\ \A x \in DOMAIN s : Append(s, i)[x] = s[x]
      BY <2>2, <3>1, AppendEntries
    <3>3. DOMAIN s \subseteq DOMAIN Append(s, i)
      BY <2>2, <3>1
    <3>. QED  BY <2>1, <2>3, <3>1, <3>2, <3>3
  <2>4. CASE g # f \/ m # n
    BY <1>1, <2>1, <2>4
  <2>. QED  BY <2>3, <2>4
<1>. QED  BY <1>2, <1>3, <1>4 DEF Pool!Next

(* What is handed out is prefunded and counted by the offset.               *)
LEMMA CallCounted ==
  ASSUME PInv, NEW f \in File, NEW n \in Network,
         NextWalletSucceeds(f, n) \/ NextWalletThrows(f, n)
  PROVE  GivenCounted'
<1>1. /\ given \in [File -> [Network -> Seq(Nat)]]
      /\ \A g \in File, m \in Network : walletIndexes[g][m] \in Nat
      /\ walletIndexes \in [File -> [Network -> 0 .. WALLETS_PER_TEST_FILE]]
      /\ MnemonicIndex(f, n) \in Nat
  BY Types DEF PInv, IInv, AllocTypeOK
<1> DEFINE more == walletIndexes[f][n] + 1
<1>2. ASSUME walletIndexes' = [walletIndexes EXCEPT ![f][n] = more]
      PROVE  /\ walletIndexes'[f][n] = more
             /\ \A g \in File, m \in Network :
                  g # f \/ m # n => walletIndexes'[g][m] = walletIndexes[g][m]
  BY <1>1, <1>2
<1> SUFFICES ASSUME NEW g \in File, NEW m \in Network
             PROVE  /\ Len(given'[g][m]) <= walletIndexes'[g][m]
                    /\ \A k \in DOMAIN given'[g][m] : given'[g][m][k] \in Account
  BY DEF GivenCounted, Account
<1>3. /\ Len(given[g][m]) <= walletIndexes[g][m]
      /\ \A k \in DOMAIN given[g][m] : given[g][m][k] \in Account
  BY DEF PInv, GivenCounted
<1>4. CASE NextWalletThrows(f, n)
  <2>1. given' = given
    BY <1>4 DEF NextWalletThrows
  <2>2. \/ walletIndexes' = walletIndexes
        \/ walletIndexes' = [walletIndexes EXCEPT ![f][n] = more]
    BY <1>4 DEF NextWalletThrows, UpdateIndex
  <2>3. walletIndexes[g][m] <= walletIndexes'[g][m] /\ walletIndexes'[g][m] \in Nat
    <3>1. /\ walletIndexes[f][n] \in Nat /\ walletIndexes[g][m] \in Nat
          /\ more \in Nat /\ walletIndexes[f][n] <= more
      BY <1>1
    <3>2. walletIndexes'[g][m] \in {walletIndexes[g][m]}
            \/ (g = f /\ m = n /\ walletIndexes'[g][m] = more)
      BY <1>2, <2>2
    <3> HIDE DEF more
    <3>. QED  BY <3>1, <3>2
  <2>4. Len(given[g][m]) \in Nat
    BY <1>1
  <2>. QED  BY <1>1, <1>3, <2>1, <2>3, <2>4
<1>5. CASE NextWalletSucceeds(f, n)
  <2> DEFINE i == MnemonicIndex(f, n)
             s == given[f][n]
  <2>1. /\ given' = [given EXCEPT ![f][n] = Append(s, i)]
        /\ walletIndexes' = [walletIndexes EXCEPT ![f][n] = more]
    BY <1>5 DEF NextWalletSucceeds, HandOut, UpdateIndex
  <2>2. i \in Account
    BY <1>1, <1>5, CountAssumption DEF NextWalletSucceeds, MnemonicFound, Account
  <2>3. CASE g = f /\ m = n
    <3>1. /\ given'[g][m] = Append(s, i) /\ given[g][m] = s /\ s \in Seq(Nat)
          /\ walletIndexes'[g][m] = more
      BY <1>1, <1>2, <2>1, <2>3
    <3>2. Len(s) <= walletIndexes[f][n] /\ \A k \in DOMAIN s : s[k] \in Account
      BY <1>3, <2>3
    <3> HIDE DEF s, i
    <3>3. Len(Append(s, i)) = Len(s) + 1 /\ Len(s) \in Nat
      BY <1>1, <3>1
    <3>4. \A k \in DOMAIN Append(s, i) : Append(s, i)[k] \in Account
      BY <1>1, <2>2, <3>1, <3>2, AppendEntries DEF i
    <3>. QED  BY <1>1, <3>1, <3>2, <3>3, <3>4
  <2>4. CASE g # f \/ m # n
    <3>1. given'[g][m] = given[g][m]
      BY <1>1, <2>1, <2>4
    <3>. QED  BY <1>2, <1>3, <2>1, <2>4, <3>1
  <2>. QED  BY <2>3, <2>4
<1>. QED  BY <1>4, <1>5

LEMMA AllocatePInv ==
  ASSUME PInv, Allocate
  PROVE  PInv'
<1>1. IInv' /\ [AllocNext]_allocVars
  BY NextIInv DEF PInv, Allocate
<1>2. UNCHANGED <<sequence, mempool, client, seq, timedOut, mismatch>>
  BY DEF Allocate, chainVars, clientVars
<1>3. TypeOK'
  BY <1>1, <1>2 DEF PInv, IInv, TypeOK, Account, Slot
<1>4. GivenCounted'
  <2>1. ASSUME NEW f \in File, InitState(f)
        PROVE  GivenCounted'
    BY <2>1 DEF InitState, PInv, GivenCounted, Account
  <2>2. ASSUME NEW f \in File, NEW n \in Network, NextWallet(f, n)
        PROVE  GivenCounted'
    BY <2>2, CallCounted DEF NextWallet
  <2>3. ASSUME NEW f \in File, RelayerLink(f) \/ RelayerLinkGaia(f)
        PROVE  GivenCounted'
    BY <2>3, CallCounted, NetworkAssumption DEF RelayerLink, RelayerLinkGaia
  <2>. QED  BY <2>1, <2>2, <2>3 DEF Allocate, AllocNext, AllocStep
<1>5. UnusedIdle'
  BY <1>1, <1>2, GivenGrows DEF PInv, UnusedIdle, Slot
<1>6. UntakenQuiet'
  <2> SUFFICES ASSUME NEW n \in Network, NEW i \in Account, ~ Pool!Taken(n, i)'
               PROVE  mempool[n][i] = 0
    BY <1>2 DEF UntakenQuiet, Account
  <2>1. ~ Pool!Taken(n, i)
    BY <1>1, GivenGrows DEF Pool!Taken
  <2>. QED  BY <2>1 DEF PInv, UntakenQuiet
<1>7. ASSUME NEW f \in File, NEW n \in Network, NEW k \in DOMAIN given'[f][n],
             k \notin DOMAIN given[f][n]
      PROVE  client[f][n][k] = "idle" /\ mempool[n][given'[f][n][k]] = 0
  <2>1. given'[f][n] \in Seq(Nat) /\ walletIndexes'[f][n] \in 0 .. WALLETS_PER_TEST_FILE
    BY <1>1 DEF IInv, AllocTypeOK
  <2>2. Len(given'[f][n]) <= walletIndexes'[f][n] /\ given'[f][n][k] \in Account
    BY <1>4 DEF GivenCounted, Account
  <2>3. k \in Slot
    BY <2>1, <2>2, CountAssumption DEF Slot
  <2>4. ~ Pool!Taken(n, given'[f][n][k])
    BY <1>1, <1>7, GivenGrows
  <2>. QED  BY <1>7, <2>2, <2>3, <2>4 DEF PInv, UnusedIdle, UntakenQuiet
<1>8. IdleQuiet'
  <2> SUFFICES ASSUME NEW f \in File \ (SyncFile \union timedOut), NEW n \in Network,
                      NEW k \in DOMAIN given'[f][n], client[f][n][k] = "idle"
               PROVE  mempool[n][given'[f][n][k]] = 0
    BY <1>2 DEF IdleQuiet
  <2>1. CASE k \in DOMAIN given[f][n]
    BY <1>1, <2>1, GivenGrows DEF PInv, IdleQuiet
  <2>. QED  BY <1>7, <2>1
<1>9. InFlightAlone'
  <2> SUFFICES ASSUME NEW f \in File \ (SyncFile \union timedOut), NEW n \in Network,
                      NEW k \in DOMAIN given'[f][n]
               PROVE  LET i == given'[f][n][k] IN
                        /\ client[f][n][k] = "signed" =>
                             mempool[n][i] = 0 /\ seq[f][n][k] = sequence[n][i]
                        /\ client[f][n][k] = "waiting" =>
                             sequence[n][i] + mempool[n][i] = seq[f][n][k] + 1
    BY <1>2 DEF InFlightAlone
  <2>1. CASE k \in DOMAIN given[f][n]
    BY <1>1, <2>1, GivenGrows DEF PInv, InFlightAlone
  <2>. QED  BY <1>7, <2>1
<1>10. MismatchIsOwnFault'
  BY <1>2 DEF PInv, MismatchIsOwnFault
<1>. QED  BY <1>1, <1>3, <1>4, <1>5, <1>6, <1>8, <1>9, <1>10 DEF PInv

-------------------------------------------------------------------------------
(* A client makes a step.                                                   *)

(* The client of a wallet goes to `c` with the number `s`, with `p` of its   *)
(* account's transactions pending.                                          *)
ClientNext(f, n, k, c, s, p) ==
  /\ client' = [client EXCEPT ![f][n][k] = c]
  /\ seq' = [seq EXCEPT ![f][n][k] = s]
  /\ mempool' = [mempool EXCEPT ![n][given[f][n][k]] = p]
  /\ UNCHANGED <<allocVars, sequence>>

(* What IdleQuiet and InFlightAlone ask of this client.                     *)
ClientAlone(f, n, k, c, s, p) ==
  f \notin SyncFile \union timedOut' =>
    /\ c = "idle" => p = 0
    /\ c = "signed" => p = 0 /\ s = sequence[n][given[f][n][k]]
    /\ c = "waiting" => sequence[n][given[f][n][k]] + p = s + 1

(* Who timed out or met a mismatch: the former are not forgotten.           *)
FaultsKept ==
  /\ timedOut \subseteq timedOut' /\ timedOut' \subseteq File
  /\ mismatch' \subseteq File /\ MismatchIsOwnFault'

(* A step of one client is judged by what it leaves of this client: no      *)
(* other client has its account.                                            *)
LEMMA ClientPInv ==
  ASSUME PInv, NEW f \in File, NEW n \in Network, NEW k \in DOMAIN given[f][n],
         NEW c \in PC, NEW s \in Nat, NEW p \in Nat,
         ClientNext(f, n, k, c, s, p), ClientAlone(f, n, k, c, s, p), FaultsKept
  PROVE  PInv'
<1> USE DEF ClientNext, ClientAlone, FaultsKept
<1> DEFINE i == given[f][n][k]
<1>1. /\ k \in Slot /\ i \in Account
      /\ client \in [File -> [Network -> [Slot -> PC]]]
      /\ seq \in [File -> [Network -> [Slot -> Nat]]]
      /\ mempool \in [Network -> [Account -> Nat]]
  BY ClientTypes DEF PInv, TypeOK
<1>2. /\ UNCHANGED <<phase, testFilePosition, walletIndexes, given>>
      /\ sequence' = sequence
  BY DEF allocVars
<1>3. IInv'
  BY NextIInv DEF PInv
<1>4. /\ client' \in [File -> [Network -> [Slot -> PC]]]
      /\ client'[f][n][k] = c
      /\ \A g \in File, m \in Network, l \in Slot :
           g # f \/ m # n \/ l # k => client'[g][m][l] = client[g][m][l]
  BY <1>1, DeepUpdate
<1>5. /\ seq' \in [File -> [Network -> [Slot -> Nat]]]
      /\ seq'[f][n][k] = s
      /\ \A g \in File, m \in Network, l \in Slot :
           g # f \/ m # n \/ l # k => seq'[g][m][l] = seq[g][m][l]
  BY <1>1, DeepUpdate
<1>6. /\ mempool' \in [Network -> [Account -> Nat]]
      /\ mempool'[n][i] = p
      /\ \A m \in Network, j \in Account :
           m # n \/ j # i => mempool'[m][j] = mempool[m][j]
  BY <1>1, NestedUpdate
<1>7. TypeOK'
  BY <1>2, <1>3, <1>4, <1>5, <1>6 DEF PInv, IInv, TypeOK, Account, Slot
<1>8. GivenCounted'
  BY <1>2 DEF PInv, GivenCounted, Account
<1>9. UnusedIdle'
  <2> SUFFICES ASSUME NEW g \in File, NEW m \in Network, NEW l \in Slot,
                      l \notin DOMAIN given[g][m]
               PROVE  client'[g][m][l] = "idle"
    BY <1>2 DEF UnusedIdle, Slot
  <2>1. g # f \/ m # n \/ l # k
    OBVIOUS
  <2>. QED  BY <1>4, <2>1 DEF PInv, UnusedIdle
<1>10. UntakenQuiet'
  <2> SUFFICES ASSUME NEW m \in Network, NEW j \in Account, ~ Pool!Taken(m, j)
               PROVE  mempool'[m][j] = 0
    BY <1>2 DEF UntakenQuiet, Account, Pool!Taken
  <2>1. m # n \/ j # i
    BY DEF Pool!Taken
  <2>. QED  BY <1>6, <2>1 DEF PInv, UntakenQuiet
<1>11. ASSUME NEW g \in File, NEW m \in Network, NEW l \in DOMAIN given[g][m],
              g # f \/ m # n \/ l # k
       PROVE  /\ client'[g][m][l] = client[g][m][l]
              /\ seq'[g][m][l] = seq[g][m][l]
              /\ mempool'[m][given[g][m][l]] = mempool[m][given[g][m][l]]
  <2>1. l \in Slot /\ given[g][m][l] \in Account
    BY ClientTypes
  <2>2. m # n \/ given[g][m][l] # i
    BY <1>11, OtherAccount
  <2>. QED  BY <1>4, <1>5, <1>6, <1>11, <2>1, <2>2
<1>12. IdleQuiet'
  <2> SUFFICES ASSUME NEW g \in File \ (SyncFile \union timedOut'), NEW m \in Network,
                      NEW l \in DOMAIN given[g][m], client'[g][m][l] = "idle"
               PROVE  mempool'[m][given[g][m][l]] = 0
    BY <1>2 DEF IdleQuiet
  <2>1. CASE g = f /\ m = n /\ l = k
    BY <1>4, <1>6, <2>1
  <2>2. CASE g # f \/ m # n \/ l # k
    BY <1>11, <2>2 DEF PInv, IdleQuiet
  <2>. QED  BY <2>1, <2>2
<1>13. InFlightAlone'
  <2> SUFFICES ASSUME NEW g \in File \ (SyncFile \union timedOut'), NEW m \in Network,
                      NEW l \in DOMAIN given[g][m]
               PROVE  LET j == given[g][m][l] IN
                        /\ client'[g][m][l] = "signed" =>
                             mempool'[m][j] = 0 /\ seq'[g][m][l] = sequence[m][j]
                        /\ client'[g][m][l] = "waiting" =>
                             sequence[m][j] + mempool'[m][j] = seq'[g][m][l] + 1
    BY <1>2 DEF InFlightAlone
  <2>1. CASE g = f /\ m = n /\ l = k
    BY <1>4, <1>5, <1>6, <2>1
  <2>2. CASE g # f \/ m # n \/ l # k
    BY <1>11, <2>2 DEF PInv, InFlightAlone
  <2>. QED  BY <2>1, <2>2
<1>. QED  BY <1>3, <1>7, <1>8, <1>9, <1>10, <1>12, <1>13 DEF PInv

LEMMA ClientStepPInv ==
  ASSUME PInv, NEW f \in File, NEW n \in Network, NEW k \in DOMAIN given[f][n],
         ClientStep(f, n, k)
  PROVE  PInv'
<1> DEFINE i == given[f][n][k]
<1>1. /\ k \in Slot /\ i \in Account
      /\ client[f][n][k] \in PC
      /\ seq[f][n][k] \in Nat
      /\ sequence[n][i] \in Nat
      /\ mempool[n][i] \in Nat
  BY ClientTypes
<1>2. /\ seq = [seq EXCEPT ![f][n][k] = seq[f][n][k]]
      /\ mempool = [mempool EXCEPT ![n][i] = mempool[n][i]]
      /\ {"idle", "signed", "waiting"} \subseteq PC
  BY <1>1 DEF PInv, TypeOK, PC
<1>3. /\ timedOut \subseteq File /\ mismatch \subseteq File
      /\ mismatch \subseteq SyncFile \union timedOut
  BY DEF PInv, TypeOK, MismatchIsOwnFault
<1>4. f \notin SyncFile \union timedOut =>
        /\ client[f][n][k] = "idle" => mempool[n][i] = 0
        /\ client[f][n][k] = "signed" => mempool[n][i] = 0 /\ seq[f][n][k] = sequence[n][i]
        /\ client[f][n][k] = "waiting" => sequence[n][i] + mempool[n][i] = seq[f][n][k] + 1
  BY DEF PInv, IdleQuiet, InFlightAlone
<1>5. CASE Sign(f, n, k)
  <2>1. ClientNext(f, n, k, "signed", sequence[n][i], mempool[n][i])
    BY <1>2, <1>5 DEF Sign, chainVars, ClientNext
  <2>2. /\ client[f][n][k] = "idle" /\ UNCHANGED <<allocVars, sequence>>
        /\ timedOut' = timedOut /\ mismatch' = mismatch
    BY <1>5 DEF Sign, chainVars
  <2>3. /\ "signed" \in PC /\ sequence[n][i] \in Nat /\ mempool[n][i] \in Nat
        /\ ClientAlone(f, n, k, "signed", sequence[n][i], mempool[n][i])
    BY <1>1, <1>2, <1>4, <2>1, <2>2 DEF ClientAlone
  <2>4. FaultsKept
    BY <1>3, <2>2 DEF MismatchIsOwnFault, FaultsKept
  <2>. QED  BY <2>1, <2>2, <2>3, <2>4, ClientPInv
<1>6. CASE SignAndBroadcast(f, n, k)
  <2>1. ClientNext(f, n, k, "waiting", seq[f][n][k], mempool[n][i] + 1)
    BY <1>2, <1>6 DEF SignAndBroadcast, Accept, ClientNext
  <2>2. /\ client[f][n][k] = "signed" /\ UNCHANGED <<allocVars, sequence>>
        /\ timedOut' = timedOut /\ mismatch' = mismatch
    BY <1>6 DEF SignAndBroadcast
  <2>3. f \notin SyncFile \union timedOut' =>
          sequence[n][i] + (mempool[n][i] + 1) = seq[f][n][k] + 1
    BY <1>1, <1>4, <2>2
  <2>4. /\ "waiting" \in PC /\ seq[f][n][k] \in Nat /\ mempool[n][i] + 1 \in Nat
        /\ ClientAlone(f, n, k, "waiting", seq[f][n][k], mempool[n][i] + 1)
    BY <1>1, <1>2, <1>4, <2>1, <2>2, <2>3 DEF ClientAlone
  <2>5. FaultsKept
    BY <1>3, <2>2 DEF MismatchIsOwnFault, FaultsKept
  <2>. QED  BY <2>1, <2>2, <2>4, <2>5, ClientPInv
<1>7. CASE SignAndBroadcastSync(f, n, k)
  <2>1. ClientNext(f, n, k, "idle", seq[f][n][k], mempool[n][i] + 1)
    BY <1>2, <1>7 DEF SignAndBroadcastSync, Accept, ClientNext
  <2>2. /\ f \in SyncFile /\ UNCHANGED <<allocVars, sequence>>
        /\ timedOut' = timedOut /\ mismatch' = mismatch
    BY <1>7 DEF SignAndBroadcastSync
  <2>3. /\ "idle" \in PC /\ seq[f][n][k] \in Nat /\ mempool[n][i] + 1 \in Nat
        /\ ClientAlone(f, n, k, "idle", seq[f][n][k], mempool[n][i] + 1)
    BY <1>1, <1>2, <1>4, <2>1, <2>2 DEF ClientAlone
  <2>4. FaultsKept
    BY <1>3, <2>2 DEF MismatchIsOwnFault, FaultsKept
  <2>. QED  BY <2>1, <2>2, <2>3, <2>4, ClientPInv
<1>8. CASE Refused(f, n, k)
  <2>1. ClientNext(f, n, k, "idle", seq[f][n][k], mempool[n][i])
    BY <1>2, <1>8 DEF Refused, chainVars, ClientNext
  <2>2. /\ client[f][n][k] = "signed" /\ ~ InOrder(n, i, seq[f][n][k])
        /\ UNCHANGED <<allocVars, sequence>>
        /\ timedOut' = timedOut /\ mismatch' = mismatch \union {f}
    BY <1>8 DEF Refused, chainVars
  <2>3. f \in SyncFile \union timedOut
    BY <1>1, <1>4, <2>2 DEF InOrder
  <2>4. /\ "idle" \in PC /\ seq[f][n][k] \in Nat /\ mempool[n][i] \in Nat
        /\ ClientAlone(f, n, k, "idle", seq[f][n][k], mempool[n][i])
    BY <1>1, <1>2, <2>2, <2>3 DEF ClientAlone
  <2>5. FaultsKept
    BY <1>3, <2>2, <2>3 DEF MismatchIsOwnFault, FaultsKept
  <2>. QED  BY <2>1, <2>2, <2>4, <2>5, ClientPInv
<1>9. CASE Observe(f, n, k)
  <2>1. ClientNext(f, n, k, "idle", seq[f][n][k], mempool[n][i])
    BY <1>2, <1>9 DEF Observe, chainVars, ClientNext
  <2>2. /\ client[f][n][k] = "waiting" /\ seq[f][n][k] < sequence[n][i]
        /\ UNCHANGED <<allocVars, sequence>>
        /\ timedOut' = timedOut /\ mismatch' = mismatch
    BY <1>9 DEF Observe, chainVars
  <2>3. f \notin SyncFile \union timedOut' => mempool[n][i] = 0
    BY <1>1, <1>4, <2>2
  <2>4. /\ "idle" \in PC /\ seq[f][n][k] \in Nat /\ mempool[n][i] \in Nat
        /\ ClientAlone(f, n, k, "idle", seq[f][n][k], mempool[n][i])
    BY <1>1, <1>2, <1>4, <2>1, <2>2, <2>3 DEF ClientAlone
  <2>5. FaultsKept
    BY <1>3, <2>2 DEF MismatchIsOwnFault, FaultsKept
  <2>. QED  BY <2>1, <2>2, <2>4, <2>5, ClientPInv
<1>10. CASE GiveUp(f, n, k)
  <2>1. ClientNext(f, n, k, "idle", seq[f][n][k], mempool[n][i])
    BY <1>2, <1>10 DEF GiveUp, chainVars, ClientNext
  <2>2. /\ UNCHANGED <<allocVars, sequence>>
        /\ timedOut' = timedOut \union {f} /\ mismatch' = mismatch
    BY <1>10 DEF GiveUp, chainVars
  <2>4. /\ "idle" \in PC /\ seq[f][n][k] \in Nat /\ mempool[n][i] \in Nat
        /\ ClientAlone(f, n, k, "idle", seq[f][n][k], mempool[n][i])
    BY <1>1, <1>2, <2>2 DEF ClientAlone
  <2>5. FaultsKept
    BY <1>3, <2>2 DEF MismatchIsOwnFault, FaultsKept
  <2>. QED  BY <2>1, <2>2, <2>4, <2>5, ClientPInv
<1>. QED  BY <1>5, <1>6, <1>7, <1>8, <1>9, <1>10 DEF ClientStep

-------------------------------------------------------------------------------
(* A block moves the oldest pending transaction of an account from the       *)
(* mempool to the committed ones: their sum stays.                          *)
LEMMA CommitPInv ==
  ASSUME PInv, NEW n \in Network, NEW i \in Account, Commit(n, i)
  PROVE  PInv'
<1>1. /\ sequence \in [Network -> [Account -> Nat]]
      /\ mempool \in [Network -> [Account -> Nat]]
      /\ sequence[n][i] \in Nat /\ mempool[n][i] \in Nat
      /\ mempool[n][i] > 0
  BY DEF PInv, TypeOK, Commit
<1>2. /\ UNCHANGED <<phase, testFilePosition, walletIndexes, given>>
      /\ UNCHANGED <<client, seq, timedOut, mismatch>>
  BY DEF Commit, allocVars, clientVars
<1> DEFINE less == mempool[n][i] - 1
           more == sequence[n][i] + 1
<1>3. less \in Nat /\ more \in Nat /\ more + less = sequence[n][i] + mempool[n][i]
  BY <1>1
<1>4. /\ mempool' = [mempool EXCEPT ![n][i] = less]
      /\ sequence' = [sequence EXCEPT ![n][i] = more]
  BY DEF Commit
<1> HIDE DEF less, more
<1>5. /\ mempool' \in [Network -> [Account -> Nat]]
      /\ sequence' \in [Network -> [Account -> Nat]]
      /\ mempool'[n][i] = less /\ sequence'[n][i] = more
      /\ \A m \in Network, j \in Account :
           m # n \/ j # i => /\ mempool'[m][j] = mempool[m][j]
                             /\ sequence'[m][j] = sequence[m][j]
  BY <1>1, <1>3, <1>4, NestedUpdate
<1>6. \A m \in Network, j \in Account :
        /\ mempool[m][j] = 0 => mempool'[m][j] = 0 /\ sequence'[m][j] = sequence[m][j]
        /\ sequence'[m][j] + mempool'[m][j] = sequence[m][j] + mempool[m][j]
  BY <1>1, <1>3, <1>5
<1>7. IInv'
  BY <1>2, NextIInv DEF PInv, allocVars
<1>8. TypeOK'
  BY <1>2, <1>5, <1>7 DEF PInv, IInv, TypeOK, Account, Slot
<1>9. GivenCounted' /\ UnusedIdle' /\ MismatchIsOwnFault'
  BY <1>2 DEF PInv, GivenCounted, UnusedIdle, MismatchIsOwnFault, Account, Slot
<1>10. UntakenQuiet'
  BY <1>2, <1>6 DEF PInv, UntakenQuiet, Account, Pool!Taken
<1>11. IdleQuiet'
  BY <1>2, <1>6, ClientTypes DEF PInv, IdleQuiet
<1>12. InFlightAlone'
  <2> SUFFICES ASSUME NEW g \in File \ (SyncFile \union timedOut), NEW m \in Network,
                      NEW l \in DOMAIN given[g][m]
               PROVE  LET j == given[g][m][l] IN
                        /\ client[g][m][l] = "signed" =>
                             mempool'[m][j] = 0 /\ seq[g][m][l] = sequence'[m][j]
                        /\ client[g][m][l] = "waiting" =>
                             sequence'[m][j] + mempool'[m][j] = seq[g][m][l] + 1
    BY <1>2 DEF InFlightAlone
  <2>1. given[g][m][l] \in Account
    BY ClientTypes
  <2>. QED  BY <1>6, <2>1 DEF PInv, InFlightAlone
<1>. QED  BY <1>7, <1>8, <1>9, <1>10, <1>11, <1>12 DEF PInv

LEMMA NextPInv ==
  ASSUME PInv, [Next]_vars
  PROVE  PInv'
<1>1. CASE UNCHANGED vars
  <2>1. /\ IInv'
        /\ UNCHANGED <<phase, testFilePosition, walletIndexes, given>>
        /\ UNCHANGED <<sequence, mempool, client, seq, timedOut, mismatch>>
    BY <1>1, NextIInv DEF PInv, vars, allocVars, chainVars, clientVars
  <2>. QED  BY <2>1 DEF PInv, IInv, TypeOK, GivenCounted, UnusedIdle, UntakenQuiet, IdleQuiet,
                        InFlightAlone, MismatchIsOwnFault, Account, Slot, Pool!Taken
<1>2. CASE Allocate
  BY <1>2, AllocatePInv
<1>3. ASSUME NEW f \in File, NEW n \in Network, NEW k \in DOMAIN given[f][n],
             ClientStep(f, n, k)
      PROVE  PInv'
  BY <1>3, ClientStepPInv
<1>4. ASSUME NEW n \in Network, NEW i \in Account, Commit(n, i)
      PROVE  PInv'
  BY <1>4, CommitPInv
<1>. QED  BY <1>1, <1>2, <1>3, <1>4 DEF Next

-------------------------------------------------------------------------------
(* The strengthening holds throughout.                                      *)
THEOREM InductiveParallel == Spec => []PInv
<1>1. PInv /\ [Next]_vars => PInv'
  BY NextPInv
<1>. QED  BY InitPInv, <1>1, PTL DEF Spec

(* The variables of the files, their clients and the chains keep their types *)
THEOREM TypeCorrectParallel == Spec => []TypeOK
<1>1. PInv => TypeOK
  BY DEF PInv
<1>. QED  BY <1>1, InductiveParallel, PTL

(* Test files that sign in parallel never use one account.                  *)
THEOREM UniqueParallel == Spec => []WalletsUnique
<1>1. PInv => WalletsUnique
  BY UniqueOfIInv DEF PInv
<1>. QED  BY <1>1, InductiveParallel, PTL

(* What the files are given while they sign is taken from one common pool.  *)
THEOREM PoolParallel == Spec => PoolSpec
<1>1. Init => Pool!Init
  BY DEF Init, AllocInit, Pool!Init
<1>2. PInv /\ [Next]_vars => [Pool!Next]_given
  <2> SUFFICES ASSUME PInv, [Next]_vars
               PROVE  [Pool!Next]_given
    OBVIOUS
  <2>1. CASE Allocate
    BY <2>1, StepTakes DEF PInv, Allocate
  <2>2. CASE UNCHANGED vars
    BY <2>2 DEF vars, allocVars
  <2>3. ASSUME NEW f \in File, NEW n \in Network, NEW k \in DOMAIN given[f][n],
               ClientStep(f, n, k)
        PROVE  UNCHANGED given
    BY <2>3 DEF ClientStep, Sign, SignAndBroadcast, SignAndBroadcastSync, Refused,
                Observe, GiveUp, allocVars
  <2>4. ASSUME NEW n \in Network, NEW i \in Account, Commit(n, i)
        PROVE  UNCHANGED given
    BY <2>4 DEF Commit, allocVars
  <2>. QED  BY <2>1, <2>2, <2>3, <2>4 DEF Next
<1>. QED  BY <1>1, <1>2, InductiveParallel, PTL DEF Spec, PoolSpec, Pool!Spec

(* While a call of a file that waits is in flight, its account is as the    *)
(* call left it, whatever the files beside it do.                           *)
THEOREM Alone == Spec => []InFlightAlone
<1>1. PInv => InFlightAlone
  BY DEF PInv
<1>. QED  BY <1>1, InductiveParallel, PTL

(* Only a file's own unawaited or given up calls lead to a sequence          *)
(* mismatch, whatever the number of files, wallets and transactions.        *)
THEOREM OwnFault == Spec => []MismatchIsOwnFault
<1>1. PInv => MismatchIsOwnFault
  BY DEF PInv
<1>. QED  BY <1>1, InductiveParallel, PTL
===============================================================================
