------------------------------ MODULE LocalState ------------------------------
(***************************************************************************)
(* The wallet allocator of the test files (src/helpers/local_state.ts).     *)
(*                                                                          *)
(* vitest runs every test file in a worker of its own.  The workers share   *)
(* nothing but the list of prefunded mnemonics that global setup provides   *)
(* and the directory they live in, so each one computes the slice of the    *)
(* list it may use from its place among the sorted names of the directory.  *)
(* A file's tests share one LocalState object and run one after another.    *)
(***************************************************************************)
EXTENDS Naturals, Sequences

CONSTANTS
  DirListing,               \* the sorted names of the files of the directory
  SuiteFile,                \* the files whose beforeAll passes `suite`
  Network,                  \* "neutron" and "cosmos"
  WALLETS_PER_TEST_FILE,
  PREFUNDED_WALLETS_COUNT

File == {DirListing[i] : i \in DOMAIN DirListing}

(* The names of a directory are distinct. *)
ASSUME DirListingAssumption ==
  /\ DirListing \in Seq(STRING)
  /\ \A i, j \in DOMAIN DirListing : DirListing[i] = DirListing[j] => i = j

ASSUME CountAssumption ==
  /\ WALLETS_PER_TEST_FILE \in Nat
  /\ PREFUNDED_WALLETS_COUNT \in Nat \ {0}

(* The networks of `type Network`; relayerLink() asks for both by name. *)
ASSUME NetworkAssumption == Network = {"neutron", "cosmos"}

(* A file that does not pass its suite runs alone (the run-in-band tests).  *)
ASSUME RunInBandAssumption ==
  \A f, g \in File : f # g => f \in SuiteFile /\ g \in SuiteFile

VARIABLES
  phase,              \* what each file's LocalState is doing
  testFilePosition,   \* testFilePosition[f]
  walletIndexes,      \* walletIndexes[f][n]: the next offset in f's slice
  given               \* given[f][n]: the mnemonics handed out, in order

allocVars == <<phase, testFilePosition, walletIndexes, given>>

(* "created": constructed, init() not finished; "linking": relayerLink() is *)
(* between its two wallets; "failed": create() rejected, no state to use.   *)
Phase == {"created", "ready", "linking", "failed"}

AllocInit ==
  /\ phase = [f \in File |-> "created"]
  /\ testFilePosition = [f \in File |-> 0]
  /\ walletIndexes = [f \in File |-> [n \in Network |-> 0]]
  /\ given = [f \in File |-> [n \in Network |-> <<>>]]

(* testFilePositionForName: findIndex over the sorted listing, 0-based.     *)
PositionIn(listing, f) ==
  (CHOOSE i \in DOMAIN listing :
      /\ listing[i] = f
      /\ \A j \in DOMAIN listing : listing[j] = f => i <= j) - 1

(* listFilenamesInDir swallows a readdir error and answers no names at all. *)
Listings == {DirListing, <<>>}

(* init(): the position of the file, 0 when the suite is not passed.  A     *)
(* name that is not listed makes create() reject.                           *)
InitState(f) ==
  /\ phase[f] = "created"
  /\ \/ /\ f \notin SuiteFile
        /\ testFilePosition' = [testFilePosition EXCEPT ![f] = 0]
        /\ phase' = [phase EXCEPT ![f] = "ready"]
     \/ /\ f \in SuiteFile
        /\ \E listing \in Listings :
             IF \E i \in DOMAIN listing : listing[i] = f
               THEN /\ testFilePosition' =
                         [testFilePosition EXCEPT ![f] = PositionIn(listing, f)]
                    /\ phase' = [phase EXCEPT ![f] = "ready"]
               ELSE /\ phase' = [phase EXCEPT ![f] = "failed"]
                    /\ UNCHANGED testFilePosition
  /\ UNCHANGED <<walletIndexes, given>>

-------------------------------------------------------------------------------
(* getAndUpdateNextWalletIndex and the wallet made from the mnemonic.       *)

(* a slip: every file starts at the first mnemonic *)
SliceStartIgnored(f) == 0

SliceStart(f) == testFilePosition[f] * WALLETS_PER_TEST_FILE

MnemonicIndex(f, n) == SliceStart(f) + walletIndexes[f][n]

(* a slip: the limit itself is taken for a valid offset *)
OffsetLeftOffByOne(f, n) == walletIndexes[f][n] <= WALLETS_PER_TEST_FILE

(* the slice of the file is not used up *)
OffsetLeft(f, n) == walletIndexes[f][n] < WALLETS_PER_TEST_FILE

(* `this.mnemonics[nextWalletIndex]` is defined *)
MnemonicFound(f, n) == MnemonicIndex(f, n) < PREFUNDED_WALLETS_COUNT

(* a slip: the offset is stored as it was read *)
UpdateIndexForgotten(f, n) == UNCHANGED walletIndexes

UpdateIndex(f, n) ==
  walletIndexes' = [walletIndexes EXCEPT ![f][n] = @ + 1]

HandOut(f, n) ==
  given' = [given EXCEPT ![f][n] = Append(@, MnemonicIndex(f, n))]

(* A wallet is handed out. *)
NextWalletSucceeds(f, n) ==
  /\ OffsetLeft(f, n)
  /\ MnemonicFound(f, n)
  /\ UpdateIndex(f, n)
  /\ HandOut(f, n)

(* The call throws: either the offset is out of range and nothing changes,  *)
(* or the mnemonic is missing and the offset is spent all the same.         *)
NextWalletThrows(f, n) ==
  /\ \/ /\ ~ OffsetLeft(f, n)
        /\ UNCHANGED walletIndexes
     \/ /\ OffsetLeft(f, n)
        /\ ~ MnemonicFound(f, n)
        /\ UpdateIndex(f, n)
  /\ UNCHANGED given

(* nextNeutronWallet(), nextSecp256k1SignNeutronWallet(), nextGaiaWallet(). *)
(* A rejected call fails the test that made it; the next test of the file   *)
(* goes on with the same LocalState.                                        *)
NextWallet(f, n) ==
  /\ phase[f] = "ready"
  /\ NextWalletSucceeds(f, n) \/ NextWalletThrows(f, n)
  /\ UNCHANGED <<phase, testFilePosition>>

(* relayerLink(): a neutron wallet, then, if there was one, a gaia wallet.  *)
RelayerLink(f) ==
  /\ phase[f] = "ready"
  /\ \/ /\ NextWalletSucceeds(f, "neutron")
        /\ phase' = [phase EXCEPT ![f] = "linking"]
     \/ /\ NextWalletThrows(f, "neutron")
        /\ UNCHANGED phase
  /\ UNCHANGED testFilePosition

RelayerLinkGaia(f) ==
  /\ phase[f] = "linking"
  /\ NextWalletSucceeds(f, "cosmos") \/ NextWalletThrows(f, "cosmos")
  /\ phase' = [phase EXCEPT ![f] = "ready"]
  /\ UNCHANGED testFilePosition

AllocStep(f) ==
  \/ InitState(f)
  \/ \E n \in Network : NextWallet(f, n)
  \/ RelayerLink(f)
  \/ RelayerLinkGaia(f)

AllocNext == \E f \in File : AllocStep(f)

AllocSpec == AllocInit /\ [][AllocNext]_allocVars

-------------------------------------------------------------------------------
(* The variables have their types: offsets stay within the slice.           *)
AllocTypeOK ==
  /\ phase \in [File -> Phase]
  /\ testFilePosition \in [File -> Nat]
  /\ walletIndexes \in [File -> [Network -> 0 .. WALLETS_PER_TEST_FILE]]
  /\ given \in [File -> [Network -> Seq(Nat)]]

(* No wallet of a network is handed out twice: not to two files and not     *)
(* twice to one file.  This is what "they're all unique" of the comment on  *)
(* nextNeutronWallet() promises, and what keeps parallel tests from using   *)
(* one account at the same time.                                            *)
WalletsUnique ==
  \A f, g \in File, n \in Network :
    \A k \in DOMAIN given[f][n], l \in DOMAIN given[g][n] :
      given[f][n][k] = given[g][n][l] => f = g /\ k = l

(* The slices together implement one common pool of prefunded wallets from  *)
(* which nothing is taken twice, though no file knows of the others' calls. *)
Pool == INSTANCE WalletPool
          WITH Mnemonic <- 0 .. PREFUNDED_WALLETS_COUNT - 1
PoolSpec == Pool!Spec
===============================================================================
