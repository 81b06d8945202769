------------------------------- MODULE AtRest -------------------------------
(***************************************************************************)
(* Encryption at rest and the custody of its key (rrn-station storage/,    *)
(* recovery.rs; rrn-identity recovery/).  `station encrypt-in-place' moves *)
(* a plaintext station into a container whose key only a quorum of holders *)
(* can rebuild; `station unlock' mounts it after a reboot; `vmk refresh'   *)
(* splits the same key again.  The commands are processes of their own,    *)
(* and the daemon may be started between any two of their steps.           *)
(*                                                                         *)
(* A key is a number, counted as keys are generated; a ledger is the       *)
(* number of its entries; a shard is the split it is of and its holder.    *)
(***************************************************************************)
EXTENDS Integers, Sequences, FiniteSets, FiniteSetsExt

CONSTANTS
    Holders,
    HolderSets,   \* the sets of holders an operator names
    Thresholds,   \* the thresholds an operator names
    MaxKeys,      \* bound of the model: containers provisioned
    MaxSplits,    \* bound of the model: splits of a key
    MaxEntries,   \* bound of the model: entries admitted after the first
    MaxStops      \* bound of the model: commands that die or fail, power cuts

ASSUME AtRestAssumption ==
    /\ HolderSets \subseteq SUBSET Holders  /\ IsFiniteSet(Holders)
    /\ Thresholds \subseteq Nat

VARIABLES
    profile,      \* config.toml: "plaintext", "encrypted" or "torn", unreadable
    recorded,     \* config.toml: the threshold it says; 0 if none
    originals,    \* plaintext station files on the boot dir
    plainLog,     \* entries of the plaintext ledger
    container,    \* the encrypted volume
    mounted,
    descriptor,   \* VmkDescriptor, on the boot dir: the key it names; 0 if none
    splits,       \* the splits made
    shards,       \* the shards holders have stored
    screen,       \* the split whose shard QRs the operator can show; 0 if none
    command,      \* the administrative command that runs, at its next step
    daemon,       \* "down", or the ledger it serves: "plain", "volume"
    keys,         \* keys generated
    admitted,     \* history: entries admitted
    late,         \* history: of these, into an original already verified
    armed,        \* history: a quorum of holders has stored shards of the key
    stops,
    cuts          \* of these, power cuts

configVars == <<profile, recorded>>
filesVars  == <<configVars, originals, plainLog, container, mounted, descriptor>>
shardVars  == <<splits, shards, screen, armed>>
ledgerVars == <<daemon, admitted, late>>
atRestVars == <<filesVars, shardVars, ledgerVars, command, keys, stops, cuts>>

StationFiles == {"wallet", "db"}
NoContainer  == [key |-> 0, log |-> 0, wallet |-> FALSE, package |-> 0]
Idle         == [at |-> "none", to |-> {}, k |-> 0]

\* A plaintext station with one entry.
AtRestInit ==
    /\ profile = "plaintext"  /\ recorded = 0
    /\ originals = StationFiles  /\ plainLog = 1
    /\ container = NoContainer  /\ mounted = FALSE  /\ descriptor = 0
    /\ splits = <<>>  /\ shards = {}  /\ screen = 0
    /\ command = Idle  /\ daemon = "down"
    /\ keys = 0  /\ admitted = 1  /\ late = 0
    /\ armed = FALSE  /\ stops = 0  /\ cuts = 0
-----------------------------------------------------------------------------
(* Shards.                                                                 *)

\* parse_holders
ValidHolders(to, k) == Cardinality(to) >= 2 /\ k \in 2 .. Cardinality(to)

\* reconstruct_wallet_for_address: shards of one split, as many as it asks for,
\* rebuild its key; fewer, or mixed ones, rebuild another, which the address gives
\* away.
Reconstructs(R, key) ==
    \E s \in 1 .. Len(splits) :
        /\ splits[s].key = key
        /\ \A shard \in R : shard[1] = s
        /\ Cardinality(R) >= splits[s].k

\* A quorum of holders can answer a ceremony for the key the descriptor names.
QuorumFor(key) == \E R \in SUBSET shards : Reconstructs(R, key)

\* arm splits the key just generated, refresh the same key again.
Split == [key |-> container.key, k |-> command.k, to |-> command.to]
-----------------------------------------------------------------------------
(* station encrypt-in-place.                                               *)

NextStep ==
    [provision |-> "snapshot", snapshot |-> "wallet", wallet |-> "package",
     package |-> "descriptor", descriptor |-> "verify", verify |-> "flip",
     flip |-> "erase_wallet", erase_wallet |-> "erase_db", erase_db |-> "print",
     re_package |-> "re_descriptor", re_descriptor |-> "re_config", re_config |-> "print"]

At(step) == command.at = step
Advance  == command' = [command EXCEPT !.at = NextStep[@]]

\* The checks of encrypt_in_place.  A live daemon answers on its socket.
EncryptInPlace(to, k) ==
    /\ command = Idle
    /\ profile = "plaintext"  /\ daemon = "down"
    /\ originals = StationFiles  /\ container = NoContainer
    /\ ValidHolders(to, k)
    /\ keys < MaxKeys  /\ Len(splits) < MaxSplits
    /\ command' = [at |-> "provision", to |-> to, k |-> k]
    /\ UNCHANGED <<filesVars, shardVars, ledgerVars, keys, stops, cuts>>

Provision ==
    /\ At("provision")  /\ Advance
    /\ keys' = keys + 1
    /\ container' = [NoContainer EXCEPT !.key = keys + 1]
    /\ mounted' = TRUE
    /\ UNCHANGED <<configVars, originals, plainLog, descriptor, shardVars, ledgerVars, stops, cuts>>

\* What the steps after provision write in the container.
WriteInside(step, content) ==
    /\ At(step)  /\ Advance
    /\ container' = content
    /\ UNCHANGED <<configVars, originals, plainLog, mounted, descriptor, shardVars, ledgerVars,
                   keys, stops, cuts>>

Snapshot   == WriteInside("snapshot", [container EXCEPT !.log = plainLog])
CopyWallet == WriteInside("wallet", [container EXCEPT !.wallet = TRUE])

\* arm, or refresh, and the package saved inside the container.
SavePackage ==
    /\ At("package") \/ At("re_package")
    /\ Advance
    /\ splits' = Append(splits, Split)
    /\ container' = [container EXCEPT !.package = Len(splits) + 1]
    /\ UNCHANGED <<configVars, originals, plainLog, mounted, descriptor, shards, screen, armed,
                   ledgerVars, keys, stops, cuts>>

SaveDescriptor ==
    /\ At("descriptor") \/ At("re_descriptor")
    /\ Advance
    /\ descriptor' = splits[container.package].key
    /\ UNCHANGED <<configVars, originals, plainLog, container, mounted, shardVars, ledgerVars,
                   keys, stops, cuts>>

\* Slip in CopyVerified: the counts are not compared.
CopyUnchecked == TRUE

\* Both chains verify and are as long as each other.
CopyVerified == container.log = plainLog

Verify ==
    /\ At("verify")  /\ CopyVerified  /\ Advance
    /\ UNCHANGED <<filesVars, shardVars, ledgerVars, keys, stops, cuts>>

\* config.toml is written: write_encrypted_config, and after a refresh if the
\* threshold it says is another.
Saves == At("flip") \/ (At("re_config") /\ recorded # command.k)

WriteConfig ==
    /\ At("flip") \/ At("re_config")
    /\ Advance
    /\ profile' = IF Saves THEN "encrypted" ELSE profile
    /\ recorded' = command.k
    /\ UNCHANGED <<originals, plainLog, container, mounted, descriptor, shardVars, ledgerVars,
                   keys, stops, cuts>>

SecureErase ==
    /\ At("erase_wallet") \/ At("erase_db")
    /\ Advance
    /\ originals' = originals \ {IF At("erase_db") THEN "db" ELSE "wallet"}
    /\ UNCHANGED <<configVars, plainLog, container, mounted, descriptor, shardVars, ledgerVars,
                   keys, stops, cuts>>

\* print_holder_shards: only now do the shards leave the process.
PrintShards ==
    /\ At("print")
    /\ command' = Idle
    /\ screen' = Len(splits)
    /\ UNCHANGED <<filesVars, splits, shards, armed, ledgerVars, keys, stops, cuts>>

\* A holder's phone scans its shard.
StoreShard(h) ==
    /\ screen # 0  /\ h \in splits[screen].to  /\ <<screen, h>> \notin shards
    /\ shards' = shards \cup {<<screen, h>>}
    /\ armed' = (armed \/ \E R \in SUBSET shards' : Reconstructs(R, container.key))
    /\ UNCHANGED <<filesVars, splits, screen, ledgerVars, command, keys, stops, cuts>>
-----------------------------------------------------------------------------
(* A step that fails, a command that dies, a power cut.                    *)

\* Where a write that is cut short may leave a file unreadable: fs::write
\* truncates first.
TornConfig ==
    /\ profile' \in {profile} \cup (IF Saves THEN {"torn"} ELSE {})
    /\ UNCHANGED recorded

TornPackage(c) ==
    {c} \cup (IF At("package") \/ At("re_package") THEN {[c EXCEPT !.package = 0]} ELSE {})

\* A provision cut short leaves the container file, which nobody has a key to.
HalfProvisioned(c) ==
    {c} \cup (IF At("provision") THEN {[NoContainer EXCEPT !.key = keys + 1]} ELSE {})

\* The steps whose error encrypt_in_place cleans up after.
Guarded == {"snapshot", "wallet", "package", "descriptor", "verify", "flip"}

\* cleanup_orphan_container: the unmount may not succeed.
MigrationFails ==
    /\ command.at \in Guarded  /\ stops < MaxStops
    /\ TornConfig
    /\ mounted' \in BOOLEAN
    /\ descriptor' = 0
    /\ container' = IF mounted' THEN container ELSE NoContainer
    /\ command' = Idle
    /\ stops' = stops + 1
    /\ UNCHANGED <<originals, plainLog, shardVars, ledgerVars, keys, cuts>>

\* A command is killed, or an error ends it where nothing is cleaned up: in
\* provision, which may have mounted the volume by then, and in finish_refresh.
CommandDies ==
    /\ command # Idle  /\ stops < MaxStops
    /\ TornConfig
    /\ container' \in TornPackage(container) \cup HalfProvisioned(container)
    /\ mounted' \in {mounted} \cup (IF container'.key > keys THEN {TRUE} ELSE {})
    /\ keys' = IF At("provision") THEN keys + 1 ELSE keys
    /\ command' = Idle
    /\ stops' = stops + 1
    /\ UNCHANGED <<originals, plainLog, descriptor, shardVars, ledgerVars, cuts>>

PowerCut ==
    /\ stops < MaxStops
    /\ TornConfig
    /\ container' \in TornPackage(container) \cup HalfProvisioned(container)
    /\ keys' = IF At("provision") THEN keys + 1 ELSE keys
    /\ mounted' = FALSE
    /\ daemon' = "down"
    /\ screen' = 0
    /\ command' = Idle
    /\ stops' = stops + 1  /\ cuts' = cuts + 1
    /\ UNCHANGED <<originals, plainLog, descriptor, splits, shards, armed, admitted, late>>
-----------------------------------------------------------------------------
(* Ceremonies.                                                             *)

\* finish_unlock_and_mount; with another key cryptsetup refuses.
Unlock ==
    /\ profile = "encrypted"  /\ ~mounted
    /\ descriptor # 0  /\ QuorumFor(descriptor)
    /\ descriptor = container.key
    /\ mounted' = TRUE
    /\ UNCHANGED <<configVars, originals, plainLog, container, descriptor, shardVars, ledgerVars,
                   command, keys, stops, cuts>>

\* finish_refresh, up to its first write.
Refresh(to, k) ==
    /\ command = Idle
    /\ profile = "encrypted"  /\ mounted
    /\ descriptor # 0  /\ QuorumFor(descriptor)
    /\ container.package # 0  /\ splits[container.package].key = descriptor
    /\ ValidHolders(to, k)
    /\ Len(splits) < MaxSplits
    /\ command' = [at |-> "re_package", to |-> to, k |-> k]
    /\ UNCHANGED <<filesVars, shardVars, ledgerVars, keys, stops, cuts>>
-----------------------------------------------------------------------------
(* The daemon, and what its refusals tell the operator to do.              *)

\* Station::open: the mount guard and the leftovers guard.
StartDaemon ==
    /\ daemon = "down"
    /\ \/ profile = "plaintext"  /\ originals = StationFiles  /\ daemon' = "plain"
       \/ profile = "encrypted"  /\ mounted  /\ originals = {}  /\ daemon' = "volume"
    /\ UNCHANGED <<filesVars, shardVars, admitted, late, command, keys, stops, cuts>>

StopDaemon ==
    /\ daemon # "down"
    /\ daemon' = "down"
    /\ UNCHANGED <<filesVars, shardVars, admitted, late, command, keys, stops, cuts>>

\* The plaintext ledger is no longer the one the station will be served from.
Superseded == profile = "encrypted" \/ At("flip") \/ "db" \notin originals

\* An append of the daemon, to the file it has open.
Admit ==
    /\ daemon # "down"  /\ admitted <= MaxEntries
    /\ admitted' = admitted + 1
    /\ late' = late + (IF daemon = "plain" /\ Superseded THEN 1 ELSE 0)
    /\ plainLog' = plainLog + (IF daemon = "plain" THEN 1 ELSE 0)
    /\ container' = [container EXCEPT !.log = @ + (IF daemon = "volume" THEN 1 ELSE 0)]
    /\ UNCHANGED <<configVars, originals, mounted, descriptor, shardVars, daemon, command, keys,
                   stops, cuts>>

\* The leftovers guard: "securely erase these leftovers before starting".
ShredLeftovers ==
    /\ command = Idle
    /\ profile = "encrypted"  /\ mounted  /\ originals # {}
    /\ originals' = {}
    /\ UNCHANGED <<configVars, plainLog, container, mounted, descriptor, shardVars, ledgerVars,
                   command, keys, stops, cuts>>

\* The hint of encrypt_in_place: unmount the orphan and remove it.
ClearOrphan ==
    /\ command = Idle
    /\ profile = "plaintext"  /\ container # NoContainer
    /\ container' = NoContainer  /\ mounted' = FALSE
    /\ UNCHANGED <<configVars, originals, plainLog, descriptor, shardVars, ledgerVars, command,
                   keys, stops, cuts>>

\* A malformed config.toml is refused: the operator writes back what it said.
RepairConfig ==
    /\ command = Idle  /\ profile = "torn"
    /\ profile' = IF recorded = 0 THEN "plaintext" ELSE "encrypted"
    /\ UNCHANGED <<recorded, originals, plainLog, container, mounted, descriptor, shardVars, ledgerVars,
                   command, keys, stops, cuts>>
-----------------------------------------------------------------------------
AtRestNext ==
    \/ \E to \in HolderSets, k \in Thresholds : EncryptInPlace(to, k) \/ Refresh(to, k)
    \/ Provision \/ Snapshot \/ CopyWallet \/ SavePackage \/ SaveDescriptor \/ Verify
    \/ WriteConfig \/ SecureErase \/ PrintShards
    \/ \E h \in Holders : StoreShard(h)
    \/ MigrationFails \/ CommandDies \/ PowerCut
    \/ Unlock \/ StartDaemon \/ StopDaemon \/ Admit
    \/ ShredLeftovers \/ ClearOrphan \/ RepairConfig

AtRestSpec == AtRestInit /\ [][AtRestNext]_atRestVars
-----------------------------------------------------------------------------
\* The copies of the ledger somebody can still read.
Readable ==
    {0} \cup (IF "db" \in originals THEN {plainLog} ELSE {})
        \cup (IF mounted \/ (descriptor = container.key /\ QuorumFor(container.key))
              THEN {container.log} ELSE {})

InReach == Max(Readable) + late >= admitted

(* Whatever step fails or dies, whenever the daemon is started in between, *)
(* and whichever advice the operator follows, some copy that can be read   *)
(* has every entry that was admitted before the original was superseded.   *)
(* The one way to lose it is a power cut while the only copy is on the     *)
(* volume and no quorum has stored its shards yet: they leave the process  *)
(* last, after the originals are erased.                                   *)
LedgerOutlivesStops ==
    [][InReach => InReach' \/ (cuts' # cuts /\ ~armed)]_atRestVars
=============================================================================
