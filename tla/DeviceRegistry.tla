--------------------------- MODULE DeviceRegistry ---------------------------
(***************************************************************************)
(* The relay's device registry (registry.ts): pairing codes in memory,     *)
(* device bindings in memory and in one state file.                        *)
(*                                                                         *)
(* A request changes the bindings in memory at once, then writes all of    *)
(* them to a temporary file and renames it over the state file.  Every     *)
(* step of that is an await: other requests of the relay run in between,   *)
(* and all of them use the same temporary name.  The file system is        *)
(* modelled by its inodes, because a rename moves the file another request *)
(* is still writing.                                                       *)
(***************************************************************************)
EXTENDS Naturals

CONSTANTS
    Devices,
    AccountIds,
    PairingCodes,
    Requests,       \* HTTP requests in progress, each one at a time
    MaxInode,       \* bound: how many files are created
    NoAccount,      \* a device never paired
    NoDevice,       \* a code not in use
    NoBinding,      \* nothing acknowledged about a device
    Empty, Torn     \* a file just truncated; a file two requests wrote to

ASSUME RegistryAssumption ==
    /\ MaxInode \in Nat
    /\ NoAccount \notin AccountIds
    /\ NoDevice \notin Devices

Binding == [account : AccountIds \cup {NoAccount}, revoked : BOOLEAN]
Unbound == [account |-> NoAccount, revoked |-> FALSE]
Snapshots == [Devices -> Binding]

ASSUME RegistrySentinels ==
    /\ NoBinding \notin Binding
    /\ Empty \notin Snapshots /\ Torn \notin Snapshots

\* A definition whose name extends another's with an underscore is a mutant
\* of it: a slip the code could contain, which the properties must notice.

VARIABLES
    up,         \* the relay runs
    memory,     \* memory[d]: the record of d
    codes,      \* codes[k]: the device that waits for approval of code k
    stage,      \* stage[r]: where request r is
    about,      \* about[r]: the device request r changed
    wrote,      \* wrote[r]: the binding request r gave it
    snap,       \* snap[r]: the bindings request r writes
    fd,         \* fd[r]: the inode request r writes to
    inodes,     \* files created so far
    content,    \* content[i]: what file i holds
    tmp, file,  \* the inodes under the two names; 0 is no such file
    acked,      \* acked[d]: the binding last acknowledged (history)
    failed,     \* a write or a rename ever failed (history)
    overlapped  \* two requests ever wrote at once (history)

request == <<stage, about, wrote, snap, fd>>
disk    == <<inodes, content, tmp, file>>
history == <<acked, failed, overlapped>>
registryVars == <<up, memory, codes, request, disk, history>>

Stages == {"idle", "mkdir", "open", "write", "rename"}
Nothing == [d \in Devices |-> Unbound]

RegistryInit ==
    /\ up = TRUE
    /\ memory = Nothing
    /\ codes = [k \in PairingCodes |-> NoDevice]
    /\ stage = [r \in Requests |-> "idle"]
    /\ about = [r \in Requests |-> NoDevice]
    /\ wrote = [r \in Requests |-> Unbound]
    /\ snap = [r \in Requests |-> Nothing]
    /\ fd = [r \in Requests |-> 0]
    /\ inodes = 0
    /\ content = [i \in 1 .. MaxInode |-> Empty]
    /\ tmp = 0 /\ file = 0
    /\ acked = [d \in Devices |-> NoBinding]
    /\ failed = FALSE /\ overlapped = FALSE

\* authenticateDevice: the device of binding b may connect.
Authenticates(b) == b.account # NoAccount /\ ~b.revoked

Paired(d) == Authenticates(memory[d])

\* The request is answered and forgotten.
Leave(r) ==
    /\ stage' = [stage EXCEPT ![r] = "idle"]
    /\ about' = [about EXCEPT ![r] = NoDevice]
    /\ wrote' = [wrote EXCEPT ![r] = Unbound]
    /\ snap' = [snap EXCEPT ![r] = Nothing]
    /\ fd' = [fd EXCEPT ![r] = 0]

-----------------------------------------------------------------------------
\* startPairing: a code for a device that is not actively paired.
StartPairing(k, d) ==
    /\ up /\ codes[k] = NoDevice
    /\ ~Paired(d)
    /\ codes' = [codes EXCEPT ![k] = d]
    /\ UNCHANGED <<up, memory, request, disk, history>>

\* approvePairing finds its code expired, and forgets it.
CodeExpired(k) ==
    /\ up /\ codes[k] # NoDevice
    /\ codes' = [codes EXCEPT ![k] = NoDevice]
    /\ UNCHANGED <<up, memory, request, disk, history>>

\* A request gives device d the binding b in memory and starts to persist.
Change(r, d, b) ==
    /\ up /\ stage[r] = "idle"
    /\ memory' = [memory EXCEPT ![d] = b]
    /\ stage' = [stage EXCEPT ![r] = "mkdir"]
    /\ about' = [about EXCEPT ![r] = d]
    /\ wrote' = [wrote EXCEPT ![r] = b]
    /\ acked' = [acked EXCEPT ![d] = NoBinding]
    /\ overlapped' = (overlapped \/ \E q \in Requests : stage[q] # "idle")
    /\ UNCHANGED <<up, snap, fd, disk, failed>>

ApprovePairing(r, k, a) ==
    /\ codes[k] # NoDevice
    /\ Change(r, codes[k], [account |-> a, revoked |-> FALSE])
    /\ codes' = [codes EXCEPT ![k] = NoDevice]

Revoke_Unwritten(r, d) ==
    LET b == [memory[d] EXCEPT !.revoked = TRUE] IN
    /\ up /\ stage[r] = "idle" /\ Paired(d)
    /\ memory' = [memory EXCEPT ![d] = b]
    /\ acked' = [acked EXCEPT ![d] = b]
    /\ UNCHANGED <<up, codes, request, disk, failed, overlapped>>

Revoke(r, d) ==
    /\ Paired(d)
    /\ Change(r, d, [memory[d] EXCEPT !.revoked = TRUE])
    /\ UNCHANGED codes

\* revokeDevice on a record already revoked answers at once.
RevokeAgain(r, d) ==
    /\ up /\ stage[r] = "idle"
    /\ memory[d].revoked
    /\ acked' = [acked EXCEPT ![d] = memory[d]]
    /\ overlapped' = (overlapped \/ \E q \in Requests : stage[q] # "idle")
    /\ UNCHANGED <<up, memory, codes, request, disk, failed>>

-----------------------------------------------------------------------------
(* persist                                                                  *)

\* mkdir returns; all the bindings are serialised as they are now.
Mkdir(r) ==
    /\ stage[r] = "mkdir"
    /\ snap' = [snap EXCEPT ![r] = memory]
    /\ stage' = [stage EXCEPT ![r] = "open"]
    /\ UNCHANGED <<up, memory, codes, about, wrote, fd, disk, history>>

\* writeFile opens the temporary file and truncates it, whoever wrote it.
Open_InPlace(r) ==
    LET i == IF file = 0 THEN inodes + 1 ELSE file IN
    /\ stage[r] = "open"
    /\ i <= MaxInode
    /\ inodes' = IF file = 0 THEN i ELSE inodes
    /\ file' = i
    /\ fd' = [fd EXCEPT ![r] = i]
    /\ content' = [content EXCEPT ![i] = Empty]
    /\ stage' = [stage EXCEPT ![r] = "write"]
    /\ UNCHANGED <<up, memory, codes, about, wrote, snap, tmp, history>>

Open(r) ==
    LET i == IF tmp = 0 THEN inodes + 1 ELSE tmp IN
    /\ stage[r] = "open"
    /\ i <= MaxInode
    /\ inodes' = IF tmp = 0 THEN i ELSE inodes
    /\ tmp' = i
    /\ fd' = [fd EXCEPT ![r] = i]
    /\ content' = [content EXCEPT ![i] = Empty]
    /\ stage' = [stage EXCEPT ![r] = "write"]
    /\ UNCHANGED <<up, memory, codes, about, wrote, snap, file, history>>

\* writeFile writes from the start of its file.  If another request wrote a
\* longer text there meanwhile, its tail stays behind.
Write(r) ==
    LET i == fd[r] IN
    /\ stage[r] = "write"
    /\ \/ content' = [content EXCEPT ![i] = snap[r]]
       \/ /\ content[i] \notin {Empty, snap[r]}
          /\ content' = [content EXCEPT ![i] = Torn]
    /\ stage' = [stage EXCEPT ![r] = "rename"]
    /\ UNCHANGED <<up, memory, codes, about, wrote, snap, fd, inodes, tmp, file, history>>

\* The temporary file becomes the state file, and the request is answered.
Rename(r) ==
    /\ stage[r] = "rename"
    /\ tmp # 0
    /\ file' = tmp
    /\ tmp' = 0
    /\ Leave(r)
    /\ acked' = IF memory[about[r]] = wrote[r]
                THEN [acked EXCEPT ![about[r]] = wrote[r]]
                ELSE acked
    /\ UNCHANGED <<up, memory, codes, inodes, content, failed, overlapped>>

\* A step of persist fails, and the request with it: the disk is full or
\* refuses, or another request has renamed the temporary file away.
PersistFails(r) ==
    /\ stage[r] # "idle"
    /\ Leave(r)
    /\ failed' = TRUE
    /\ UNCHANGED <<up, memory, codes, disk, acked, overlapped>>

-----------------------------------------------------------------------------
Crash ==
    /\ up
    /\ up' = FALSE
    /\ memory' = Nothing
    /\ codes' = [k \in PairingCodes |-> NoDevice]
    /\ stage' = [r \in Requests |-> "idle"]
    /\ about' = [r \in Requests |-> NoDevice]
    /\ wrote' = [r \in Requests |-> Unbound]
    /\ snap' = [r \in Requests |-> Nothing]
    /\ fd' = [r \in Requests |-> 0]
    /\ UNCHANGED <<disk, history>>

Stored == IF file = 0 THEN Nothing ELSE content[file]

\* open: a state file that is no registry refuses to load.
Loads == Stored \in Snapshots

Restart ==
    /\ ~up
    /\ Loads
    /\ up' = TRUE
    /\ memory' = Stored
    /\ UNCHANGED <<codes, request, disk, history>>

RegistryNext ==
    \/ \E k \in PairingCodes : CodeExpired(k) \/ \E d \in Devices : StartPairing(k, d)
    \/ \E r \in Requests :
          \/ \E k \in PairingCodes, a \in AccountIds : ApprovePairing(r, k, a)
          \/ \E d \in Devices : Revoke(r, d) \/ RevokeAgain(r, d)
          \/ Mkdir(r) \/ Open(r) \/ Write(r) \/ Rename(r) \/ PersistFails(r)
    \/ Crash \/ Restart

RegistrySpec == RegistryInit /\ [][RegistryNext]_registryVars

-----------------------------------------------------------------------------
RegistryTypeOK ==
    /\ up \in BOOLEAN
    /\ memory \in Snapshots
    /\ codes \in [PairingCodes -> Devices \cup {NoDevice}]
    /\ stage \in [Requests -> Stages]
    /\ about \in [Requests -> Devices \cup {NoDevice}]
    /\ wrote \in [Requests -> Binding]
    /\ snap \in [Requests -> Snapshots]
    /\ fd \in [Requests -> 0 .. MaxInode]
    /\ inodes \in 0 .. MaxInode
    /\ content \in [1 .. MaxInode -> Snapshots \cup {Empty, Torn}]
    /\ tmp \in 0 .. MaxInode /\ file \in 0 .. MaxInode
    /\ acked \in [Devices -> Binding \cup {NoBinding}]
    /\ failed \in BOOLEAN /\ overlapped \in BOOLEAN

\* As long as requests do not overlap, the state file can be loaded after a
\* crash at any step, also one that failed half-way.
FileLoads == ~overlapped => Loads

\* As long as requests do not overlap and no write fails, what was
\* acknowledged of a device is what a restart loads.
AckedStored ==
    ~overlapped /\ ~failed =>
        \A d \in Devices : acked[d] # NoBinding => Stored[d] = acked[d]

\* The file a restart finds is one it can load.
FileTrue == RegistryTypeOK /\ FileLoads
=============================================================================
