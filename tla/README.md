# A verification of beam-rs

beam-rs sends one file from a sender to a receiver that has the sender's code
or PIN. This directory models the parts of it that are hard to get right, in
TLA+, checks them with TLC on small instances, and proves the most important
safety properties of the receiver's file handling with TLAPS for instances of
any size.

## 1. The system

| Component | State it keeps | Operations | Talks to |
|---|---|---|---|
| receive store, `src/core/resume.rs` | `<final>.beam-rs.partial` (header and data), `<final>.partial`, the final file, an exclusive lock on the temp file's inode | `check_resume`, `create_resume_file`, `update_resume_metadata`, `finalize_resume_file` | the file system, shared with other receivers |
| transfer protocol, `src/core/transfer.rs` | both ends: position, `bytes_received`, what the user chose, a Ctrl+C task | `run_sender_transfer`, `run_receiver_transfer` | each other, by header, PROCEED/RESUME/ABORT, chunks, ACK |
| sender session, `src/iroh/sender.rs` | endpoint, accept loop, PIN deadline, the authorized connection | `send_file`, `accept_authorized` | peers that connect |
| receiver session, `src/iroh/receiver.rs` | connection, stream, close and its timeouts | `receive_internal` | the sender |
| SPAKE2 handshake, `src/auth/spake2.rs` | password, derived key | `handshake_as_initiator`, `handshake_as_responder` | the other end |
| PIN rendezvous, `src/auth/pin.rs`, `pin_record.rs`, `lan.rs` | PIN, 120-second bucket, mDNS record | `generate_pin`, `normalize_pin`, `candidate_keys`, advertise, lookup | mDNS |
| beam code, `src/core/beam.rs`, `src/auth/serverless_code.rs` | creation time, address, secret | `generate_code`, `parse_code`, `decode` | the user |
| command line, `src/main.rs`, `src/ui` | none | `prompt_pairing_input`, `run`, the file-exists prompt | the user; it chooses how the receiver finds its sender |
| endpoint, `src/iroh/common.rs` | configuration | `create_endpoint`, path watcher | iroh |
| encryption, `src/core/crypto.rs` | none | `encrypt`, `decrypt` | |

What is hard about it, by component (PROJECT.json lists each hazard at its
line):

* **receive store.** Several `beam-rs receive` processes may work in one
  directory, each a sequence of system calls that interleave with the others',
  and each may be killed between any two. The lock belongs to an inode and the
  names belong to the directory, and the code opens, locks, truncates, renames
  and unlinks in separate calls. What makes it correct: one writer per temp
  file; a resume header that never claims data that is not there; a final file
  that is always one whole version; saved progress that is not lost.
* **transfer protocol.** Two processes must agree on an offset; chunks carry no
  position; the connection, either process, the disk or the user can end the
  transfer anywhere, including between publishing the file and acknowledging it.
  Correct: the chunks that arrive are the ones that belong at the write
  position; the sender reports success only after delivery; a retry completes.
* **sessions and handshake.** One peer is authorized at a time, under a timeout
  and, with a PIN, a deadline; the two ends finish the handshake at different
  moments. Correct: both ends hold the same key and have proved the secret
  before the file name is sent; strangers do not shut out the receiver, but for
  one that never lets the sender open its stream: that wait (`sender.rs:81-101`)
  has no timeout of its own, only the deadline of a PIN.
* **PIN and beam code.** The two ends never exchange a clock: a PIN's record has
  a name that depends on the sender's 120-second bucket, a beam code carries the
  sender's time. Records arrive in a callback that must not block, announcements
  are lost or drowned in others, and the PIN's deadline runs on while the
  receiver derives keys, searches and connects, and while strangers hold the
  sender's loop. Correct: who types the right PIN or code early enough is
  accepted, whatever boundary lies between; who mistypes it is told so at once;
  nobody waits for ever.
* **the machine.** It may lose power. Data, header and directory reach the disk
  in another order than they were written in, except where the code waits
  for a sync. Correct: what is on the disk at any moment is a whole file or
  nothing at a final path, and what was acknowledged is there.

## 2. Plan

1. `ResumeStore` (done): the receiver and its directory. Everything else relies
   on it, and its bugs destroy files.
2. `ResumeStoreInv`, `ResumeStoreProofs`, `ResumeStoreSerialProofs` (done):
   inductive invariants and their proofs.
3. `Transfer` with `Delivery` (done): sessions over `ResumeStore`; the abstract
   specification they implement when receivers take turns.
4. `Session` (done): accept loop, handshake, PIN deadline; it ends where
   `Transfer` begins.
5. `PinCode`, `Pairing` (done): the text of a PIN; the three ways a receiver
   finds its sender, with both clocks and every timer.
6. `PowerLoss` (done): the disk under `ResumeStore`, the syncs, and outages.
7. `PinCodeProofs`, `PairingProofs`, `SessionProofs`, `TransferProofs`,
   `DeliveryProofs`, `PowerLossProofs` (done): the safety properties of those
   modules, and the two refinements.
8. Left: what a `PowerLoss` with receivers that run at the same time promises of
   the contents; the types and `OneWriter` are proved of it.

## 3. The modules

### ResumeStore

A process is one run of `run_receiver_transfer` from the moment it has the file
header. All processes receive under one file name, into one directory. State:

* per process: `pc`, the announced version `want`, `nores` (`--no-resume`),
  the chosen name `name`, handles `fd` (temp) and `sfd` (staging), `got`
  (`FileReceiver.bytes_received`), `cp` (the copy loop of finalize), `sig`
  (the Ctrl+C task);
* the directory: `temp`, `stage`, `final`, each a function from candidate names
  (`file`, `file_2`, ...) to an inode or `Nil`;
* the files: `ino`, with the resume header, the length and the data unit by
  unit, and `lock`.

A version stands for a content, so it has a size and a checksum; unit `u` of
version `v` is `<<v, u>>`, which lets every property about content be exact.

| Actions | Code |
|---|---|
| `Start`, `ChooseOverwrite`, `ChooseRename`, `ChooseCancel` | `run_receiver_transfer` up to `final_path`, `find_available_filename` |
| `OpenForResume`, `LockForResume`, `ReadHeader`, `DiscardStale`, `LockHeld` | `read_resume_metadata`, `check_resume`, `try_exclusive_lock` |
| `OpenForCreate`, `LockAndTruncate`, `CreateNew`, `LockNew`, `WriteHeader` | `create_resume_file`, `write_metadata_header` |
| `SendControl`, `ReceiveChunk`, `WriteFails`, `UpdateMetadata`, `FinishReceive` | the control signal and `receive_file_data`, `update_resume_metadata` |
| `StageCreate`, `CopyChunk`, `CopyDone`, `StageFails`, `RenameStage`, `DropTemp`, `RemoveTemp`, `SendAck` | `finalize_resume_file` and the ACK |
| `Fails`, `CtrlC`, `Interrupted`, `Crash` | `?`, `setup_interrupt_handler`, `select!`, the process killed |

Each action is one system call (with the computation around it), so that other
processes and crashes come between any two. Details that are easy to miss: the
stale temp file is closed, which unlocks it, before it is unlinked;
`File::create` truncates whatever is at the staging path; the Ctrl+C task stays
armed while finalize runs; `Fails` excludes the steps whose error is ignored
(unlinking a stale file) or has its own handling (staging). Ctrl+C before the
handler is installed kills the process: `Crash`. The bail-out in
`update_resume_metadata` when more was received than the size and the
correction of a header that is ahead of the file are not reachable without
power loss or a sender that breaks the protocol; `PartialIsPrefix` is the
reason. `Corrected` is modelled all the same, and `PowerLoss` reaches it.

`Concurrent = FALSE` is the same system with receivers that take turns: a new
one starts only when the others have ended, in whatever way. The properties of
the final file need it, as the violation runs show.

### Transfer and Delivery

`Transfer` extends `ResumeStore` by a sender (`spc`, `src`, `pos`) and two
streams (`s2r`, `r2s`) per session. `Begin`, `AskForData`, `Receive`,
`Acknowledge` and `Decline` are actions of `ResumeStore` joined with taking a
message from a stream or putting one there; `Local` are the ones that touch no
stream. PROCEED is RESUME at 0: the sender treats them alike. A stream delivers
in order; when the connection is lost (`LinkLost`, `PeerGone`) each stream keeps
any prefix of what is in flight. `PeerGone` is the end of either process. A
receiver that has sent its ACK waits until it is taken (`finish` and `stopped`);
one that sent ABORT does not. `EditSource` saves another version over the file
being sent. Faults (connection, either process, disk, Ctrl+C, a user who
declines) are bounded by `MaxFaults`, edits by `MaxEdits`, messages in flight to
the receiver by `Window`.

`Delivery` says what this is for in six actions: a file is published whole, at
once, in a free place, and a sender is told of success only after that. The
refinement mapping shows the version a final path holds (or `Hole`, which
`Delivery` never shows, for anything else), counts a receiver as having delivered from the
rename on, and forgets the rest.

### Session

One sender and several peers with right or wrong secrets and right or wrong
claims of identity; a peer with both right is the intended receiver (`Honest`).

| Actions | Code |
|---|---|
| `Accept`, `ReadyByte`, `OpenFails` | the accept loop up to the ready byte: `incoming.await`, `open_bi`, the write |
| `RecvHello`, `RecvConfirm`, `AuthError`, `AuthTimeout` | `handshake_as_responder` under its 30-second timeout, and the rejections |
| `PinExpires` | `timeout_at` around `accept_authorized` |
| `SendHeader` | `run_sender_transfer` begins |
| `Dial`, `OpenStream`, `RecvPake`, `ConfirmBack`, `GetHeader` | `receive_internal` and `handshake_as_initiator` |
| `StreamError`, `DialFails`, `PeerTimeout`, `Retry` | their errors and timeouts; the user starts the receiver again |
| `Stall`, `Withhold`, `Bluff`, `LinkLost` | a peer that stops answering, one that lets the sender open no stream, one that sends a confirmation under its own key without having checked the sender's; the network |

A stage of its own, `opening`, lies between a connection and the handshake: the
code waits there without a timeout, so a stranger that withholds the stream
(`holding`) may keep the sender for as long as it likes. The 30 seconds of
`AuthTimeout` begin at `hello`; the deadline of a PIN covers all of the four
stages in `Waiting`. While one peer is served, a dial of another may give up
(`DialFails`), and that is no fault: `SomebodyIsServed` has to hold although it
happens, because the user tries again.

Keys are symbolic: `Derived` gives both ends the same key exactly when they used
the same secret. Timeouts have no clock: one may strike as soon as its wait has
begun. What a stranger does costs nothing; what an honest peer suffers (silence,
a timeout without cause, a lost connection, nobody accepting although the sender
is free) is one of `MaxFaults`. The variable `pin` says whether the sender was
started with a PIN, and so has a deadline; without one it waits until somebody is
authorized.

### PowerLoss

`PowerLoss` extends `ResumeStore`, whose variables are what processes see, by
what the disk has: `dino` for the files, `dtemp`, `dstage`, `dfinal` for the
directory. Every step of a process is a step of `ResumeStore`; where the code
calls `sync_data` or `sync_all` the step leaves in `due` what must be on the
disk before the process goes on (`SaveAndSync`, `ReadAndSync`, `StageAndSync`,
`RenameAndSync`), and `Sync` does one of them. The disk also follows in its own
time (`WriteBackUnit`, `WriteBackHeader`, `WriteBackTruncation`,
`WriteBackDir`). After `Outage` every process is gone, what the processes see
is what the disk had, and a file without an entry is empty and free.

Assumed of the file system, as of one with an ordered journal: changes to the
directory reach the disk together and in order, a truncation before the writes
that follow it, and a length never counts a unit that is not there. The last is
needed: `update_resume_metadata` and the check of `read_resume_metadata` know a
file's length only, and where a file may have its length before its data, a
resume goes on behind a hole. The header is free to arrive before or after the
data it counts; that is what the correction is for. Syncing the directory may
fail, and the code goes on as if it had not (`IgnoreSyncError`); `missed` are the
receivers to which that happened after their rename, and `DurableAtAck` is about
the others. The entry of a new temp file is synced by nobody until finalize, so
an outage may take all progress, which costs time only.

### PinCode and Pairing

`PinCode` is `pin.rs`: the weighted check character, lookalikes and separators,
`looks_like_pin` and `normalize_pin`. A character is its index in the alphabet.

The weights 1 to 9 and an alphabet of 32 do not catch every mistake. `Misread` is
any one character replaced by any other, `Exchanged` any two neighbours
exchanged, the check character among them. `Blind` names those that pass: at an
even position a character 16 away, at positions 4 and 8 also one 8 or 24 away, at
position 8 any multiple of 4, and the exchange of the last character with the check
character if they are 16 apart. `Slips` are the others, and `WeightsTell` says that
`Blind` is exact: no slip makes a PIN, and every mistake in `Blind` does.
`ReadAsShown(n)` is about every text of `n` characters that shows a PIN, with
separators anywhere and lookalikes for any of the digits.

`Pairing` is everything up to the connection with which `Session` begins. `now`
is the sender's clock, the receiver's is `skew` ahead. The sender is started in
one of the three modes of `send_file`; `shown` is when its user sees the code or
PIN and `due` its timer. The receiver's user types something (`Typings`, or the
code), and `rdue` is the receiver's timer.

| Actions | Code |
|---|---|
| `OpenEndpoint`, `ShowCode`, `ShowServerless`, `ReadClock`, `Advertise` | `send_file` up to the accept loop, `create_endpoint`, `generate_code` |
| `TakeStranger`, `RejectStranger`, `Expire` | the accept loop, which serves one connection at a time, under `timeout_at` |
| `AskAgain`, `EnterPin`, `EnterScrap`, `EnterCode`, `EnterServerless` | `prompt_pairing_input`, the dispatch in `run`, `validate_code_format`, `parse_code`, `decode` |
| `StartLookup`, `Hear`, `Take`, `LookupTimeout` | `candidate_keys`, and `lookup_pin_record` with its callback and channel |
| `EndpointReady`, `EndpointFails`, `Connect`, `GivesUp`, `NobodyThere` | `create_endpoint` and `connect` in `receive_internal` |
| `SenderStops`, `Tick` | the user; time |

A step that takes time has an upper bound (`Derive`, `Lookup`, `Ready`, `Hop`):
the clock does not pass the bound before the step is over, and the step may be
over at any time before it. `LOOKUP_TIMEOUT` and `ENDPOINT_READY_TIMEOUT` are
the code's; that a key derivation and a connection to a sender that accepts have
a bound is an assumption of `InTimeConnects`.

A stranger that the loop has taken holds it for some time (`taken`, then `held`),
and nothing bounds how long; `delayed` counts the time the receiver has dialled
meanwhile. Its connect gives up after `Dialing` of that (`GivesUp`), which is
iroh's to say and not the code's. So `InTimeConnects`, which is what the README's
"valid for 120 seconds" comes to for a receiver, promises that it is accepted
when its four steps and the time strangers held the sender while it dialled are
over before the 120 seconds, unless its connect gave up. What strangers did
before, and the sender's own derivation, do not count. What becomes of the
handshake is `Session`'s.

A record is a name and whether it decrypts: `Noise` has another name, `Garbled`
the name of a candidate and cannot be opened. `LookupFinds` counts one lifetime
from the sender's reading of its clock, not from the display, which comes up to
`Derive` later: a PIN typed in the last moments may be two buckets away, and the
code does not find it. It speaks of a record that was heard while the channel had
room: one that `try_send` drops because the channel is full of garbled ones is
lost until it is announced again, and the code may then report that there is no
sender. A beam code's TTL binds the receiver only; the sender goes on listening
after it, so `CodeWindow` is about what the receiver accepts.

## 4. The runs

| Run | Instance | Shows |
|---|---|---|
| `store_shared` | 2 concurrent receivers, sizes 2 and 1 | `OneWriter`, `PartialIsPrefix` |
| `store_serial` | 2 receivers in turn, sizes 3 and 2 in chunks of 2 | `TypeOK`, `FinalIntact`, `DeliveredAtAck`, `ProgressKept`, `OverwriteByConsent` |
| `transfer_shared` | 2 concurrent sessions, 1 fault, which may be an edit of a source | `SuccessIsDone`, `ImplementsStore` |
| `transfer_retry` | 2 sessions in turn, 1 fault, 1 edit of a source, window 2, fair | `TransferTypeOK`, `AckCountsBytes`, `KeepsPromise`, `RetryDelivers` |
| `session_peers` | 2 peers, 2 faults, with and without a PIN deadline, fair | `TypeOK`, `Agreement`, `RightSender`, `SomebodyIsServed`, `DeadlineEnds` |
| `power_loss` | 2 receivers in turn, 1 outage, any syncs of the directory failing, sizes 2 and 1 | `PowerTypeOK`, `DiskFinalWhole`, `DurableAtAck`, `DeliveredAtAck` |
| `pairing` | 2 PINs of three characters, all skews and phases, strangers in the accept loop, fair | `PairingTypeOK`, `SlipCaught`, `LookupFinds`, `InTimeConnects`, `CodeWindow`, `NobodyWaits` |

Runs that find a disagreement between the code and what its documents say:

| Run | Property violated | What happens |
|---|---|---|
| `store_torn` | `FinalIntact` | a stale temp file is closed, and so unlocked, before it is unlinked: another receiver locks it in between, and the path is free for a second temp file. Both reach finalize and share the unlocked staging path; one truncates it and the other renames the empty file |
| `store_create_race` | `TempComplete` | after `create_new` another receiver locks first; its data survives because the file is not truncated |
| `store_overwrite` | `OverwriteByConsent` | a file that appears during the transfer is replaced without a question (two receivers at once; in turn they keep to it) |
| `transfer_edited` | `ResumeVerified` | data of a source that changed is resumed under the old checksum: the partial file's content is never hashed |
| `session_expiry` | `ExpiresUnconnected` | the PIN deadline drops the intended receiver after it was accepted and sent the ready byte, before its handshake is over |

**Bounds.** Two receivers are what a race needs, and one after another what a
resume needs; the proofs remove the bound for the safety properties they cover.
A file of two or three units with chunks of one or two has a first chunk, a
last one that is shorter, and a header update between them (`MetaEvery = 2`
against 100 in the code). Two versions of different sizes make a stale temp file
longer or shorter than the wanted one. Two candidate names let a rename find a
place; with all names taken `ChooseRename` is not enabled, where the code has
997 more and a timestamp. One fault and two sessions: a failed attempt and its
repetition.

`power_loss` has one outage: what a second one finds is what the first left, a
disk and a memory that agree. Its two receivers are the one that is cut off and
the one that resumes, or the one that has acknowledged and the outage after it.
`session_peers` has the two peers of which one may be in the other's way, each
with any secret and claims, and a fault for each. `pairing` has a bucket of 4
ticks and starts at each of them, with skews of up to one bucket and one tick
either way, so that every number of boundaries from two back to two ahead lies
between the two clocks; `Derive`, `Lookup` and `Ready` take 0 or 1 each, `Hop` no
time, and a dial lasts 2 while a stranger is served (`Dialing`), so that strangers
can make the receiver late, or its dial fail, or neither. The TTL of 3 with an allowance of
1 has both boundaries within the 5 ticks (`Patience`) in which the user types. A
channel of 2 (`Cap`; 16 in the code) is full with one garbled record in front of
the sender's. An alphabet of 4 and two characters before the check character have
blind mistakes as well as slips; `Generated` are two PINs, one with a 0 and a 1
(which have lookalikes).

`store_torn` has two versions and no `--no-resume` (`TornSpec`), so that the Ctrl+C
handler does not unlink a temp file, and what the run shows is the discard of a stale
one.

**Symmetry** is used in the safety runs, on processes, which nothing orders; not
in the runs with fairness.

**Deadlock** is checked in every run: `Finished` and `AllOver` allow stuttering
only when every process has ended (in `Session`, every peer; whether the sender
may be left waiting is for its liveness properties to say). `Settled` of `Pairing` is the same: both
programs have ended, or one waits for a user who will not type any more or for
a receiver that never comes. In `PowerLoss` the disk catches up and then nothing
is left but what `Finished` allows.

**Fairness.** `FairSpec` of `Transfer` assumes that each end keeps running (each
is one task), that the user answers the prompt, and that a connection whose
other end is gone is noticed, which QUIC's idle timeout does. Nothing is assumed
of faults. `FairSpec` of `Session` assumes that the sender and every peer keep
running, that peers with a code use it, and that their users try again when
nobody accepted them; a peer that goes silent or withholds its stream need do
nothing. The 30-second timeout and the deadline of a PIN count as steps of the
sender. Without a PIN, a stranger that withholds the stream for good is the one
way out that `SomebodyIsServed` leaves; with one, `DeadlineEnds` has none.
`FairSpec` of `Pairing` assumes that both programs run and that time passes, and
that the loop of the lookup is faster than the network: it does not find a new
record each time it has taken one, so that again and again it empties its channel
and can look at the clock (`timeout_at` polls the channel first). Nothing is assumed
of the announcements, of strangers or of what the user types.

## 5. The proofs

`ResumeStoreProofs`, for any number of processes, names, versions and sizes,
with receivers concurrent or not, from the assumptions on the constants alone:

* `TypeCorrect`: `Spec => []TypeOK`. `Inv` adds that a process at a step that
  uses a handle has one.
* `ExclusiveWriter`: `Spec => []OneWriter`.
* `HeaderNeverAhead`: `Spec => []PartialIsPrefix`.

`OneWriter` is not inductive: it needs `Locked`, that whoever is between lock
and drop holds the lock of the inode it has open; two processes at one inode
would hold one lock. `PartialIsPrefix` needs `Progress`: `bytes_received` units
of the wanted version are in the file, and the header is at most that. Another
process cannot disturb this because writing takes the lock. `IInv` is the
conjunction; the lemmas `Shared...` show that each action keeps it, after
lemmas on `Written`, `Copied` and `ChunkAt`.

`ResumeStoreSerialProofs`, under `~Concurrent`:

* `FinalAlwaysWhole`: `~Concurrent => (Spec => []FinalIntact)`.
* `AckMeansDelivered`: `~Concurrent => (Spec => []DeliveredAtAck)`.
* `ProgressSurvives`: `~Concurrent => (Spec => ProgressKept)`.

The invariant `SInv` adds that at most one process is live, that inodes not yet
created are empty and nowhere (`Unborn`), that a temp file with a header is no
longer than its version (`TempFits`, so that finalize copies nothing extra),
that no inode is at two paths (`Unshared`), and what the staging file holds
while it is copied and renamed (`Staged`). `IInv` and `SInv` were checked with
TLC as invariants before they were proved.

That a step gives up no progress depends on what earlier steps saw: `PInv` adds
to `SInv` that whoever is about to delete a temp file has found another
version's header in it, that whoever creates one without `--no-resume` has found
none, that only `--no-resume` truncates, and that the Ctrl+C handler is armed
only once there is a header to keep (`Looked`); and that no inode is at two temp
paths (`TempsApart`).

Both invariants exist in two strengths, because a file may be edited while it is
sent: the lengths are then still those that were announced, the content is not.
`LInv(exact)` is `IInv`, and `CInv(exact)` is `SInv`, for lengths and, if `exact`,
for content; `AnySharedStep` and `AnySerialStep` prove both at once, for a
receiver that is given any chunk of the right length (`AnyNext`), and
`ExactIsIInv` and `ExactIsSInv` connect them.

`TransferProofs`, for any number of sessions, concurrent or not, any window, any
faults and any edits:

* `SessionsWellTyped`: `TransferSpec => []TransferTypeOK`.
* `SuccessMeansDone`: `TransferSpec => []SuccessIsDone`.
* `SessionsOneWriter`: `TransferSpec => []OneWriter`.
* `SessionsImplementStore`: `TransferSpec => ImplementsStore`, which speaks of the
  steps up to the first edit (`transfer_edited` shows what comes after it).
* `UneditedSessions`: `MaxEdits = 0 => (TransferSpec => Spec)`.

The receiver of `Transfer` writes what comes out of the stream, that of
`ResumeStore` the chunk that belongs at its position. They are the same because
of `Contiguous`: what is in flight is a chain of chunks that starts at what the
receiver has, and ends where the sender reads next. It needs `Asked`, that a
sender that has not read the offset will read the one the receiver is at, and
`Opening`, that nothing is in flight before. Lost and cut streams keep a prefix
of a chain. `HeadChunk` concludes. `Streams` does not care what the chunks hold;
`Genuine`, that every chunk in flight is of the version announced, does, and is
kept while nothing has been edited. So the invariant is `TransferInv`: `TInv(FALSE)`
always, and `TInv(TRUE)` while `edits` is 0. `SuccessMeansDone` is `Acked`, that an
ACK is in flight only after the receiver's last step. With `UneditedSessions` all
that was proved of `ResumeStore` holds of whole sessions whose files stay as they
are.

`DeliveryProofs`, for sessions that take turns:

* `SessionsDeliver`: `~Concurrent /\ OneEmpty => (TransferSpec => KeepsPromise)`,
  which speaks of the steps up to the first edit.
* `AcksCount`: `~Concurrent => (TransferSpec => []AckCountsBytes)`, edits or not.
* `NoOverwriteUnasked`: `~Concurrent => (Spec => OverwriteByConsent)`, of the
  receivers alone.

The lemma `StepKinds` sorts the steps of a receiver: unseen by `Delivery`, one of
the two choices at the prompt, or the rename, which needs `FreeName`: the chosen
place stays free until then; `NoOverwriteUnasked` is the same fact seen from the
file. `Delivers` maps each. `Undisturbed` (up to the first edit) and
`CountingSessions` (after it too, for lengths) say that the serial invariants
hold of sessions. The mapping shows what
version is at a place, and so needs `OneEmpty`: two versions of size 0 are the
same file, and the model may not call them two.

`SessionProofs`, for any number of peers, secrets, identities and faults:

* `TypeCorrect`: `Spec => []TypeOK`.
* `AgreementHolds`: `Spec => []Agreement`.
* `OnlyTheRightOnes`: `Spec => []RightSender`.

`Agreement` speaks of the moment the sender goes on; what makes it true is in the
streams before. The invariant says what each stream can contain: a confirmation
to the sender under the shared key only from a peer that has the secret and has
seen the sender's own confirmation (`Sealed`), any other, such as that of a bluff, only
under a key the sender does not have; a header only for the peer that is served.
A sender that checks a confirmation then knows the peer. `Sealed` survives the
end of the peer because only one that never had a connection starts over. The
lemmas take the actions one by one; `RejectStep` and `CloseFollows` deal with
all the ways back to `accept`.

`PinCodeProofs`, for every alphabet and length:

* `WeightsAreExact`: `WeightsTell`: one wrong character or two neighbours exchanged
  make another PIN exactly where `Blind` says so.
* `AcceptedAsShown`: `\A n \in Nat : ReadAsShown(n)`: a PIN is accepted, and as
  itself, however it is grouped and whichever of its digits are typed as O and I.

`CheckChar` and `Canonical` are recursive functions. That a function so defined
exists and that two of them agree is proved from `NatSetInduction`, which is the
well-foundedness of the naturals used on a set of numbers, as no theorem with an
operator for a parameter can be instantiated here. The rest is arithmetic: where
two texts agree both sums grow alike (`SameGrowth`), so a misreading at place k
changes the sum by k times the difference of the two characters (`ChangeSum`), an
exchange by that difference itself (`ExchangeSum`), and the check character stays
what it was exactly when the change is a multiple of `Base` (`SameRemainder`).
An exchange with the check character changes both sides (`CheckSwapped`). For
`AcceptedAsShown` the characters of the text that are not separators are counted
off against those of the PIN (`PlaceCounts`). The first attempt failed on
instances where a lookalike or the separator was itself a letter of the
alphabet; `CodeAssumption` excludes them, as `PIN_CHARSET` does.

`PairingProofs`, for every alphabet and length of the PIN, every bucket length,
timeout, channel capacity and difference of the clocks:

* `TypeCorrect`: `Spec => []PairingTypeOK`.
* `NeverMissesWhatItHeard`: `Spec => []LookupFinds`.
* `EarlyEnoughConnects`: `Spec => []InTimeConnects`.
* `TtlHolds`: `Spec => []CodeWindow`.
* `SlipsAreCaught`: `Spec => []SlipCaught`.

The invariant bounds the timer of each of the receiver's steps by the time the
PIN was entered and, while it dials, by what strangers have cost it
(`ReceiverInv`), so that who entered it early enough is done before the sender's
deadline, which counts from the display (`SenderInv`). For the lookup,
`BucketNear` says that the two buckets are neighbours, so that the sender's
record is a candidate, and `ChanInv` that from the moment it was heard the
channel holds a record that opens: what is skipped in front of it does not.
`SlipCaught` needs that what the receiver looks up is a PIN (`PinTyped`), and
then `WeightsAreExact`.

`PowerLossProofs`, for any number of outages; the first two for receivers that
take turns or run at the same time, the others for receivers that take turns:

* `PowerTypeCorrect`: `PowerSpec => []PowerTypeOK`.
* `PowerOneWriter`: `PowerSpec => []OneWriter`. `AnyInv`, the types, the handles
  and `Locked`, says nothing of contents, so that no step of the disk concerns
  it and an outage, which ends all that hold a lock, gives it back; `LockedStep`
  is for this the step lemma of the lock alone.
* `DiskAlwaysWhole`: `~Concurrent => (PowerSpec => []DiskFinalWhole)`.
* `AckIsDurable`: `~Concurrent => (PowerSpec => []DurableAtAck)`.
* `AckAfterOutage`: `~Concurrent => (PowerSpec => []DeliveredAtAck)`.

An outage breaks `PartialIsPrefix`, on which the proofs of `ResumeStore` rest: a
header may be on the disk without its data. So they are used for `View`, the
files with every header corrected, as the receiver that resumes will see them.
`S` is `ResumeStoreSerialProofs` with `View` for `ino`; `BusyInView` and
`QuietInView` show that each step is a step of `ResumeStore` there, and `S!SInv`
is kept by the lemmas that were already proved. `Files` is what `View` does not
show: from `control` on the header is a true one. The rest of `DInv` is how the
disk lags behind: a temp file on it is an earlier state of the file, or is about
to be truncated (`DiskFiles`, `Lags`); its directory is an earlier directory,
without the inodes nobody has created yet (`DiskDir`); what is at a final path,
in memory or on the disk, is on the disk as it is (`Published`); and which of
the syncs of finalize are over is seen from `pc` and `due` (`Waits`).
A receiver whose last sync of the directory failed has its content on the disk
all the same, only the entry may be missing (`IgnoreStep`); hence `missed` in
`Waits`, and nowhere else. `DirectoryStep` and `FileOnDiskStep` cover both a sync
and a write-back, and
`OutageStep` shows that what is left is again a state of `S!SInv`. `DInv` was
checked with TLC before it was proved.

Only model-checked is liveness (`RetryDelivers`, `SomebodyIsServed`,
`DeadlineEnds`, `NobodyWaits`), which is beyond the prover. Every safety property of a passing
run is the subject of a theorem.

## 6. Not modelled

* A file system whose lengths run ahead of its data. What a power loss does to
  the contents under concurrent receivers is not claimed: `WriteBackUnit` relies
  on a unit received again being the same, and what such receivers can destroy
  they destroy without an outage.
* xxHash64 and AES-GCM: no collisions, a message is what was sealed or an error.
* The byte layout of header, control signals and handshake messages, length
  limits, file name validation.
* A temp or staging name that coincides with another file's name (`x.beam-rs`
  stages at the temp path of `x`): one file name per directory is modelled.
* `--no-resume` is described as "don't save partial downloads", but a stream
  error leaves the temp file; only the Ctrl+C handler removes it. The model has
  the leftover, no property forbids it.
* Overwriting a file keeps no copy of it; a transfer that fails after the prompt
  leaves neither. This is visible in `ResumeStore`, and no document excludes it.
* The encodings of codes and records, their versions and field checks: text that
  is not the sender's code is one `EnterScrap`.
* Characters outside ASCII whose low byte is a letter of the alphabet, which
  `normalize_pin` takes: such a PIN has no sender and is not found.
* How long iroh's connect and its handshake with a peer that does not answer
  last: both may take any time. A sender without a PIN that a stranger holds in
  `open_bi` for good is not counted as a failure of the code's promise, since no
  document makes one; `SomebodyIsServed` names the exception.
* iroh itself, mDNS (announcements may come, be repeated, or never come), the
  path watcher, which only logs, the relay configuration, the installers.
