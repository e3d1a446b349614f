# r_delta in TLA+

r_delta synchronises single files and directories with a server over QUIC: it
sends compressed small files, content-defined deltas of large ones and encrypted
blobs, and resumes interrupted uploads. These modules model the parts of it
whose correctness depends on interleavings, faults, retries and boundaries.
`tlc -config X.cfg MCModule` checks a run; `tlapm XProofs.tla` checks proofs.

## The system

| component | state | operations | interacts with | hard behaviour |
|---|---|---|---|---|
| single-file sync (`handle_sync`, `handle_file_sync`, `handle_encrypted_file_sync`) | server: the file, `<name>.part`, `<name>.tmp`, descriptors, counters; client: mode, offset | handshake, full upload, resume, delta, encrypted upload, verification | chunker and delta on both sides; other server tasks only through the file system | crash or lost client at any step, resume of a stale `.part`, overlapping tasks of one name |
| directory sync (`handle_sync_dir`, `sync_single_file`, `handle_directory_sync`) | manifest, plan, up to 50 upload tasks, unaccepted streams, storage | manifest, plan, accept a file, receive its data, delete | manifest and diff for the plan; all other server tasks through `./server_storage` | data streams are bound to files by order alone; vanished files; order of uploads and deletions; stale plans of several clients |
| chunker (`chunker.rs`) | reader, buffer, offset, eof | `fill_buffer`, `next_chunk` | used for signatures and deltas on both sides | short reads, size boundaries; both sides must cut alike |
| delta and patch (`delta.rs`, `patch.rs`, `signature.rs`) | literal buffer, instructions, output | generate, optimise, apply | chunker below, sync above | order of literals and copies, buffer limit, merging of runs |
| manifest and diff (`manifest.rs`, `diff.rs`) | sorted entries, root hash | `generate`, `diff`, `diff_quick_check` | directory sync | files without checksum; scans that ignore files |
| encryption and keys (`crypto.rs`, `encryption.rs`, `pipeline.rs`) | key file, nonces | encrypt, decrypt, load or create the key | uploads with `--encrypt` | two creators of a key, truncated key file |
| protocol (`protocol.rs`, `network.rs`) | streams of a connection | framing, QUIC configuration | everything | idle timeout, lost connection |
| verification (`verify.rs`) | two readers | `verify_files` | command line | short reads |

What makes each correct: a sync that reports success has stored the user's file,
the stored file is always a whole one, and retries end in success (single-file
sync); verified files are stored under their own paths, an interrupted run
leaves old or new files only, deletions come last, and nobody waits for ever
(directory sync); chunks tile the file and do not depend on how reads are split
(chunker); the patch recreates the new file (delta and patch); equal files are
skipped and only those (manifest and diff); one key per user for ever (keys);
equality is reported exactly for equal files (verification).

## The modules

* **FileSync** models the sync of one name by any number of sessions. A session is a client
  process (`cl[s]`), its connection (`net[s]`: the requests, the answers, the data stream)
  and the server task that serves it (`sv[s]`). `dir` maps the three directory entries to
  inodes and `data` the inodes to contents, because a rename leaves the descriptor of
  another task on the inode it had opened. Contents are sequences of blocks, a block
  standing for a chunk. Each action is one run of code between two points where another task
  can interfere: `SrvHandshake` is the look at file and `.part` and the acknowledgement,
  `SrvOpenPart`, `SrvRecv`, `SrvRecvEnd`, `SrvRename`, `SrvVerify` are the full upload
  (`SrvRename` is also the rename of the other two kinds), `SrvSign`, `SrvPatchOpen`,
  `SrvPatch`, `SrvPatchEnd` the delta, `SrvEncrypted`, `SrvEncRecvEnd`, `SrvEncWrite` the
  encrypted upload. A `BufWriter` may hold back or spill what it was given (`Buffered`) and
  flushes when dropped (`Dropped`), a crash loses it. Faults: the client dies or loses its
  network (`ClDie`), the server crashes (`ServerCrash`), the user edits the file (`Edit`).
* **AtomicSync** is what a sync of one file promises: the stored file is replaced at
  once by the file of a client, and success comes after that, in the same run.
  FileSync implements it (`LooksAtomic`) when sessions do not overlap and the file does
  not change between a failed run and its retry.
* **Storage** composes FileSync with the deletions of directory syncs of other clients in
  the same storage. Their scans take `<name>.part` and `<name>.tmp` for files, and they delete
  these, or the file itself, some time later and by name (`SweepDelete`), whatever the
  sessions of FileSync are doing. The plan needs no variable: one may have been made ever
  since an entry of that name was there.
* **DirSync** models one run of `sync-dir`. A task is polled from one answer of the server
  to the next in one step, since all tasks are futures of one `buffer_unordered`: sending
  does not suspend them, for 50 small files are below QUIC's send window and 256 streams are
  allowed. `bis` and `unis` are the streams the server has not accepted, in the order they
  were opened; nothing but that order ties data to files, as in the code. `Received` says
  what becomes of a file when given data arrives for it; where a patch is expected, whatever
  is none fails the run: the code would go on to the next file if the bytes read as another
  protocol message (server main.rs:250), which file contents are taken never to do. Faults,
  by kind (`Faults`): a file of the manifest vanishes before its task starts or waits
  ("vanish"), or between the read of its size and of its bytes ("unsent"); a read fails in
  the middle of an upload and quinn ends the dropped stream as if it were complete ("cut");
  the server's scan fails and passes for an empty storage ("blind"); the client or the
  server dies, an answer is more than 50 ms late ("die", "crash"). `IdleTimeout` is QUIC's:
  neither side sends keep-alives.
* **TreeSync** models the same command one level up, for several clients and for trees with
  directories: `Scan` and `Hash` are two steps of `Manifest::generate` for each file, its
  size first and its checksum later, on the client and then on the server (`SrvScan`,
  `SrvHash`); `Decide` is `diff`; `PutDirs` and `Commit` are the two looks of an upload at
  the storage, `create_dir_all` before the data is received, and then `create_dir_all` again
  with `File::create` and the rename. So a directory that was removed while the data came in
  is made anew; only one that is removed between the last calls fails the upload (`goes`).
  `Delete` removes a file of the plan and its parent if that is empty then, after the client
  has been answered.
  Users edit their directories at any time, and other clients' runs interleave with each of
  these steps. Its files are small and not encrypted, and go one after another; DirSync has
  the other uploads and the streams. A killed client and the task that serves it fail in
  one step.
* **KeyStore** models the key file under any number of commands: those that load or create
  the default key, those with `--key`, `keygen`, and `decrypt-file`, which may create a key
  too but makes no blob. A step is one system call (`exists`, read, open with truncation,
  write), and a command may be killed between any two.
* **Chunker** models `fill_buffer` and `next_chunk`. The reader returns any number of bytes;
  the gear hash is a set of places `<<start of the chunk, end of the chunk>>`, as the
  code hashes bytes of the current chunk only.
* **DeltaPatch** models generation (`Scan`), the optimizer (`Optimize`) and application
  (`Apply`) over bytes; chunks of the new file are any pieces of it, so that the result
  holds for every chunker. A delta for the network skips the optimizer, as in the client.
* **Verify** models `verify_files`: two readers, each of which may return fewer bytes than
  its buffer holds. **RoundTrip** composes it with DeltaPatch: `delta`, `patch`, then `verify`
  of the output against the new file or the old one.
* **FileSyncProofs**, **StorageProofs**, **DirSyncProofs**, **TreeSyncProofs**,
  **ChunkerProofs**, **RoundTripProofs** (with DeltaPatch), **KeyStoreProofs** and
  **VerifyProofs** hold the theorems, **MC...** the instances for TLC.

Wrong versions of single actions stand before the actions they are a wrong version
of, with a comment that says what is wrong; no specification uses them. They serve to
see that a property notices such a bug.

## The runs

| run | question | result |
|---|---|---|
| FileSync_resume | one user, a file of three blocks, base or none, faults in any order: is success faithful, `.part` a prefix, the whole atomic, and do retries get the file through? | holds |
| Storage | edits, faults, a changing `--encrypt`, and directory syncs of others that delete the file, `.part` or `.tmp` at any time: is a success that resumed nothing faithful, does every run and every task end; is a stale `.part` all that keeps retries from success? | holds |
| FileSync_overlap | two tasks of one name: same branch, no aliasing, the file stays? | holds |
| FileSync_edited | is success faithful if the file is edited before the resume? | violated: a mixture is stored and reported as success |
| FileSync_late | is the stored file whole when a retry overtakes the task of the killed client before it? | violated: both tasks write one `.part`, and the retry appends to it after its rename |
| Chunker | tiling, bounds, independence of reads, termination | holds |
| RoundTrip | is the new file recreated, and does `verify` say so; does it call equal only what is, and give the first difference unless a read fell short? | holds |
| DirSync_uniform | only small or only large files, plain, up to two faults: verified is stored, old or new, mirrored, deletions last, no file fails without a fault | holds |
| DirSync_ends | mixed files, both modes, a hidden path, any one fault: do both sides end; does nobody wait for the idle timeout without a fault? | holds |
| DirSync_mixed | small and large together: is what is verified stored? | violated: data streams are mispaired |
| TreeSync | two clients, one storage, one edit, kill or crash: does an undisturbed run mirror its tree and plan exactly; do files that all users have stay, and arrive in the end? | holds |
| KeyStore | three commands, up to two killed: does the key in the file decrypt every blob unless two commands raced to create it; was every used key saved; is a torn file always being written, or left by a death? | holds |

The violated runs are disagreements between the code and the documentation quoted in
PROJECT.json under "findings". The same properties fail in more configurations, which
have no run of their own.

FileSync_late checks `RetrySpec`, in which a client starts beside another session only if that
has failed and has left a `.part` that is not empty: of the ways two tasks of one name can
meet, the retry is the one that README.md:290 speaks of. In its counterexample client 1 is
killed after its data has arrived; its task holds block `b` in the `BufWriter`, and `.part` is
`<<a>>`. The retry's handshake takes 1 for the offset to resume at. The old task flushes
`b`; the retry's task opens the `.part`, now complete, to append; the old task renames
it over the file; the retry's task appends `b` to the inode it has open, which is the stored
file: `<<a, b, b>>`.

Single-file sync:

* `RetriesSucceed` of FileSync_resume with `Versions = {<<a, b>>, <<c>>}`: when the file has
  become shorter than the `.part` of a failed upload, every later upload fails the size check
  (server main.rs:583) and the `.part` stays;
* `RetriesSucceed` of FileSync_resume with `Modes = {TRUE}`: when a crash leaves the blob in
  `.part`, the retry counts from its length (server main.rs:713), while the client seeks to
  it in the plaintext and announces the size of the rest, encrypted anew: no retry passes
  the size check, against README.md:15 ("for both encrypted and unencrypted files"). These two
  are all that can block retries, as `OnlyStalePartsBlock` says, which Storage checks;
* `StoredIsComplete` of FileSync_late with `Spec` and no fault: two live clients both resume at
  0, and `File::create` of the second (server main.rs:559) truncates the `.part` that the task
  of the first has completed and then renames over the file;
* `StoredIsComplete` of FileSync_late with `Versions = {<<a, b>>, <<c, d>>}`,
  `Bases = {<<d, b>>}`, `Spec` and no fault: two delta syncs of one name write the same `.tmp`,
  and a mixture is renamed over the file;
* `SuccessIsFaithful` in Storage: a sweep that deletes the `.part` of a resumed upload between
  its handshake and the open leaves the tail alone, which is counted as the whole, renamed
  over the file and reported as a success.

Directory sync:

* `Mirrors` without its last alternative, `Sends(plan) = {}`, for a directory in which nothing
  is new or modified: the server returns before the deletion loop when it has no file to
  receive (server main.rs:200), while the client prints that the server will delete;
  README.md:27 promises the deletion;
* `NoSpuriousErrors` of DirSync_uniform with `Modes = {TRUE}`: for an encrypted small file the
  server ends the stream without the result the client waits for;
* `NoSpuriousErrors` with `Hidden = {p2}`: a stored file that the server's scan passes over is
  planned as SendFull, and the upload meets a server that expects a patch;
* `VerifiedIsStored` with `Faults = {"unsent"}`: the request of a small file that is gone takes
  the data stream of the next one;
* `Mirrored` of TreeSync without `alone`: a stale plan of one client deletes what another has
  uploaded after it was made;
* `Mirrored` of TreeSync when `Nodes` lets a path change its kind, and `SharedArrive` when the
  storage starts with a file where the clients have a directory: such a file is not in the
  plan to delete, and fails every upload below it; a directory, even an empty one that a
  deletion left behind, fails every upload of a file of its name;
* empty files have no checksum and the server does not keep times, so they are sent again
  by every run: `PlanIsExact` speaks of the others.

### Bounds

Two or three blocks are enough for a `.part` that is empty, a proper prefix, complete or too
long, and for a delta that mixes COPY and LITERAL. Two sessions are enough for every pair of
tasks to meet; a retry that overtakes the task before it is the second. Seven inodes are
never exhausted with one session or two (three entries and two descriptors per task); with
one session four suffice where no action is ever short of one, and a shortage would be a
deadlock, which these runs check. `MaxFaults` counts faults and edits together: two or more
allow a fault during the retry of a faulty run. Overlapping sessions are checked with
shorter files for the size of the state space, and up to a permutation of the sessions
(`SameSessions`), which no definition tells apart. Chunker: files of a few bytes against
`MinSize`, `MaxSize` and reads of one to four bytes cover rests shorter than each bound and
cuts at every place. DeltaPatch: four bytes over an alphabet of two give repeated chunks,
chunks of two lengths, literals at the limit and runs of three copies. DirSync: three paths
with two tasks at a time make a task wait for its turn, a plan send, skip and delete, and
streams overtake each other; two faults are enough for an upload to fail and the run then to
be killed, and the protocol has no retry.

RoundTrip: with a buffer of two bytes, files of four take two reads and can be split
unevenly. Storage: one session; with three faults a resumed upload can be interrupted, lose its
`.part` to a deletion and be interrupted again, or all three entries be deleted; five inodes
are three entries and two descriptors. TreeSync: a directory that
holds a file and a directory with a file is the least tree in which removing an empty
parent matters at two depths; two clients whose trees differ in one file make one run plan
the deletion of what the other uploads; one fault. KeyStore: a third command starts after
the race of two is decided; three keys are one for each, and two deaths leave one of them
alive.

### Fairness

`FairSpec` of FileSync asks that a ready client or server task is polled and that a user
whose sync failed tries again; that of DirSync that both runtimes poll what is ready and
that the idle timer expires; that of Storage is the first and forces no
deletion; that of TreeSync adds that users sync again and again. Faults, edits, crashes and
the failure of a read are never forced. Weak fairness is what an executor that keeps polling
woken tasks provides. Under TreeSync a scan of the storage may fail again and again, since
the runs of others may remove what it meets; the files all users share arrive all the same,
because a failed scan makes the plan send everything and a run that has nothing to send
deletes nothing.

### What the properties exempt

Some properties that hold would not hold of everything that can happen, and say so in their
statement. `FreshSuccessIsFaithful` speaks of runs that resumed nothing. `Recoverable`
exempts two commands that race to create the key, of which one loses its key; `UsedWasSaved`
holds of them too. `OldOrNew` exempts the path whose upload was cut short, and shows that no
other is harmed. `Mirrors` exempts the deletions that a plan missed, or that the server
skips as it has nothing to receive. `Mirrored` and `PlanIsExact` are about runs that are
undisturbed, by edits or by other clients; since they hold from every storage that other
runs leave, they show that the next undisturbed
run with something to send repairs it. `SharedStay` and
`SharedArrive` hold with all disturbances, for the files that all users have. `DifferIsReal`
and `RecreatedVerifies` exempt short reads; `EqualIsEqual` does not. `NoSpuriousErrors` is
checked for plain runs and storages without hidden files, and the list above says what
happens in others. Under "hazards", PROJECT.json lists the ones that a property meets, and
notes what is left.

## The proofs

The theorems hold for all values of the constants that satisfy the modules' assumptions, so
for any number of files, sessions, clients, blocks, faults and any bound. Every safety
property of a passing run is stated by one. Where a theorem has a hypothesis, it is a
definition of its module (`OneUser`, `OneSession`, `Uniform`, `KindsFixed`), and the runs above
show what fails without it. Each invariant below was checked by TLC before it was proved.

### Single files

`FileSyncProofs`, for any number of overlapping sessions:

* `TypeCorrect`: `Spec => []TypeOK`, action by action, on lemmas about `WriteAt`, `Written`,
  `Dropped`, `Kept`, `Opened` and `Buffered`.
* `BranchesCorrect`: `Spec => []BranchesAgree`. `BranchesAgree` is not inductive: it says
  what lies in the data stream, not that the client cannot still add something else to it.
  The inductive invariant adds `Lockstep`, which says for every place of the client and the
  server what the other may be doing and what is in flight between them.
* `EntriesDistinct`: `Spec => []NoAlias`; inductive, since `Opened` takes an unused inode for a
  new entry and `rename` moves one.
* `FileNeverVanishes`: `Spec => FileStays`, an action property: no step removes the file's
  entry.

For one user who neither edits the file nor encrypts it (`OneUser`), through any number of
crashes, lost clients and resumed retries:

* `PartKeepsPrefix` (`PartIsPrefix`) and `SuccessFaithful` (`SuccessIsFaithful`). The inductive
  invariant `SoloInv` says for every place of the task what the output and the data stream
  add up to: in an upload the `.part`, what the `BufWriter` holds back and what is in
  the stream make the file (`Uploads`), in a delta the `.tmp`, the buffer and the instructions
  applied to the stored file do (`Patches`); so what is renamed is the file (`Commits`), and
  what a failure leaves is a prefix of it (`Leftover`). That a `BufWriter` keeps this sum,
  whatever it spills, is the lemma `BufferedAppends`.
* `SyncLooksAtomic`: `Spec => LooksAtomic`, the refinement of AtomicSync step by step. The
  rename is its `Put`, `ClVerified` its `Report`, whatever ends a task without a result its
  `Abort`; all other steps stutter.

Without `OneUser` these three are false, as FileSync_edited, FileSync_late and the list above
show.

`StorageProofs` adds the deletions of directory syncs. `BranchesCorrectSwept`,
`EntriesDistinctSwept` and `TypeCorrectSwept` state the first three for `StorageSpec`, since
a deletion changes no session and frees an inode only when nobody has it open.
`FreshFaithful` (`FreshSuccessIsFaithful`) is for one session (`OneSession`), but with
edits, both modes and deletions at any time: a success of a run that resumed nothing means
that the server has computed the checksum of the file, or of its blob. The invariant
`FreshInv` says that as long as a run has skipped nothing and its file is unedited, it is
`Whole`: a deletion can take the name of its output away, and then the rename fails, but the
inode it writes keeps adding up to the file.

### Directories

`DirSyncProofs` proves `DirTypes` (`TypeOK`) for all directories, modes and faults, on the
invariant `Turns`: no task is served that has not started. The others are for plain runs
over files that are all small or all large, in which no small file vanishes between the two
reads of it (`Uniform`): `VerifiedStored` (`VerifiedIsStored`), `OldOrNewStored`
(`OldOrNew`), `DirMirrors` (`Mirrors`), the action property `DeletesComeLast`
(`DeletesLast`) and, if the server's scan passes over nothing (`Hidden = {}`),
`NothingFailsUnprovoked` (`NoSpuriousErrors`) and `NeverMutualWait` (`NoMutualWait`).
Nothing in the code ties a data stream to a request but the order in which streams are
opened; the invariant `DirInv` says why that is enough here. For small files the k-th stream
of data belongs to the k-th open request (`Paired`), failed tasks included; for large ones a
data stream exists only while its task is served, and fits the answers that the task was
given (`OneByOne`, `Talk`). `Counted` says that the server expects as many files as are not
settled, so that it begins to delete exactly when all are. `FaultFree` says that every
planned task is then still queued or has begun, from which it follows that someone can go
on.

`TreeSyncProofs` proves `TreeTypes` (`TypeOK`: the trees stay trees) and the action property
`SharedFilesStay` (`SharedStay`) for all trees and any number of clients. The invariant
`SharedInv` says that every manifest, as far as its scan has come, lists the files all users
share and the directories these are in, so that no plan deletes them, however old it is when it
is carried out. `TreeMirrored` (`Mirrored`) and `PlansExact` (`PlanIsExact`) are for paths that
are never a file in one tree and a directory in another (`KindsFixed`). Their invariant
`MirrorInv` says that while a run is alone nobody else is busy, that then the
entries scanned so far are exact, on both sides (`Recorded`), and that what the plan has not yet
carried out is the only difference left (`Uploading`, `Synced`). `Above` is recursive; what the
proofs use of it is its equation, which is derived, and induction on paths (`PathInduction`).

### Algorithms and keys

`ChunkerProofs` proves `ChunksTile`, `ChunksContentDefined` and `ChunkSizes` for every file,
size bound and split of the reads. The inductive invariant adds that `fetched` is at most
the size of the file, and equal to it once `eof` is set: then what is looked at when a chunk
is cut is the same as if the whole rest of the file were in the buffer.

`RoundTripProofs` proves, for all files, chunkings, literal limits and merge limits, with
and without the optimizer, `PatchRecreates` (`Recreated`), `PatchWritesInOrder`
(`PrefixApplied`), `LiteralsStayBounded` (`LiteralsBounded`), `DeltaTypes` (`TypeOK`) and
`PatchedVerifies` (`RecreatedVerifies`). The invariant `DeltaInv` is about cuts of the new
file: a sequence of instructions has one if its k-th instruction writes what lies between
the cuts k - 1 and k. Scanning adds an instruction and a cut at the end; the optimizer
replaces a run of copies by one and drops the cuts between them (`Optimizing` relates the
cuts of both sequences); applying goes from cut to cut. Since chunks are any pieces of the
new file, this covers the chunker.

`KeyStoreProofs` proves, for any number of commands, keys and deaths, `KeyTypes`,
`BlobsRecoverable` (`Recoverable`), `KeysSavedBeforeUse` (`UsedWasSaved`) and `OnlyCrashesTear`
(`TornIsTransient`). None of them is inductive: the invariant adds `OneCreator`, which says that
without a race the file goes from absent, with at most one command about to create it, to
torn, with nobody but its writer, to the one key that all others then use.

`VerifyProofs` proves `ReportedEqualAreEqual` (`EqualIsEqual`) and `ReportedDifferencesAreReal`
(`DifferIsReal`) for files and buffers of any size. The invariant adds that the bytes before
`offset` are equal and that the sizes are, so that reads which do not fall short return the
same number of bytes.

Where a proof needs induction over numbers (the runs of the optimizer, the paths of a tree), it
takes the least counterexample (`LeastNumber`, from the library's `WFMin`).

### Assumed, and only model-checked

Besides the types of the constants the modules assume: that buffers and limits are positive,
in Chunker with MinSize < MaxSize; in DeltaPatch that the chunks of the signature lie in the
old file and that a run takes at least two copies (`MinMerge`); in TreeSync that a path
comes after its directory in the order of the scan, that there is one content of length 0,
and that a manifest's entry for a file is neither `Absent` nor `Dir`. Checksums are
contents: two files with one BLAKE3 hash are not considered.

Only model-checked are all liveness properties, since fairness and `ENABLED` are beyond the
prover: `RetriesSucceed`, `OnlyStalePartsBlock`, `EverySyncEnds`, `EveryTaskEnds`, `Ends`,
`DirEnds` and `SharedArrive`; `NoMutualWait` for directories that mix small and large files,
encrypted runs and hidden paths, which DirSync_ends checks; and whatever else the runs check
outside the hypotheses that the theorems above name, such as encrypted directory syncs.

## Not modelled

Framing and binary formats; the ignore rules of the directory walker, whose effect is the
constant `Hidden`; failures of the server's disk; `handle_compressed_file_sync` as first
message, which no client of the repository sends; `ensure_key_exists`, `diff_quick_check`,
`filter_sync_plan` and the root hash of a manifest, which only tests use; the command line,
reports and statistics; the benchmark. Encryption is a tagged copy of the content: two
encryptions of one content are not told apart. In TreeSync files are small and plain and
`.tmp` files do not appear as entries, though a scan may fail on one (`SrvScanLoses`); that a
plan deletes them is in Storage. Nobody writes to a file while `verify` or `patch` reads it.

## Plan

1. Done: FileSync with AtomicSync, Chunker, DirSync, DeltaPatch; then Storage, TreeSync,
   KeyStore, Verify and RoundTrip, the faults of DirSync, and the proofs above.
2. Proofs: `NoMutualWait` for mixed and encrypted runs; in encrypted runs also
   `VerifiedIsStored` and `OldOrNew`; `LooksAtomic` with encryption as long as nothing is
   resumed; `FreshSuccessIsFaithful` for sessions that do not overlap.
3. Modules: the framing of messages and patches (truncation at any byte), and an abstract
   specification of the directory sync that TreeSync implements.
