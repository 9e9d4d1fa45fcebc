# open-dbi in TLA+

Specifications, model-checking runs and proofs for open-dbi, a title installer
for the Nintendo Switch: it reads an NSP container from the SD card or over
USB, writes the contents to a storage, imports tickets, sets the content meta
and pushes the application record. Paths below are relative to
`open-dbi/source/` unless they start with `docs/`.

- [The system](#the-system)
- [Modules](#modules)
- [Runs](#runs)
- [What the runs found](#what-the-runs-found)
- [Bounds](#bounds)
- [Fairness and deadlock](#fairness-and-deadlock)
- [Proofs](#proofs)
- [Not modelled](#not-modelled)
- [Plan](#plan)

## The system

One homebrew process with one thread. `main.cpp` polls the pad and calls a
handler per key; the handlers use the parts below. What is concurrent with that
thread is outside of it: the host PC across the USB cable, the console's
services (ncm, es, ns, usb:ds), the SD card, and the end of the process, which
may come anywhere. What outlives the process is on the console's storage and on
the card.

| Component | State | Operations | Talks to | What is hard |
|---|---|---|---|---|
| installer (`install/installer.*`) | locals of `installNsp`, phase, `InstallResult` | parse, open, content loop (generate, create, stream or reconstruct, register), ticket loop, meta loop, commit, close | backend, source, pfs0, ncz, nca | failure at each of ten kinds of call; crash; a second install over what a first one left |
| ncm backend (`install/ncm_backend.*`) | `cs_`, `db_`, `open_`, `metaId_`… | open, the placeholder and content calls, setContentMeta, commit, closeStorage | ncm, es, ns | three opens and one flag; a commit that takes everything staged; a record key that may be unset |
| dry run (`install/dry_run.*`) | `DryRunResult`, `anyRightsId` | two passes and a summary | source, pfs0, nca | goes on past what it cannot read; must announce what an install does |
| console program (`main.cpp`) | `g_lastOp`, the frame's keys | one handler per key, the debug report | everything | early returns in the middle of acquired resources; handlers that follow each other in one frame |
| debug report (`install/report.*`) | the report file | snapshot to the log, copy of the log | log | any open or write is refused; crash in the middle of the copy |
| log (`log/log.*`) | the log file, a line buffer | init, line | SD card | the end of the buffer; a card that refuses |
| ncz reconstruction (`crypto/ncz.*`) | `acc`, `ncaOff`, `secIdx`, decoder | table, header, read / decompress / flush | source, zstd, sink | reads, decoder outputs, AES blocks and section edges that do not line up |
| usb transport (`usb/usbds_transport.*`) | endpoints, bounce buffer, URBs and completion event | init, waitConfigured, read, write, exit | usb:ds, host | a transfer cancelled while it completes; an event left signalled |
| dbi0 client (`usb/dbi0_client.*`, `proto/dbi0.h`) | the call it is in | listFiles, fileRange, sendExit, `Dbi0FileSource` | transport, host | two peers in lock-step over a transport that may lose a message |
| container formats (`fs/*.h`, `install/meta_builder.*`) | the directory | `Pfs0::open`, CNMT parsing, `buildNcmMeta` | source | offsets and counts at their limits |
| content sources (`io/*.h`) | file handle | `readAt` | SD card | short and empty reads |
| nca crypto (`crypto/nca.*`) | none that lasts | header decryption, CNMT extraction | source, keyset, aes | a missing key that nobody notices; a range outside of its section |
| keyset (`crypto/keyset.*`) | the keys | `parse`, `load` | SD card | lines that are cut or give a key twice |
| aes (`crypto/aes.*`) | none | block, counter and sector ciphers | – | arithmetic |
| config, save backup | none that lasts | called by the self test only | SD card | parsing |

What makes each of them correct:

- *installer and backend*: nothing becomes visible to the console before what
  it needs is there, over any sequence of installs that fail, crash and are
  tried again (`MetaBacked`, `RecordBacked`, `StoreSpec`); the bytes are the
  source's (`RegisteredIntact`); a meta says what its CNMT says, in number and
  in kind (`MetaTellsTheCnmt`, `MetaCountsContents`); the result and the failed phase tell the truth
  (`OkMeansInstalled`, `FailureNamesStep`); what a failure leaves behind is
  bounded (`ResidueBounded`); an install ends (`AttemptEnds`).
- *dry run*: what it announces is what an install of the file does (`PlanKept`,
  `MetaAnnounced`), also where the two read a CNMT with code of their own
  (`ReadersAgree`), and it warns when and only when it should
  (`WarnsOfMissingTicket`, `WarningIsTrue`).
- *ncz*: the output is the original NCA, key and counter included, whatever the
  cutting (`Faithful`, `WholeUnlessCut`), inside the size the placeholder has
  (`NeverPastTable`), in ascending writes (`SinkSpec`), in bounded memory
  (`AccBounded`), and it ends (`Ends`).
- *usb*: no byte of one request is taken for another's (`RangeIntact`), a short
  range or a standstill has a cause (`ShortMeansFault`,
  `BlockedMeansReadFailed`, `BothReadingMeansFault`), the bounce buffer is
  not written over but after a timeout (`WriteUndisturbed`), a session ends
  (`SessionEnds`).
- *install over USB*: the session is as good a source as a file
  (`InstallSpec`), a content that is registered cut short has a fault of the
  cable or the file behind it (`CutMeansFault`), and both ends reach their end
  (`UsbInstallEnds`).
- *program, report and log*: usb:ds is given back on every path
  (`UsbReleased`), a report is of one launch and has its lines in order (`ReportCoherent`),
  wherever a crash cuts it, and a line is whole (`LinesWhole`).

`PROJECT.json` lists the hazards behind these at the line where each one bites.

## Modules

```
Keyset   Cnmt
    └─ Nca ─┘                      keys, a CNMT and its two readers, an NCA
        │
    Container ── TitleStore        what an install promises
        │            ▲ refines
        ├────── Installer ──────── InstallerProofs (over FormatProofs) ── OutcomeProofs
        │          │     ▲ refines                                        │       │
        │          │  UsbInstall ─────────────── UsbInstallProofs ────────┘       │
        └── DryRun ── Rehearsal ──────────────── RehearsalProofs ─────────────────┘
PrefixWriter                       what a placeholder writer promises
    ▲ refines
   Ncz ── NczProofs
UsbDs ── Dbi0 ── UsbInstall        transport; client and host over it
          └───── Dbi0Proofs ──── UsbInstallProofs
Log ── App ── AppProofs            log file; program, report, usb:ds references
```

**Keyset** — `Keyset::parse` as what each line does to the set. A line is a
name, a generation, a value and whether it is cut; `hexDecode` writes straight
into the key, so a cut line spoils what an earlier one gave, and only a whole
one counts (`HexDecode`, `ReadLine`). A key's bytes are abstracted to "zero",
"right" or "wrong". `Keysets` is what the handlers let through
(`load(...) > 0 && has_header_key`), and no keys.

**Cnmt** — a `PackagedContentMeta` as its length, the counts in its header and
the records that are really there, in units of 8 bytes so that the offsets of
both readers are exact: `WholeRecords` is `Cnmt::parse`, which stops at the
first record that is not whole, `Builds` is the one check of `buildNcmMeta`, and
`BuildNcmMeta` its blob: key, 16-bit content count (modulo `CountValues`) and
content infos, the Meta NCA's own first.

**Nca** — `ncaParseHeader` with its choice of key table and generation,
`ncaDecryptSection`, and `ncaExtractCnmt`, which looks for the first file with
`.cnmt` in its name and brings zeroes for one that does not lie in the section
(`ZeroFilled`). Decrypting with the wrong key brings bytes with no magic in
them: that a wrong key gives a valid `NCA3` or `PFS0` by chance is left out.

**Container** — an NSP after `fs::Pfs0` has read its directory: a sequence of
entries with the kind of the name's ending, the content id the name spells, a
size, a rights id, and the NCA it holds. `IsContent` covers `.cnmt.nca` as
`endsWith(".nca")` does, `IsMeta` covers a bare `.cnmt` as the meta loop does.
`NcmMeta` is the meta that a Meta NCA sets, `HasMeta` that it can be built.

**Installer** — `installNsp` over `NcmBackend`. `pc` is the place in
`installNsp`; `i`, `cur`, `written`, `phase` and `result` are its locals;
`handles`, `ncmRefs` and `metaKey` are the backend's members;
`placeholders`, `content`, `staged`, `committed`, `tickets` and `records` are
the services' state and outlive a crash. There is one action per backend call,
since each may fail and the process may die between any two:

| Action | Code |
|---|---|
| `Start` | a handler builds a new backend, installer and result |
| `ParseContainer`, `OpenStorage` | `pfs.open`, `NcmBackend::open` with the reference that a failed second or third open does not return |
| `NextNca`, `GeneratePlaceHolderId`, `CreatePlaceHolder` | the head of the content loop |
| `StreamChunk`, `ReconstructNcz` | `streamIntoPlaceHolder`, `nczReconstruct` as its caller sees it |
| `RegisterContent`, `ImportTicket`, `SetContentMeta` | the rest of the three loops |
| `Commit`, `PushApplicationRecord` | `NcmBackend::commit`, in two because the process may die in between and the second one's failure is ignored |
| `Finish`, `Fail`, `Crash` | return, the `fail` label with `closeStorage`, death of the process |

Four history variables count attempts and losses and remember what the attempt
found in the database (`found`) and which phases it began (`begun`). `Begin(p)`
goes with the operations of a phase, whatever the code has noted; `Note(p)` is
the code's own `note`, at the code's own place: that of commit comes behind the
meta loop and in front of the call. `FailureNamesStep` compares the two.

The services are external. What the model takes of them is what the code
relies on and no more: ncm hands out unused placeholder ids, registering moves
a placeholder to its content id, a commit makes permanent all that is staged,
and what is staged when a session closes may stay or go (both are explored).

**TitleStore** — the abstract promise: contents are laid, then tickets
granted, then metas published, only metas whose own container is in place, and
nothing is taken back. `Installer!StoreSpec` is the refinement, with
`laid <- {c.cid : c \in content}`, `granted <- tickets`,
`published <- committed`.

**DryRun**, **Rehearsal** — `dryRunInstall` (classification pass, meta pass,
summary), where any read may come short and any header may not open with the
keys at hand; and the tester's sequence of
`docs/TEST-MATRIX.md`, a dry run of a file followed by installs of it. The two
components share the file and the keys and nothing else, which is the point:
they find the meta, count the contents and judge the tickets each with code of
their own.

**Ncz**, **PrefixWriter** — `nczReconstruct`. A written unit is a record of the
body unit it stands for, the section whose key encrypts it, and its place in
the key stream, so that a counter which starts in the wrong block or a run that
crosses a section edge shows. `Decompress` is the contract of
`ZSTD_decompressStream`: it consumes all its input and gives all it can, or it
fills its output and keeps back at most `Pending`. `PrefixWriter` is the
`NcaWriteSink` contract, "sequential, ascending".

**UsbDs** — `postChunk`: URBs posted and not completed, the completion event,
the wait with its limit, the cancel that may leave the event signalled, and the
two calls of usb:ds that may fail: posting a transfer (`PostFails`) and, with the
event already cleared and the message gone, asking for its report (`ReportFails`).
`failures` counts both.
Reads and writes share one bounce buffer, so a message that completes a URB left
posted may land on what a write has put there (`page`), before or after the
host has read it.
**Dbi0** — the client's steps message by message over `UsbDs`, and a host. The
host program is not in the repository; it is modelled from `docs/PROTOCOL.md`
and from the order of messages the client expects. It never reads while it
sends, may meet a USB error at any time and start again at the head of its
loop. Messages carry the number of their call for the properties only; the
client's steps do not look at it, as the wire has no such field.

**UsbInstall** — `usbInstall` after the keys are loaded: LIST, one install by
`Installer` whose reads are FILE_RANGE calls of the session of `Dbi0`, EXIT.
`Wants` is the read that the step `installNsp` stands at makes, with its offset
in the file; `Ask` hands it to the client, and `Use` takes what came: a
directory, a ticket or a Meta NCA must be whole, a part of an NCA may be short.
The bytes written are those the session brought, mapped back to units of the
entry, a foreign one to no unit at all. `InstallSpec` says that every step is
one of `Installer` or invisible to it, which is what makes the nondeterministic
reads of `Installer`, and all that is proved over them, speak of USB too. Where
the directory of a container puts its entries is a constant (`EntryOffsets`):
nothing depends on the layout.

**Log**, **App** — the line buffer cell by cell at its limit, the log file as a
sequence of what each line left in it; and the program: `Launch`, `Poll` (what
went down and whether L and R were held, read once, as the set of keys whose
handlers are still to run, taken in `main`'s order `Place`), one step per place where
a handler can return early, `g_lastOp`, the references on usb:ds, and the report:
opening it empties the one before, its header tells `g_lastOp`, the log is copied
behind it piece by piece (a piece is a line), and it is closed; the program may
die between any two of these steps and leaves what there is. A line of the log
carries the launch and the operation it is of, for the properties only. `lost`
says that the card refused a line of the log, `report.lost` that it refused one of
the log or of the report.

**MCContainers, MCInstaller, MCRehearsal, MCUsbInstall, MCNcz, MCApp** give the
constants values. The modules in `Proofs` hold the theorems, see
[Proofs](#proofs).

Some definitions come with a second form just before them (`MoreWrittenThanSize`
before `AllWritten`): a version with a plausible mistake, which no specification
uses. Put in place of the right one it must make TLC find the property listed
with it in `PROJECT.json` violated; this is how each property is known to be
able to fail.

## Runs

`tlc -workers 2 -config <cfg> <module>` in this directory.

| Run | States | What it asks and shows |
|---|---|---|
| `Installs` (MCInstaller) | 515 k | Two installs of nine containers, any call failing, a crash at any step. All invariants of `Installer`, the refinement of `TitleStore` and the end of every install hold. |
| `Rehearsals` (MCRehearsal) | 847 k | A dry run and up to two installs of one of fifteen containers with one of five key files. What was announced is done. |
| `NczStreams` (MCNcz) | 5.3 k | Three tables, bodies of 0 to 16 units, every cutting. |
| `UsbSession` (Dbi0) | 514 k | Three calls, two timeouts, one failed usb:ds call (post or report), one host restart. |
| `UsbInstalls` (MCUsbInstall) | 69 k | One install of three containers over a session with two timeouts and one failed usb:ds call. It is an install of `Installer`; what it cuts short has a cause; it ends. |
| `Launches` (MCApp) | 5.3 M | Two launches, three operations, a crash at any step, opens and writes that the card refuses. |

Four things these runs say beyond "holds":

- `ResidueBounded` is `placeholders + ncmRefs <= lost`. An attempt that fails or
  crashes leaves at most one orphan placeholder *or* one ncm reference.
  `docs/MILESTONES.md` (M4) names the missing rollback; the run puts a number
  on it.
- `RangeIntact` allows one foreign thing in a range: after a host restart
  between its RESPONSE and the client's ACK, a host that dispatches by id alone
  answers that ACK with a header, which the client takes for payload, because
  it checks the id of a header and never its type. Without a restart no message
  is ever taken for another, timeouts, failed posts and lost reports included.
- `MetaTellsTheCnmt` and `MetaCountsContents` each have one exception, and both
  are reachable. A CNMT outside of its section comes as zeroes, passes for a
  CNMT, and a meta of the zero key is set. A CNMT of 65535 contents gives a
  meta whose header counts none.
- `WriteUndisturbed`: that a late message lands in the buffer of a write takes a
  timed-out read before it. What the host then reads in place of the client's
  message never makes it send the wrong range (`RangeIntact`).

## What the runs found

Each of these runs checks one statement of the repository's own docs or
comments, which TLC finds violated.

| Run | The statement | What the code does |
|---|---|---|
| `Ticketless` | `docs/TEST-MATRIX.md:57`: rights-id content without ticket "fails at import-ticket" | the install returns ok, without the ticket |
| `ZeroRecord` | `install/ncm_backend.h:34`: commit pushes the record of the "last setContentMeta key" | with a bare `.cnmt` in front no meta was set, and a record of the zero key is pushed |
| `NczTruncated` | `crypto/ncz.h:24`: "Reconstruct the NCA from the .ncz" | a source that breaks off inside the stream ends the loop like the end of the input; true is returned with a part of the NCA, which the installer registers |
| `UsbDrain` | `usb/usbds_transport.cpp:119`: "host always drains IN" | after a read that timed out the client writes without limit while the host waits to send its late reply |
| `StaleLastOp` | `install/report.h:19`: "Outcome of the most recent operation" | an operation that returns early leaves the one before in `g_lastOp` |
| `LongLines` | `log/log.h:19`: "printf-style line" | from 510 characters on the newline is put behind the NUL and is lost |

Two more were seen and have no run. `install/installer.h:68-69` says that
without keys "the meta step is skipped", while `installer.cpp:124` fails it;
every caller in `main.cpp` sets keys, so it does not show. And
`waitConfigured` begins its ten seconds anew at each state change of the bus.

## Bounds

- *Containers*: a titlekey base with ticket and cert; an update that shares a
  content with it and carries its ticket first; a compressed title; a bare
  `.cnmt` before the Meta NCA; a name that is no content id; rights-id content
  without ticket; a CNMT that lists as many contents as can be counted, one
  that lists more than it holds, one outside of its section; and for the
  rehearsals two titles in one file, meta infos that are not there, Meta NCAs of
  a newer generation, of another key table, in the clear, and one that is no
  NCA3. Sizes 1 to 3 with `Chunk = 2`: one read, two reads, short reads. Two
  attempts are what it takes for one container to meet what another left; every
  property relates at most two.
- *Formats*: `CountValues = 4` stands for 65536, so that three contents wrap the
  count. `MaxGen = 2` stands for 32: one generation that the older keys have and
  one that they lack. Key files: all keys, those of an older console, all keys
  and then a cut `header_key`, a cut `header_key` alone, other keys.
- *Ncz*: `Block = 3`, `In = 3`, `Out = 4`, `Pending = 2`, `Ratio = 2`: outputs end
  at each place in a block, `acc` spans several blocks, and the decoder still
  holds output when its input is used up. Tables of one to three sections, plain
  and encrypted, the last one ending inside a block; bodies shorter, as long and
  longer than the table.
- *Dbi0*: `FileLen = 4`, `Segment = 2`: ranges of one or two segments and past
  the end of the file. `MaxCalls = 3` is the list and two ranges, so that the
  rest of one may meet the next. Two timeouts, one failed call (post or report) and one restart in
  any order: enough for an event left by a first fault to be met by a second.
- *UsbInstall*: `Segment = 2`, `FileLen = 10`: three units of directory and
  contents of one, two and three reads; one file ends inside its last NCA. Two
  timeouts and one failed call, which meet any read of the install. The host's
  own errors and the crash of the process are left to `UsbSession` and
  `Installs`: with them the product does not stay small. `PackedOffsets` puts
  the entries one behind the other, as a packer does.
- *App*: `Buf = 5` puts the buffer's limit at 2 and 3 characters; line lengths
  2, 3 and 5 are one that fits, the first that does not, and one cut off. Up to
  two keys per frame, three operations over two launches: one before and two
  after the launch between them, or the other way round. The run checks no claim
  about more than two operations.

## Fairness and deadlock

`Installer` and `Ncz` are sequential code, hence weak fairness of their steps;
`Dbi0` has weak fairness of the client's thread and of the host's loop, which
stands for a host that goes on while it can. A read that waits ends because it
has a limit: `ReadTimesOut` is a step of the client. No fairness is assumed of
starting an install, of failures, crashes, restarts or keys. `UsbInstall` has
weak fairness of the console's one thread, which waits in `fileRange` and then
goes on in `installNsp`, and of the host's loop.

The systems really stop (the user starts no further install, the session is
over, the program was left, a bound is reached), so deadlock is not checked;
that the ones which should go on do is what `AttemptEnds`, `Ends`, `SessionEnds`
and `UsbInstallEnds` say. The last two are for sessions without a fault. With
one a session can stand still for good (`UsbDrain`), and `BlockedMeansReadFailed`
and `BothReadingMeansFault` say which faults that takes.

## Proofs

Checked by tlapm. They hold for every value of the constants that the named
assumptions allow: any containers, key files, tables, sizes, segments, buffers
and bounds. Every invariant and every refinement that a passing run checks is a
theorem; TLC was asked first, and the runs stay as the check that the models
can do what they speak of.

| Module | Theorems | Inductive invariant |
|---|---|---|
| `InstallerProofs` | `TypeCorrect`, `MetaBackedAlways`, `RecordBackedAlways`, `MetaTellsTheCnmtAlways`, `MetaCountsContentsAlways`, `ImplementsStore` | `OrderInv`, `RecordInv` |
| `OutcomeProofs` | `RegisteredIntactAlways`, `ResidueBoundedAlways`, `FailureNamesStepAlways`, `OkMeansInstalledAlways` | `BytesInv`, `ResidueInv`, `OutcomeInv` |
| `RehearsalProofs` | `PlanKeptAlways`, `MetaAnnouncedAlways`, `ReadersAgreeAlways`, `WarnsOfMissingTicketAlways`, `WarningIsTrueAlways` | `RehearsalInv` |
| `NczProofs` | `NczTypeCorrect`, `FaithfulAlways`, `NeverPastTableAlways`, `WholeUnlessCutAlways`, `AccBoundedAlways`, `ImplementsSink` | `NczInv` |
| `Dbi0Proofs` | `SessionInvariant`, `SessionTypeCorrect`, `RangeIntactAlways`, `ShortMeansFaultAlways`, `BlockedMeansReadFailedAlways`, `BothReadingMeansFaultAlways`, `WriteUndisturbedAlways` | `SessionInv` |
| `UsbInstallProofs` | `ImplementsInstaller`, `SafeOverUsb`, `CutMeansFaultAlways` | `UsbInv`, `WholeInv` |
| `AppProofs` | `AppTypeCorrect`, `UsbReleasedAlways`, `ReportCoherentAlways`, `LinesWholeAlways` | `AppInv`, `LogInv`, `ReportInv` |

**InstallerProofs.** `TypeCorrect` needs `OpenHoldsRef` (open handles come with
a reference) for `ncmRefs` to stay a natural number. `MetaBacked` is not
inductive: that `SetContentMeta` keeps it depends on the two loops before. The
strengthening is `OrderInv`: what each loop has done up to `i`
(`ContentsSoFar`, `TicketsSoFar`), what therefore holds once the loop is left
(`ContentsAll`, `TicketsAll`), that `i` starts at 1 in each loop (`AtStart`),
and that between taking up an entry and registering it `i` points to a content
with a name (`AtContent`). Staged metas are part of the statement because any
later commit, of any container, makes them permanent. Nothing that was laid or
imported is taken back (`LaidStaysLaid`), so facts about a container survive
the installs of others. There is one lemma per conjunct and one step per
action. `RecordInv` follows the backend's key: unset, then the key of a staged
meta, then of a committed one; a commit never takes a key out of the database
(`KeysStay`). `ImplementsStore` maps registering to Lay, importing to Grant,
the commit to Publish and the end of `installNsp` or of the process to End;
Publish needs `MetaBacked` of the staged metas, Grant and Publish need
`ContentsAll` and `TicketsAll`.

By `MetaBackedAlways` a meta is the `NcmMeta` of an entry for which `HasMeta`
holds; the rest of `MetaTellsTheCnmt` and `MetaCountsContents` is about `Cnmt`
and `Nca` and is in `FormatProofs`: `BuildsWithinIds` (the bound that
`buildNcmMeta` checks leaves room for all records it copies),
`InfosAreTheRecords`, `MetaOfCnmt`, `MetaShape`. That the first `.cnmt` of a
directory exists comes from the least-element theorem of
`WellFoundedInduction`.

**OutcomeProofs.** `BytesInv` adds to `RegisteredIntact` that an id which is
about to be created is no placeholder's (`FreshId`), that the one placeholder
of the attempt holds the source's units below `written` and nothing above
(`CurOnly`), and that an `.nca` comes to its registration only written to its
end (`NcaWhole`). `ResidueInv` counts, at every place of `installNsp`, the
placeholder and the reference that are still to be given back; cardinalities
go through `FiniteSetTheorems`. `FailureNamesStep` and `OkMeansInstalled` speak of
counters and sets of entries: `OutcomeInv` says that `result.ncas` is the number
of content places below `i` and the like for tickets (`CountsContents`,
`CountsTickets`), which phase is noted and which are begun at which place
(`PhaseNoted`, `BegunSoFar`, `BlameInv`), what the meta loop has passed and which
key it left (`MetaFollowed`, `KeyLater`), and that nothing is committed or
recorded before the commit (`FoundStays`).

**RehearsalProofs.** `RehearsalInv` is the installer's `OrderInv` and `OutcomeInv`,
the dry run's own (`DryInv`: what its two passes have counted, seen and warned
of up to where they stand), and that the installs are of the same file with the
same keys and that tickets and metas on the console are its (`FromFile`).
`PlanKept` then compares two countings of the same places. `MetaAnnounced` and
`ReadersAgree` compare the two searches: `FirstMeta` gives a least meta entry,
`OneFirstMetaNca` says that both stop at the same Meta NCA unless a bare `.cnmt`
comes first, and `ReadersOfOneCnmt` that `WholeRecords` and `BuildNcmMeta` list the same
records of every CNMT that gets past both checks.

**NczProofs.** `NczInv`: what zstd still holds is what it keeps back
(`LittleKept`), the input is used up when the last flush begins
(`InputAtEnd`), the sink holds the header and what was flushed without gaps
(`Extent`) inside the size of the placeholder (`Within`), sections before the
current one lie behind `NcaOff` (`Passed`), and `NcaOff` is at the start of a
block wherever something is still to be written (`Aligned`). `Aligned` is what
makes `Faithful` inductive: a run that begins inside a block would get the
counter of the block, and the key stream would be off from there on; only the
last flush may end inside one. `ImplementsSink` maps each run that is written to an Append.

**Dbi0Proofs.** `SessionInv` has seven parts. `Types` is what the
variables hold. `Endpoint` bounds URBs and signals together: one between two reads,
none before the first timeout nor between the steps of a call that has got its
replies so far. `Request` says that a call whose header and body were answered
is served by that body or not at all, whatever came before. `Fresh` and
`DstKept` bound what `dst` holds. `Turn` says whose turn it is while no read
timed out and no transfer failed in its post or its report, with the places a host error may have led the
host to. The last part is `RangeIntact` itself. It is proved for
the moves of the peers without the bound on calls (`Moves`), so that it serves
`UsbInstall`, whose installer decides how many ranges there are.
`SessionTypeCorrect` is the answer to whether abandoned URBs pile up: two at
most.

**UsbInstallProofs.** The session is `Dbi0Proofs` instantiated, so `SessionInv` holds
under the install. With `AskedInv` (a call out is of a read that `installNsp` stands at)
and `BytesInv`, each `Use` is the step of `Installer` with what came:
`RangeIntact` turns the units of the range into those of the entry, and without
host errors none of them is foreign. Hence `ImplementsInstaller`, and with the
theorems above `SafeOverUsb`: all that is said of an install from the card holds
over USB. `CutMeansFault` follows from `ShortMeansFault` along `WholeInv`.

**AppProofs.** `EmittedShape` computes what the line buffer gives for every length
and every `Buf`, from which each line appended is whole. `AppInv` says which key's handler can
stand at which place (`StageFits`) and that from a successful init to the exit
of the same handler there is one reference and the buffer (`UsbHeld`).
`ReportInv`: while the card refused no line of the log, all its lines are of this
launch and in the order of its operations, the recorded operation left one, and
so did the snapshot when a report is being made (`ThisLaunch`); a report on the
way holds the log up to where the copy stands (`Copying`). That a part of the log
is as good as the whole of it is `PrefixCoherent`: the lines stand in the order of
their operations, so the snapshot's come after those of the operation before it.

The assumptions, each evaluated by TLC in the runs of the modules that extend it:
containers are sequences of entries and key files of lines
(`Container`, `Keyset`); the zero key is not among `MetaKeys`, nor `BadName` among
`ContentIds`; `CountValues`, `Chunk`, `Block` and the like are positive, bounds and
lengths are natural numbers (`UsbBoundsAssumption`, `LengthsAssumption`,
`UsbLengthsAssumption`, `LineLensAssumption`, `BoundsAssumption`); a segment is not
empty (`SegmentAssumption`); the sections of a table follow one another from the
header on and are cut at whole blocks but for the last (`TablesAssumption`), as the
media units of an NCA are; a directory puts every entry somewhere
(`EntryOffsetsAssumption`); and the log's buffer has more than three bytes
(`BufAssumption`; it has 512).

What stays with TLC alone: `AttemptEnds`, `Ends`, `SessionEnds` and
`UsbInstallEnds`. They are liveness under fairness, which needs ENABLED, and the
prover handles neither. Nor are the violated statements of
[What the runs found](#what-the-runs-found) proved: a counterexample is their
proof. What `Keyset!Parse` makes of a sequence of lines is a recursive function, and
an induction over it is out of the prover's reach: no theorem depends on it, they
hold whatever the keys are.

## Not modelled

- `crypto/aes.*`: arithmetic on byte blocks, without state; the self test
  compares it with vectors.
- `crypto/nca.*`: the ciphers; the section counter; a wrong key that decrypts
  to a magic by chance; a directory of the section that points outside of it,
  where the code reads what lies behind its buffer.
- `fs/pfs0.h`: malformed directories. `Pfs0::open` succeeds with the entries, or
  fails; names and offsets that point outside of the file are not told apart
  from other bad names and short reads.
- Sizes too large to allocate: every vector is taken to be there.
- `config/*`: an INI parser that only the self test calls, on a constant text.
- `saves/*`: formats names; called by the self test only.
- `usb/usbds_transport.cpp`: the descriptors, and splitting a transfer into
  bounce-buffer pieces.
- `main.cpp`: what the self test prints; the pad as a variable that changes while
  a handler runs. No doc says until when the confirmation keys must be held, so
  nothing but the guard itself could be stated about it.
- `waitConfigured`'s limit: a bus that never settles is outside of the code, and
  nothing in the program depends on how long the wait is.
- The wording of log lines, the scripts for reverse engineering, the Makefile.

## Plan

Done, in this order, the most important first:

1. `Container`, `Installer`, `TitleStore`: the install sequence, its failures and
   crashes, the refinement; `InstallerProofs`.
2. `DryRun`, `Rehearsal`: the two readers of a container against each other.
3. `Ncz`, `PrefixWriter`.
4. `UsbDs`, `Dbi0`: client, transport and host composed.
5. `Log`, `App`.
6. `Keyset`, `Cnmt`, `Nca` under `Container`; `FormatProofs`.
7. `UsbInstall`: `Installer` composed with `Dbi0`.
8. Theorems for every invariant and every refinement that a run checks:
   `OutcomeProofs`, `RehearsalProofs`, `NczProofs`, `Dbi0Proofs`,
   `UsbInstallProofs`, `AppProofs`.

Left:

1. *Composition*: the refinement of `ReconstructNcz` by `Ncz`, with its proof;
   host restarts and crashes in `UsbInstall`.
2. *Theorems*: `NcmMeta` and `HasMeta` against the readers for malformed CNMTs
   that `Cnmts` leaves out; what `Keyset!Parse` keeps of a key given twice (one
   line at a time, without induction).
3. `Pfs0::open` with malformed directories, and a transfer in bounce-buffer
   pieces.
