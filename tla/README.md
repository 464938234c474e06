# Verification of the Cerberus mail parser

This directory holds TLA+ models of the Go port of the Cerberus parser (`src/`),
the TLC configurations that check them on small instances, and TLAPS proofs of
what matters most for every instance.

The program is a batch job. Cron (or a pipe) starts it; it fetches mail over POP3
or IMAP, parses every message into an XML tree, posts the tree to a PHP backend
and removes what it delivered. What can go wrong is custody: between the mail
server, the temporary files, the backend and the state files, a message must not
disappear, and must not be delivered over and over. The models start there.

## 1. Inventory

| component | source | state | operations | with whom |
|---|---|---|---|---|
| entry point, driver | `cmd/cerberus/main.go`, `internal/app/run.go` | exit code | `run`: POP3 accounts, then IMAP accounts, or the pipe; `processOne` per message, `cleanup` | every other part |
| IMAP mode | `internal/app/imap.go` | per account: candidates, processed set, `deleted` | load state, per account: connect, select, search, dedup, fetch loop, STORE, EXPUNGE, `Put`; save state | `imap`, `imapstate`, `oauth`, `processOne` |
| IMAP client | `internal/imap/imap.go` | connection, tag counter, UID list and cursor, `uidvalidity`, last UID | `Dial` `StartTLS` `Login` `AuthenticateXOAUTH2` `Select` `SearchAllUIDs` `FetchUID` `Delete` `Expunge` `Logout` | the server, by lines and literals with a timeout per read |
| dedup state | `internal/imapstate/imapstate.go` | per mailbox: UIDVALIDITY and processed UIDs; a JSON file | `Load` `Processed` `Put` `Save` (temporary file and rename) | IMAP mode |
| POP3 mode, client | `internal/app/pop3.go`, `internal/pop3/pop3.go` | message list, cursor, last message | `User` `Pass` `Stat` `Retr` `Dele` `Quit` | the server |
| OAuth tokens | `internal/oauth/refresh.go` | cached access and refresh token, expiry; a JSON file | `Token`: load, refresh, save | the token endpoint, IMAP mode |
| message processing | `internal/app/run.go` | saved message file, part files | `saveInput` for a pipe; parse, decode subject, deliver, clean up; a panic counts as a failure; the exit code | parser, poster, the mail system (MTA) that pipes a message |
| poster | `internal/poster/poster.go` | none | `Deliver`: optional xSP boot, then one multipart POST | backend, license key, XML tree |
| MIME parser | `internal/mimeparse/` | reader position, calls in progress, XML tree, part files | headers, nested bodies, base64, quoted-printable, uuencode, TNEF, RFC 2047 subjects | XML tree |
| XML tree | `internal/xmltree/` | tree, child cursor | `AddChild` `Get` `Iterate` `Next` `Read` `ToString` | configuration, parser, poster |
| license key | `internal/crypt/` | none | encrypt, decrypt, check the expiration | poster |
| configuration, charset, log | `internal/config/`, `internal/charset/`, `internal/clog/` | settings read once | `LoadFile` `TLSConfig`; text conversion; output | all |

### What is hard

* **Several invocations.** Nothing keeps two invocations apart: cron may start
  one while the last is still running. They share the mailbox, the state file and
  the token cache.
* **Death anywhere.** The dedup state is saved once, after the last account; the
  token cache after the endpoint has rotated the token; POP3 deletes at QUIT.
* **Commands that fail after they took effect.** A STORE, an EXPUNGE, a DELE or a
  POST whose answer is lost has happened all the same.
* **Other clients of the mailbox**, which flag, expunge, recreate.
* **Errors that are only logged**: UID SEARCH ALL, STORE, EXPUNGE, Save, Load.
* **Streams.** A timeout in a POP3 message counts as its end; a late reply is read
  as the reply to the next command; an IMAP literal that breaks off leaves the
  connection out of step.
* **The pipe.** The exit code is all the mail system learns, and a mail system that
  dies while it writes leaves a pipe that looks complete.
* **State carried along.** Base64 across lines, the buffer of an encoded word, the
  header a folded line belongs to, the cursor of an XML node.

### What makes each part correct

* Custody (all modes): a message leaves the server only when the backend has it or
  a file does; without `max_pop3_delete` only when the backend has it.
* Dedup: nothing is skipped that was not delivered; nothing is delivered twice
  without a cause; the saved set forgets no message that is still there; UIDs of
  one UIDVALIDITY are never used under another.
* Progress: poison messages below the fetch limit do not starve the others.
* Tokens: the newest refresh token survives every crash the code can survive.
* Streams: what is delivered is what was sent; a success is reported only for a command
  that did succeed; nobody waits for a line that nobody will send.
* Pipe: an exit code of 0 means that the backend has the message.
* Parser: each part ends where the innermost open boundary says; decoders agree
  with their definitions.

`PROJECT.json` lists each hazard at its line, with the properties that cover it or
the reason why none does yet.

## 2. Modules

| module | models |
|---|---|
| `ImapMode` | IMAP mode as a whole: `app/imap.go`, with the IMAP client, the dedup state, `processOne`, `cleanup` and the poster as it sees them |
| `ImapWire` | one session of `imap/imap.go` on the wire, as `runIMAPAccount` drives it |
| `ImapCommands` | the abstract promise of a session about its commands, which `ImapWire` implements |
| `PopMode` | POP3 mode: `app/pop3.go` with the client of `pop3/pop3.go` and its stream |
| `PipeMode` | pipe mode: `run`, `saveInput`, `processOne`, `cleanup` and the exit code of `app/run.go`, the boot of an xSP key in `poster/`, and the MTA around them |
| `MailCustody` | the abstract promise of all three modes: server, files, backend, withdrawn |
| `ImapCustody`, `PopCustody`, `PipeCustody` | the refinement mappings from the modes to `MailCustody` |
| `TokenCache` | the OAuth token cache of `oauth/refresh.go`, shared by invocations |
| `MimeParse` | the parser of `mimeparse/` on one message, its part files, and what `processOne`, the poster and `cleanup` do with them |
| `Decoders` | the decoders of `mimeparse/`, folded headers, subjects, TNEF attributes, the line ends of `saveInput`, the children of an XML node and its cursor: of most loops one turn, as a function of what the loop's variables hold |
| `Cipher` | the cipher of license keys in `crypt/`, in both directions |
| `Codecs` | the loops of these decoders, turn by turn, encoders for the formats they and `Cipher` read, and what must come back |
| `ImapModeProofs`, `PopModeProofs`, `PipeModeProofs`, `ImapWireProofs`, `TokenCacheProofs`, `MimeParseProofs`, `CodecProofs` | theorems about these modules; those on the three modes also prove their refinement of `MailCustody`, and `ImapWireProofs` that of `ImapCommands`; `MailCustody` holds the theorem about itself |
| `MCImapMode`, `MCImapWire`, `MCPopMode`, `MCPipeMode`, `MCTokenCache`, `MCMimeParse`, `MCCodecs` | constants for TLC |

`ImapMode`, `PopMode` and `PipeMode` are instances of one promise (`MailCustody`).
`ImapWire` stands under the commands of `ImapMode`: there a command works or fails, here
it is lines, and the module shows that what the client reports of a command is what
`ImapMode` assumes of it. `TokenCache` stands under `Open` of `ImapMode`: what it yields
is a session that opens or fails. `MimeParse` stands under `Post` and `Clean` of the
modes: there the message is one file, here it is taken apart; `Decoders` stands under the
decoding calls of `MimeParse`.

### ImapMode

A *process* is one invocation. Its `pc` is the place in the code where it next
calls something that can fail or that another actor can see:

| pc | action | code |
|---|---|---|
| idle | `Start` | `runIMAP` to the loop: `imapstate.Load`; a read error leaves an empty state |
| open | `Open` | `runIMAPAccount` up to `c.UIDs()`: the checks of the settings, `Dial`, `StartTLS`, `authenticate`, `Select` |
| prune | `Prune` | `Processed`, `SearchAllUIDs` unless the search is ALL, the pruned set, the limit |
| fetch | `Fetch` | `FetchUID`; an error ends the loop |
| post | `Post` | `processOne` up to its deferred call: parse, `Deliver` |
| clean | `Clean` | `cleanup`, then `runIMAPAccount` after `processOne`: result, `newProcessed`, the delete decision |
| store | `Store` | `c.Delete()` |
| fetch, nothing left | `Finish` | `c.Expunge()` if anything was flagged, `state.Put`, `Logout`, the next account |
| end | `End` | `state.Save` up to the closed temporary file, or return without a state file |
| rename | `Rename` | the temporary file takes the place of the old one, return |
| any | `Crash` | the process dies |

`mem` is the `State` in memory, `disk` its file, `sess` the session with its
candidates (`todo`), `newProcessed` (`processed`) and `deleted`, `job` the message
in hand, `rc` whether the exit code is still 0.
`box` is the mailbox; `Arrive`, `OthersFlag`, `OthersExpunge` and `Recreate` are
the server and its other clients (external). `arrived`, `withdrawn`, `accepted` and
`kept` record where messages went.

Abstractions, and why they are sound for the properties:

* A message is `<<mailbox, UIDVALIDITY, UID>>`; its content is one bit, poison or
  not. `FetchUID` of a message that is gone yields an empty file (`job.full` is
  false), as the server answers OK without data.
* A command succeeds or fails as a whole; STORE and EXPUNGE may fail after they
  took effect. Each failure is counted against `MaxFaults`, by kind (`Faults`), so
  that a run can say under which failures its property holds.
* A POST has five outcomes: accepted; refused; accepted with the answer lost; an
  HTTP error with an empty body (`hollow`: the code reads it as accepted); not sent
  (`debug/parse`).
* A session whose mailbox was recreated gets errors from then on.
* The UIDs are fetched in any order: the protocol leaves the order of SEARCH open.
* `Save` is two steps, the temporary file and its renaming, and may fail or die at
  either; a temporary file that is left is never read and not tracked.
* A file that `cleanup` leaves behind, or that a dead process leaves behind
  complete, counts as kept for the operator.

### ImapWire

One session from the greeting to LOGOUT. `inbox` holds the requests the server has not
read, `stream` the lines the client has not read, both in order. The server is external:
it executes what it has received in order, each command when it likes, refuses, sends
lines nobody asked for (`Chatter`), or is silent.

| pc, at | action | code |
|---|---|---|
| greet | `Greet`, `ReadFails` | `Dial` |
| a command, send | `Issue` | `send` with a new tag |
| fetch, create | `CreateTemp` | the temporary file of `FetchUID`, created after the command is sent |
| a command, read | `ReadLine`, `ReadFails` | one turn of the loops of `cmd`, `uidSearch`, `FetchUID`, `AuthenticateXOAUTH2`: a literal, a completion, a challenge, data, anything else |
| a command, literal | `CopyLiteral`, `ReadFails` | `consumeLiteral`, and the copy into the file |
| handshake | `Handshake` | `StartTLS` after its OK |
| loop | `Pick`, `Finish` | the loop of `runIMAPAccount` |
| post | `Post` | `processOne` and the decision to delete |

`After` is the order in which `runIMAPAccount` issues commands and what a failure leads
to. A read that fails leaves what it has not taken to the command after it; from then on
the client may take text of a message for a response (`Lookalikes`, `Meanings`), which is
the reason for most of the properties. `log` is a history of what became of each command
and of what the client made of it; `handed` of the messages whose whole text was in a
file that was handed on.

Abstractions: a literal counts lines, and a line stands for its bytes; a marker that is
not the server's own announces up to two lines. A read may fail in the middle of a line
with a marker; of any other line the rest is a line without meaning, as the line is. A line
that ends with a marker is a marker and nothing else; the code looks at it as a response as
well, once the literal is drained (`imap.go:132`), but the only response with a literal that
a server sends here is that to FETCH. `Fetch`, which nothing calls, is left out.

`ImapCommands` is what a session promises: one command at a time, each executed at most
once and in order, and a success reported only for a command that succeeded. The results
of EXPUNGE and LOGOUT decide nothing (`Courtesy`).

### MailCustody

Four sets: `server`, `files`, `backend`, `withdrawn`. A message may be copied (from
wherever a copy is: it may be in memory while the server loses it), taken, discarded,
removed, withdrawn, but a discard needs another copy and a removal needs a file or the
backend. `ImapCustody` maps `OnTheServer`, the kept files together with those a process
is working on, and the accepted messages to them; `Custody` says that every step of every
invocation is a step of `MailCustody`. `PopCustody` does the same for POP3; there
`withdrawn` stands for the messages whose delivery was feigned or whose end was a timeout,
and for the rest of a session that has fallen behind (`excused`). In `PipeCustody` the queue of the MTA is the server, and what it sends back,
or was feigned to be delivered, is withdrawn.

### PopMode

One session after the other on one mailbox: POP3 servers lock it for a session, and
the accounts of a run share nothing.

| pc | action | code |
|---|---|---|
| idle | `Open` | `Dial` `User` `Pass` `Stat` with LIST; the limit |
| retr | `Retr`, `NoMore` | `Retr` up to its reply; the end of the loop |
| body | `ReadLine` | one turn of the loop of `Retr`: a line, the dot, a timeout, the end of the stream, a file error |
| post | `Post` | `processOne`, with the outcomes of `ImapMode` |
| clean | `Clean` | `cleanup`, then the delete policy |
| dele | `Dele` | `c.Dele()` |
| quit | `Quit` | `c.Quit()`: the server removes `marked` |
| any | `Drop`, `Crash` | the connection breaks; the process dies |

`stream` holds the replies the client has not read: every command reads one line of
it (`Succeeds`, `Refuses`) or times out and leaves its own reply there (`Silent`), to
be taken for the reply of the next command. A message is a number and its lines; the
saved file is the sequence of lines read, stray status lines included, and the backend
takes it as the message if all lines are there (`Whole`).

Abstractions: only QUIT changes the mailbox, so the moment at which the server takes
any other command cannot be seen, and the model lets it answer at once and lets any
read time out. A timeout costs a failure, except where the server owes nothing. It may
come in the middle of a line, whose beginning is then lost and whose rest is a line
without meaning (`Late`). `Lookalikes` are lines of messages that begin with `+OK`. The
history variable `late` counts the timeouts a session has gone on after, that is those in
a body or of a DELE; `Prompt(late)` says that it still takes every line for what it is.
What is listed when it no longer does is `excused`.

### PipeMode

The MTA (external) has a queue and starts one run for a message; the exit code is all it
learns. When it dies its runs go on as orphans: they read the end of the pipe where it
stopped writing, nobody looks at their exit code, and the MTA starts another run for the
same message when it is back.

| pc | action | code |
|---|---|---|
| start | `LoadConfig` | `run` to the configuration |
| create, read, write | `CreateTemp`, `ReadAll`, `Write` | `saveInput` |
| parse | `Parse` | `processOne` to the tree, with `debug/parse` and a panic |
| boot | `Boot` | the xSP boot of `Deliver`, with the expiration of the key |
| post | `Post` | `postParser`, with the outcomes of `ImapMode` |
| clean, remove | `CleanParts`, `RemoveFile` | `cleanup` |
| exit | `Exit` | `processFiles`, the exit code, and what the MTA does about it |
| any | `Crash`, `MtaDies` | the death of a run, of the MTA |

`left` are the files that no run owns any more. What a run has read, or has in its file,
is nothing, empty, half or whole.

### TokenCache

A process is one call of `Token`. `Begin` reads the clock, `Load` the cache some time later,
and decides by the time that `Begin` has read; `Refresh` is the exchange with the endpoint, which rotates the token before the answer
is safe; `Write` and `Rename` are `saveCache`; `Done` is the use of the token by
`authenticate`. Refresh tokens are numbered as they are issued, an access token is the
time of its real expiry, minted at some moment between the call and the answer; the answer states its lifetime, or
leaves it out, which reads as 0 (`Stated`).
`superseded` and `dead` are the tokens the endpoint has replaced and no longer takes;
`lost` is a history of tokens whose replacement never reached the disk. The clock, the
retirement of tokens and a new bootstrap token are external.

### MimeParse

The parser is recursive and shares one stream of lines. `stack` holds the calls in
progress, innermost first:

| `op` | call | actions |
|---|---|---|
| headers | `HeaderParse` for a part that is kept; at the blank line `bodyParse` takes its place | `HeaderParse` |
| discard | `HeaderParse` for a delimiter that turns out to be none: the walk returns after it | `HeaderParse` |
| multi | `bodyParseMultipart` | `MultipartLine`, `MultipartEnd` |
| decode | `decodeText`, `decodeQP`, `decodeB64`; for TNEF with what follows it | `DecodeLine`, `DecodeEnd` |
| uu | `parseUU` | `UULine`, `UUEnd` |

`line` and `used` are the reader: a line that a call leaves unused is seen again by its
caller. `disk` are the temporary files that exist, `named` those with a `<tempname>`
in the tree, which is all that the poster and `cleanup` know. Then `Parsed`, `Post`,
`Panic` and `Cleanup` are the rest of `processOne`.

The writer of the message is external. It sends one line whenever the parser needs one:
a header, a blank line, text, `begin` or `end`, the delimiter or closing delimiter of
any multipart it is in, or it ends the message, wherever it is. `sound` records
whether the structure has been sound so far; lines behind a defect carry no claim.
`of` and `matters` label a line with its part, and say whether it is content that must
reach the backend.

Abstractions: a content line is one unit of a file, whatever its encoding, and
`MaxFileSize` counts lines. `Content-Type` and `Content-Transfer-Encoding` are one
header that names what the code tells apart. The delimiter of a boundary that begins
with the one a walk looks for is read by that walk as a new part, as the end or as
neither, since it depends on the characters behind. The attachments of a TNEF body are up
to `MaxAttached` files, of one attachment or of several, each entered in the tree; that of
one may have failed. Text behind a `begin` that is no uuencode, as the `begin` may have been
text itself, is a defect of the message: `parseUU` writes what it makes of it, or ends there.
Transcoding rewrites files in place and is left out. The message is
posted: a POST that fails changes nothing for the part files.

### Decoders, Cipher, Codecs

Bytes are numbers and a line is a sequence of bytes. `Decoders` has one turn of each loop,
as a function of what its variables hold: `feed` for a base64 character, `qpDecodeLine` and
`uuDecodeLine` for a token and a group, `unixToDOS` for a byte, `HeaderParse` for a line,
`parseTNEF` for the attribute at a position, `Advance` and `Found` for a call of `Next`.
`Codecs` takes the turns: `in` is the input, or what an encoder written from the format
makes it of; `st` is what the loop's variables hold, `at` how far it is. A loop whose turn
needs the next item and nothing behind it reads while the input grows (`ReadByte`,
`ReadHeader`; `NewLine` and stray bytes may come anywhere); one that needs its length or
looks ahead starts when it is complete (`ReadBase64`, `ReadGroup`, `ReadText`,
`ReadAttribute`, `NextBlock`). A `winmail.dat` is written attribute by attribute
(`WriteAttribute`), then opened (`OpenWinmail`): whole, of kind `tnef`, or cut behind any
of its bytes, of kind `cut`. So every state of a loop is a state of the model, and what it
has written is compared with the input in each, not only at the end.

One loop stays a function on the positions: `ParseSubject`, whose words call other loops.
It is compared in every state with what was put in. In `Attach` every attachment gets its
file: when `mkTemp` fails (`tnef.go:151`) the code keeps the node of the file before, and the
content of that attachment is dropped; no property is about that case. `Cipher` takes one
step per round, a word is the set of its bits that are 1, and the S boxes and subkeys are
constants: the round trip does not depend on them. It is the cipher of one block; the loop
over the blocks of a key, hexadecimal digits, the order of bytes in a word and the end at a
NUL (`crypt.go:27`) are left out.

## 3. Runs

| run | module | question | instance | result |
|---|---|---|---|---|
| `ImapAccounts` | `MCImapMode` | can mail be lost, skipped, repeated or forgotten by the state file? | 1 process, 3 accounts on 2 mailboxes: one with another search, one deleting under `max_pop3_delete`; 1 UID, 2 epochs, 1 failure | no, unless UID SEARCH ALL or Load fails, 3.9M states |
| `ImapOverlap` | `MCImapMode` | and when two invocations overlap, with `super_clean` and deletion of what was delivered? | 2 processes, 2 UIDs, 1 poison, 1 failure | nothing undelivered is removed; each step refines `MailCustody` |
| `ImapLive` | `MCImapMode` | is every message handled in the end, and not more often than failures make it, even if the state file cannot be read? | 1 process, 3 UIDs, 1 poison, fetch limit 2, 1 failure | yes, 193k states |
| `ImapWire` | `MCImapWire` | does the client hand on what was sent, delete only that, and come to an end? | 2 messages of 2 lines, the second of which may look like a response; two accounts: login without STARTTLS and with another search, XOAUTH2 with STARTTLS and ALL; 1 failure, 1 line of chatter, any read may time out | yes; a session implements `ImapCommands`, 864k states |
| `Pop` | `MCPopMode` | can POP3 lose, mix up, repeat or starve messages? | 4 messages of 2 lines, 1 poison, limit 3, `max_pop3_delete`, 3 failures of every kind | no, but for messages cut at a timeout and sessions that go on after two; each step refines `MailCustody`, 329k states |
| `Pipe` | `MCPipeMode` | does the MTA learn the truth, and do runs clean up? | 2 runs for 1 message, an xSP key or `super_clean` or `debug/parse`, 2 failures of every kind | yes; each step refines `MailCustody`, 270k states |
| `Tokens` | `MCTokenCache` | does the cache hand out stale tokens, or forget the newest one? | 2 processes, lifetimes 1 and 3, skew 1, 4 tokens, time to 2, 1 failure | no, 3.4M states |
| `Mime` | `MCMimeParse` | does the parser keep parts apart, lose nothing, clean up and end? | messages of 12 lines and 4 parts, 2 boundaries of which one begins with the other, files of 1 line, up to 2 files from a TNEF body, 1 failure or panic | yes, up to the first defect of the message, 3.1M states |
| `Codecs` | `MCCodecs` | do the decoders read what was written? | contents of 5 bytes, texts of 4 in every spelling, 2 stray bytes anywhere, subjects of 4 pieces, inputs of 6 bytes, headers of 5 lines with 2 names and 2 values, a `winmail.dat` of attributes that begin in its first 47 bytes with 2 contents, 5 elements, 16 rounds | yes, 1.3M states |
| `FindPrune` | `MCImapMode` | does the state remember, with UID SEARCH ALL failing? | 1 failure | no |
| `FindHollow` | `MCImapMode` | does delivered mean accepted? | an HTTP error with an empty body | no |
| `FindStray` | `MCPopMode` | are the lines posted for a message its own, without `max_pop3_delete`? | 3 messages, 1 poison, 2 reads that time out | no |

**Properties.**

* `ImapMode`: `NoLoss`: gone and not withdrawn means accepted or kept.
  `OnlyDeliveredAreDeleted`: the stronger form without `max_pop3_delete`. `DedupSound`: a
  recorded UID is accepted or gone. `DuplicatesAreFaults`: with a state file and runs that
  do not overlap, each acceptance beyond the first has a failure that pays for it. `Remembered` (an action property): a save keeps every
  recorded UID that is still on the server, and a save that breaks off keeps the file.
  `Handled` (liveness): whatever waits is accepted or withdrawn in the end. `Custody`: the
  refinement, here and in `PopMode` and `PipeMode`.
* `ImapWire`: `Whole`: a FETCH that succeeds has put the whole text of its message, and
  nothing else, in the file. `StoreAfterWhole`: nothing is flagged or removed whose text
  was not handed on whole, though text may be read as responses after a literal was given
  up. `NoStandoff`: client and server never wait for each other. `CommandsKept`: the
  refinement of `ImapCommands`, in which a late OK of one command is never the success of
  another. `Ends`: a session comes to its end, whatever the server leaves unanswered.
* `PopMode`: `NoLoss`, `DuplicatesAreFaults` and `Handled` say the same of POP3, with
  `excused` as the exception; `OwnLines`: the file posted for a message has no line of
  another; `PromptLines`: so it is until a session has gone on after two timeouts.
* `PipeMode`: `NoLoss`: a message the MTA has had is in its queue, with its sender, or
  whole in the backend. `CutByMta`: only the death of the MTA cuts a message. `Tidy`: what
  a run that ends by itself may leave on disk. `DuplicatesAreFaults`, `Handled` as above.
* `TokenCache`: `FreshAccess`: a cached access token really outlives the skew;
  `CacheCurrent`: the refresh token the next run would send was not replaced, unless a run
  is about to save the replacement or it was lost.
* `MimeParse`: `OwnPart`: the files of a part hold lines of one part; `Whole`: without a
  failure every line that matters is in a file that is posted; `NoTempLeft`: no temporary
  file outlives the message, unless the parser panicked; `Terminates`.
* `Codecs`: `Base64Body`, `UUBody`, `QuotedBody`, `SubjectText`, `DosLines`, `Unfolded`,
  `Attachments`, `AccountsInOrder`, `KeyText`: each decoder gives back what its encoder
  was given, with line breaks, stray bytes, soft breaks, folds, or the end anywhere, and at
  no time has it written anything else.

The type invariants are proved (section 4), that of `Cipher` within `KeyTheorem`; that of
`PopMode` is run as well.

**Bounds.** In `ImapAccounts` the three accounts hold a shared entry of the state, an
account that deletes in between, and "saved after the last one"; `MaxEpoch` 2 gives the
reuse of a UID under another UIDVALIDITY. In `ImapOverlap` `MaxUid` 2 gives a poison
message beside one that is not, and two processes give every overlap of pairs. One
failure lets a death or a lost reply meet every state. `MaxAccepts` is above the bound
that `DuplicatesAreFaults` states, so that saturation hides nothing. The failures of
`ImapAccounts` are those that leave the state readable, since `Remembered` needs it;
`ImapLive` has the others, so `DuplicatesAreFaults` is checked there with a state file that
cannot be read and is overwritten at the end of the run; `DedupSound` is
proved for every failure but a feigned delivery. `Handled` of `ImapLive` has fewer poison
messages than the fetch limit, and failures come to an end: as many poison messages as the
limit, or a message whose FETCH fails in every run, keep back the rest, and the code has no
remedy. In `Pop` the same holds of `max_pop3_delete`: without it, poison
messages stay and starve the rest. In `ImapWire` two
messages make one that follows the other on a connection that is out of step, and two
lines one that is cut; reads time out without a bound, as often as they like. In `Pipe`
two failures are the death of the MTA and one thing that befalls either run; with one
message the second run is always for the message of the first, which is the case of
interest. In `Tokens` a lifetime of 1 is within the skew and one of 3 beyond it, by
a cache that is good at times 0 and 1 and no longer at 2; four tokens let each process
rotate while another bootstrap token comes. In `Mime`, 12 lines
hold a multipart in a multipart, a leaf with a line in it, its closing delimiter, and
another leaf behind it in the outer one; the four parts are the message, the inner
multipart and the two leaves; a file of one line is split by the second line. Two files
out of a TNEF body are two attachments, or one that is split. In `Codecs`
five bytes end a base64 or uuencoded text with each rest and cross a group; 255, 0 and
the characters of escapes are among the bytes; four bytes of text have an escape at the end
of a line, behind a soft break and before the end of the message; four
attributes begin in 47 bytes, enough for two files with data or a name, or for one with a
name and data in two pieces; contents look like types, so that a loop that loses its place
by a byte or two goes on with them.

`Pop` has three failures because that is what `OwnLines` takes to fail under
`max_pop3_delete` (a message cut, a late reply to DELE, another message cut); without it
two do, as `FindStray` shows. `PromptLines` and `NoLoss` claim nothing of a session from
there on. `Lookalikes` is empty: with a line that begins with `+OK` a session is astray
after its first timeout, because the remaining lines of a body are read as replies, and
this one opens the next message. The model says so (`Prompt`), and the code has no guard
for either.

**Fairness.** `FairSpec` adds weak fairness of `Step(p)` (`Step` in `PopMode`) alone: cron
starts the program again, and a started program runs on, since every read on the mail
connection has a deadline. Two assumptions go with it: failures are finite (`MaxFaults`),
and the backend answers at last; the poster's HTTP client has no timeout, so the code
itself does not ensure the second. In `ImapWire` it is weak fairness of `Session`, the
client: it has work to do, or a read with a deadline; nothing is asked of the server, but
that it does not send unasked lines for ever (`MaxChatter`). In `PipeMode` it is weak
fairness of each run and strong fairness of `Launch` for each message: an MTA comes back
to whatever is in its queue, even if other messages keep its runs busy. `MimeParse` is
about one message: weak fairness of `Next`, as the program runs on and a saved message has
an end (`MaxLines`). The environment has no fairness.

CHECK_DEADLOCK is off where the system stops: in `Mime` behind the message, in `ImapWire`
behind the session, in `Pipe` when the queue is empty and everything has arrived, in
`Codecs` at the bound of an input. A call or a session that stands still earlier would be
seen by `Terminates`, `Ends`, `NoStandoff` and `Handled`.

## 4. Proofs

The theorems hold for every value of the constants that the named assumptions
(`BoundAssumption`, `ConfigAssumption`, `FaultAssumption` and their like) allow: any
number of overlapping invocations, accounts, messages, failures. A theorem that needs
more says so in its statement.

| module | theorem | states | needs |
|---|---|---|---|
| `ImapModeProofs` | `TypeCorrect` | `TypeOK` | |
| | `NoLossTheorem` | `NoLoss` | `Careful` |
| | `OnlyDeliveredTheorem` | `OnlyDeliveredAreDeleted` | `HonestReplies` |
| | `DedupTheorem` | `DedupSound` | `HonestReplies` |
| | `DeliveredTheorem` | `DeliveredMeansAccepted` | `HonestReplies` |
| | `ImapKeepsCustody` | `Custody` | `Careful` |
| | `ImapDuplicates` | `DuplicatesAreFaults` | |
| | `ImapRemembers` | `Remembered` | `Lone`, `Legible` |
| `PopModeProofs` | `PopTypeCorrect` | `TypeOK` | |
| | `PopDuplicates` | `DuplicatesAreFaults` | |
| | `PopPromptLines` | `PromptLines` | |
| | `PopOwnLines` | `OwnLines` | `Timely` |
| | `PopNoLoss`, `PopKeepsCustody` | `NoLoss`, `Custody` | `Careful` |
| `PipeModeProofs` | `PipeTypeCorrect`, `PipeNoLoss`, `PipeCutByMta`, `PipeTidy`, `PipeDuplicates`, `PipeKeepsCustody` | `TypeOK`, `NoLoss`, `CutByMta`, `Tidy`, `DuplicatesAreFaults`, `Custody` | |
| `ImapWireProofs` | `WireTypeCorrect`, `WireWhole`, `WireStoreAfterWhole`, `WireNoStandoff`, `WireKeepsCommands` | `TypeOK`, `Whole`, `StoreAfterWhole`, `NoStandoff`, `CommandsKept` | |
| `MailCustody` | `CustodyKept` | the last copy of a message never goes | |
| `TokenCacheProofs` | `TokenTypeCorrect`, `FreshTheorem`, `CurrentTheorem` | `TypeOK`, `FreshAccess`, `CacheCurrent` | |
| `MimeParseProofs` | `MimeTypeCorrect`, `NoTempTheorem`, `OwnPartTheorem`, `WholeTheorem` | `TypeOK`, `NoTempLeft`, `OwnPart`, `Whole` | |
| `CodecProofs` | `KeyTheorem`, `Base64Theorem`, `UUTheorem`, `QuotedTheorem` | `KeyText`, `Base64Body`, `UUBody`, `QuotedBody` | |
| | `DosTheorem`, `HeaderTheorem`, `AccountsTheorem` | `DosLines`, `Unfolded`, `AccountsInOrder` | |
| | `AttachmentsTheorem` | `Attachments` | |

* `HonestReplies` excludes `hollow` and `debug/parse`: a reply that reads as a delivery
  is one. `FindHollow` shows that the code needs it.
* `Careful` in IMAP mode is `HonestReplies` and, here and in POP3 mode, that
  `super_clean` is not combined with `max_pop3_delete`, which together remove the message
  and its saved file undelivered.
* `Timely` is that no read of a POP3 session times out; then `OwnLines` holds throughout,
  whatever the lines look like. `FindStray` shows what two timeouts do.
* `Lone` is that runs do not overlap, `Legible` that `Load` can read the state file and
  UID SEARCH ALL answers. Overlapping runs overwrite each other's file, a file that cannot
  be read counts as empty, and `FindPrune` shows what an unanswered search does.
* `CodecAssumption` is that bytes are bytes, that stray bytes are not base64, and that a
  uuencoded line has no more bytes than its length can say, that the length of an attribute
  fits into 31 bits, and the upper half of its number into 15; `KeyAssumption` that the round
  function and the subkeys have words as values. The bounds of inputs may be any numbers.

**IMAP mode.** `IInv` is `TypeOK` with `ArrivalsOK` (what is on the server has arrived, in
this epoch), `SessionOK` (candidates have arrived) and `JobOK` (a file in hand is full, or
its message was gone before). It does not see custody: EXPUNGE removes what anybody
flagged, so the invariant has to say of *every* flagged message that it is secured.
`DeliveredOK` carries "delivered means accepted" from `Post` to `Clean`; `SafeInv` then has
`StoreOK` (what is about to be flagged), `FlagOK` (what is flagged) and `GoneOK` (what is
gone): each is `Secured`, that is accepted or, under `max_pop3_delete`, kept, unless it was
withdrawn or was gone before. `RecordOK` says of every recorded UID, in a session, in
memory or in the file, that it is accepted or gone under the epoch it is recorded with, and
survives the recreation of the mailbox.

`ImapKeepsCustody` adds `KnownOK` (nothing is saved or accepted that has not arrived) and
maps each action; `HeldOf` shows that a step changes no file in hand but its own, which is
what makes overlapping runs harmless here. `ImapDuplicates` is an accounting: for each
message `accepted <= faults`, or `accepted = faults + 1` and the message is `Settled`,
that is gone, or recalled: in the state file while no run is alive, in the loaded state
while the run is at another mailbox, in the processed set of the session and no longer
among its candidates otherwise. `ScanOK` is why the pruning forgets none: the
candidates of a search for ALL have every accepted message that is still there. Overlapping
runs break the accounting, as they overwrite each other's file, and without a state
file there is none; the property excludes both.

`ImapRemembers` uses the same notions for the file instead of the accepted messages:
`MemoryOK` says that whatever the file has and the mailbox still holds is recalled by the
run, and in the candidates of a search for ALL. So `Rename` finds it in memory. It needs
no honest replies: `ArrivedOK` says only that what is recorded has arrived, so that an
entry cannot begin to matter when a message arrives later.

**POP3 mode.** `PopTypeCorrect` rests on `SessionOK` (what is marked, in hand or to be
fetched is in the mailbox, and these are apart). `PopDuplicates`, for an account that
deletes, is an accounting again: a message taken once without a failure is gone, or goes
at the end of the session (`ToRemove`); once the connection is broken, a failure stands
for each message that may yet be posted (`ToPost`). The others rest on how far the stream
may be behind. `InStep`: without a timeout nothing is unread between commands, and in a
body the file is a beginning of what was sent (`Sent`) and the stream the rest (`Reads`).
After one, the rest of a body may be unread, and one late reply as the last line. It has no
successor that looks like a status line, so only the next RETR may take it for its own;
then that message is read with its own status line in the file, which does no harm,
and nothing is left. `Sound` has this while `Prompt(late)` holds; later it has only that
everything listed is excused. Beside it, a message that is posted while the connection
stands is whole or excused. With `SafeGone` (what the session marks or is about to mark
is safe) this gives `NoLoss` and the refinement.

**IMAP on the wire.** `IInv` of `ImapWireProofs` relates the four places a command can be
at: with the client (`pc`, `at`, `tag`), in `inbox`, in `stream`, in `log`. `LogOK` says
that only the command under way is without a verdict; `InboxOK`, `ChallengeOK` that the
requests on their way are not executed yet, are in the order of their tags, and that
the answer to a challenge follows its command; `DoneOK` that a completion in the stream
tells what became of its command, whatever line of a message looks like one. `SyncOK` is the
core: until a literal is given up (`astray`, after which the session only closes) both
sides agree on which lines are the text of the message, and this text is that of the
message asked for. `FetchOK` adds that the OK of a FETCH is behind the literal: hence
`Whole`, and with `StoreOK` `StoreAfterWhole`. `ReplyOK` (the reply is coming, or its
request is with the server) gives `NoStandoff`. For `CommandsKept` it remains that the
success of one command is never read from the completion of another, which `DoneOK` and
the tag say.

**Pipe mode.** `IInv` is `Types`, `Locals` (what a run knows at each place), `Held` (a run the
MTA waits for has a message of the queue), `Alone` (and no other such run has it), `Honest`
(what the MTA will hear of as delivered is delivered), `NoLoss` and `Tidy`. `PipeDuplicates`
counts `Strays`, the orphans that have yet to post, and `Owing`, whether the MTA has yet to
get the message delivered: `accepted` and the strays exceed the failures by one at most,
and not at all while the MTA owes it (`Paid`).

**Tokens.** `AskOK` says that a run that asks has a refresh token and saves only to a cache
that is configured, `Bounded` that nobody knows a token that was not issued, `Timely` that
the expiry a cache states is not later than the real one, `Fresh` that with rotation the
token a run is about to save is known to it alone. The last is what `CacheCurrent` needs to
survive two overlapping saves.

**MIME parser.** `Shape` says which calls may stand on which in `stack`: every caller is a
multipart walk, but a decoder may call `parseUU`. `Pending` are the files of decoders of TNEF
in the stack; every file on disk is named in the tree or
pending, and a call that ends takes its own away, so that none is left at the end.

`OwnPart` and `Whole` need more: that the parser goes where the writer has been. As long
as the structure is sound, `Agree` says that the calls in progress, from the outermost
one, are walks of the multiparts the writer has opened, with their boundaries, up to the
line that is pending (`Depth`, `Bound`, `Walks`); that within them stands the reader of a
header, or one call that stops at the innermost of these boundaries, or `parseUU` called
by the decoder of a message without parts (`InHeader`, `InBody`); and that what this call
writes belongs to the part the writer is in (`Owns`). A delimiter of an outer multipart
that comes while an inner one is open makes the structure unsound, as text behind a `begin`
does that is no uuencode; from then on nothing
is claimed of the parts to come, but `CallsOK` goes on saying that a call has lines of one
part only. `KeptOK` says that without a failure nothing was missed, every file is in the
tree, and the tree is what is posted. The proof has a step for each line the writer sends
and for each return, call and write of the parser; which of them can meet which line
follows from `LineOK`. `MimeAssumption` asks that no boundary is called like a kind of
content: in the model both are values of `kind`, in the code they are different strings.

**Decoders.** Each theorem has an inductive invariant of its own, which is about its kind of
input; an action of another kind leaves it alone.

* `KeyInv` relates the rounds of the decryption to the trace of the encryption: round by
  round the halves are those of the mirrored round, whatever the tables.
* `Base64Inv`: behind x sextets the loop has written 3x div 4 bytes, its quad is x mod 4,
  and `cur` is the part of the next byte that has come (`Sound64`). Line breaks and stray
  bytes do not change x, and no `=` comes before the padding.
* `UUInv`: behind k groups 3k bytes are written, or all, and the loop has not stopped. Both
  need that the four sextets of a group join to its three bytes, which is arithmetic.
* `TextInv`: there is a set of points at which the tokens of the text begin, each with how
  much of the content is behind it; the text goes on from each to another (`TextTokens`),
  and the loop is at one of them. The writer extends the set at its end. A position of the
  text alone would not do: the 4 of `=41` is a byte of its own to a loop that comes there.
* `DosInv` is the property itself: a new byte moves none of those before it
  (`ShiftAppend`), and comes one place later if it is a bare LF (`ShiftStep`).
* `HeaderInv`: the nodes are the headers so far, each with its lines (`Values`), and `last`
  is the header whose lines reach the end, the root behind a line without a colon, and
  nothing only at the beginning (`Parsed`): this makes a fold go where it belongs.
* `WinmailInv`: there is the file before it was cut (`Source`), and a set of places at which
  its records begin, each with the files up to there; from each but the last an attribute
  leads to another (`Records`). The writer adds a place; the loop is at one of them, or, in a
  file that was cut, behind its end, where nothing is read any more. A position of the data
  alone would not do here either, as contents may look like attributes. An attribute that is
  cut gives a beginning of what it gives whole (`AttachCut`), and is the last.
* `AccountsInv`: the accounts are the blocks with a host up to the cursor, and at the end
  none is behind it (`Collected`). It needs the sort: ranks are a bijection (`before` is a
  strict total order, and no two children have as many before them), so `sortedChildren` is
  the order of the ranks; children of one name have neighbouring ranks, so that the child
  behind the last block of a run is no block; and among them the ranks are as in the file.

**Only model-checked.** Liveness (`Handled`, `Terminates`, `Ends`), which is out of reach of
the prover, as is ENABLED. Of `Codecs`, `SubjectText`: it is about a function that is
recursive over the positions of a subject, and what such a function computes for every input
takes induction over data, which is out of reach as well.

## 5. Findings

* **`FindPrune`**: `runIMAPAccount` ignores the error of UID SEARCH ALL and prunes the
  state to the candidates of the account's search. UIDs outside that search are forgotten
  and their messages delivered again, which the comments in `app/imap.go:98` and
  `imap/imap.go:288` exclude.
* **`FindHollow`**: `post` ignores the HTTP status, so an error with an empty body makes
  `Deliver` return true though nothing was taken. `app/run.go:27` says that it returns
  "whether the message was accepted".
* **`FindStray`**: a POP3 client takes the first unread line for the reply to its command.
  After a late reply to DELE, and a RETR cut at once by a second timeout, whose message is
  refused and stays, the RETR of the next message takes the status line of the one before
  for its own and saves the lines of that one. Delivered, the next message is deleted
  unread. With `max_pop3_delete` it takes three failures. `pop3/pop3.go:133` says
  "Retr downloads the next listed message into a temp file".

## 6. Plan

Done, in this order: IMAP mode and its proofs; the abstract `MailCustody` and its
refinement by the three modes; POP3 mode; pipe mode; the token cache; the MIME parser with its
files; the decoders; the IMAP client on the wire and its refinement of `ImapCommands`; the
cipher; the proofs of the refinements of `MailCustody` and of the duplicates; the proofs of
what `ImapWire` promises; those of `OwnPart` and `Whole` of the parser, and of `Remembered`;
the proofs about POP3 with timeouts; the loops of the decoders turn by turn, and the proofs
about them.

Left, most useful first:

1. `Custody` of IMAP mode without `Careful`, with what `super_clean` and
   `max_pop3_delete` remove together counted as withdrawn.
2. The transcoding of text parts, file by file, with characters that a split cuts.
3. The loop of subjects turn by turn, so that `SubjectText` can be proved as the properties
   of the other decoders are.
4. The exit code of POP3 mode, and the steps of `Dial`, `User`, `Pass` and `Stat`.

## 7. Not modelled

* Charset conversion and the transcoding of text parts (`charset/`, `mimeparse/body.go`):
  a library call for each file. The hazard that a split cuts a character
  (`body.go:149`) is listed without a property for that reason.
* Logging (`clog/`): output only.
* Reading and printing XML (`xmltree/read.go`, `tostring.go`): a library, and formatting.
* The parameters of headers (`mimeparse/header.go`): extraction of strings. What the
  parser does with a content type, an encoding, a boundary or a name is in `MimeParse`.
* Most of the configuration (`config/`): plain settings, the constants of the models.
* The fields of a license key and its date arithmetic (`crypt/`); an expired key is a case
  of `Boot`.
* The form fields and the TLS of a post, the spelling of IMAP and POP3 commands, and
  dot-stuffing: formatting.
* `Client.Fetch` of the IMAP client, which nothing calls.
* That a failed STORE is not reported, and the exit code of POP3 mode. No property is about
  them.
* `debug/parse` in the modes that delete: a mode for tests, excluded by `HonestReplies`.
* A backend that never answers (`poster/poster.go:31`): the HTTP client has no timeout, so
  a run may stand still for ever; the liveness properties assume an answer.
