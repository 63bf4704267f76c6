# A formal model of sane-ipp

sane-ipp is a SANE backend that scans over IPP: it finds devices by DNS-SD,
creates a scan job at the device, polls the device for the pages of the job,
decodes the PNG images it sends and hands rows of pixels to the frontend. The
modules here model the parts of it that keep state, TLC checks them on small
instances, and TLAPS proves the main results for every value of the constants.

    tlc -config MCSaneIppThreads.cfg MCSaneIpp.tla      check a run
    tlapm SaneIppProofs.tla                             check the proofs

## The system

| part | source | state | operations | used by |
|---|---|---|---|---|
| scanning calls | `sane-ipp.c` 651-975 | handle: session, `multi`, `page`, `scanning`, `cancel` | `sane_start` `sane_read` `sane_cancel` `sane_close` | the frontend |
| scan session | `ipp-scan.c` | job, decoder, `pages`, `multi`, `net_eof`, a pointer to `cancel` | `new` `next_page` `read` `finish` `free` | scanning calls |
| scan job | `ipp-proto.c` 746-1204 | connection, `reading`, `finished`, `format` | `create` `next_document` `read` `cancel` `free` | scan session |
| PNG decoder | `ipp-png.c` | flags, queue of decoded rows | `new` `write` `finish` `read` `eof` `free`, callbacks of libpng | scan session |
| DNS-SD discovery | `ipp-mdns.c` | browsers, pending resolvers, device list | `discover` and the callbacks of Avahi | device assembly, tools |
| device assembly | `ipp-zeroconf.c` | device list | `discover`: merge, sort, remove duplicates | device list, tools |
| options | `ipp-opt.c` | what is offered, option values | `new` `get` `set` `scan_region` | `sane_control_option`, job start |
| device list, open | `sane-ipp.c` 150-520 | list handed to the frontend, handle | `sane_get_devices` `sane_open` | the frontend |
| log and trace | `ipp-log.c` | level, one trace file, a mutex | `init` `exit` `set_level` `log` `trace_open` `trace_close` | everybody |
| attribute decoding | `ipp-proto.c` 190-744 | none | decoders of a response | `sane_open` |
| configuration | `ipp-conf.c` | settings, read once | `load` | the log, at `sane_init` |
| tools | `ipp-discover.c`, `ipp-probe.c` | none | one call each | the user |

The backend starts no thread: everything runs in the threads of the frontend
and by plain calls. Three things break in: `sane_cancel()`, from a signal handler
or another thread, which shares the two words `scanning` and `cancel` with the
call in progress; the threads of a frontend that uses several devices, which meet
in the log; and the network, which may refuse, break off, or ask to be polled
again. libpng and Avahi call back from inside of a call into them.

What is hard, and what makes each part correct:

- *Scanning calls.* A cancel between any two steps of a call; calls in any
  order; failures at every step. The session and page pointers are there
  whenever `scanning` and `page` say so; a signal's cancel ends its own page, is
  not lost, and ends the call; a feeder's job survives its pages.
- *Scan session.* Data, the end of data, and the cancel flag race. EOF means
  the whole page; loops end; rows are not piled up.
- *Scan job.* One connection for requests and image bodies. No request while a
  body is unread; no job left running unasked.
- *PNG decoder.* Producer and consumer work at their own pace. Bytes come out
  in order, each once; the queue stays inside of its memory.
- *Discovery.* Announcements, answers, removals and failures in any order. It
  ends when it has settled; a device is addressed in the preferred way;
  resolvers do not outlive their device.
- *Device assembly.* The services of a device, in any order and on several
  interfaces, become one device with all of its endpoints, the best one first.
- *Device list, open, trace.* Failures at every step. Pointers handed to the
  frontend stay good, nothing is left behind, the failure reported says most.
- *Options.* Corners are set one by one, clamped in one unit and kept in another.
  The region asked for is on the device; a value out of range is reported (one
  that is rounded is not, see below), a saved one comes back; a request names only what the service has.
- *Log and configuration.* Whether there is a trace is looked at before the mutex
  is had. Nothing is written to a closed file; the last setting decides.

`PROJECT.json` lists the hazards line by line.

## The modules

    PngContract      what a decoder call does, as operators on two counters
      PageDecoder      abstract decoder built of them
      IppPng           the real one, with its queue; implements PageDecoder
      IppJob           a job, the service and the connection
        IppScan          the session: steps of next_page, read, feed
          SaneIpp          the SANE calls and sane_cancel() on top
                           implements SanePages, what a frontend is promised
    IppOpt           the scan attributes, the options made of them, the request
    MdnsDiscover     ipp_mdns_discover()
    Zeroconf         ipp_zeroconf_discover(), its steps
      SaneDevices      the device list, opening and closing, the trace file
    IppConf          ipp_conf_load()
      IppLog           levels, messages and traces under threads
    InductionLemmas  induction for the proofs, as lemmas about sets of numbers
    *Proofs          theorems;  MC*  instances for TLC

**PngContract, PageDecoder, IppPng.** The bytes of an image are numbered in the
order they leave libpng. In the contract a decoder is a record of flags and two
counters, `rows` and `taken`: what it holds is the bytes between. `IppPng` has
the queue itself (`queue`, `cap`, `len`, `pos`) and takes `ipp_png_queue_add()`
apart into rewind, growth (one doubling per step) and copy, so each of them is
an action and the refinement to `PageDecoder` shows that they lose and repeat
nothing. Encoded data is a sequence of what libpng makes of it: `"info"`,
`"row"`, `"end"`, `"error"`, `"more"`. `MCIppPng` also evaluates that cutting
data into chunks makes no difference (`CuttingDoesNotMatter`), which is what
lets the other modules cut it anywhere.

**IppJob.** `http`, `reading`, `finished`, `format` are the fields of
`struct ipp_job`. `wire` is what is still to be read of a response body, `svc`
and `docs` the job at the service. One action per call and outcome
(`DocReady`, `DocWait`, `DocDone`, `DocError`, `ReadData`, `ReadStop`, ...): no
call looks at anything another thread may change, so none is taken apart.
Histories (`heard`, `told`, `clash`, `stray`) record what the properties speak
of. `JobSpec` lets a client make any call at any time; the proofs are about any
such client, the runs have the backend for it. A job that has lost its connection
has to count as finished (`JobTypeOK`), or it would be asked over no connection.

**IppScan.** `pc` is where the thread is. A step runs from one test of the
cancel flag, or one call that may block, to the next; the diagram at the top of
the module shows the order. The data of `Recv` is any prefix of what is on the
wire.

**SaneIpp.** The handle and the calls on it. `sane_start()` is six steps, among
them the test (`StartTest`), the clearing (`StartClear`) and the arming
(`StartArm`) of the flags, because a signal may come between any two.
`SaneCancel` is the signal handler, atomic with respect to the thread it
interrupts; `CancelTest` and `CancelStore` are the same call made by another
thread (`Threaded`). `SetSource` changes the source between two pages.
`MidPageStart` lets the frontend call `sane_start()` inside of a page, as one
does that gives up a page of a feeder.

**SanePages.** What a frontend is promised, with nothing of how: a page is open or
not, `got` bytes of its image have been given, a call is in progress or has a
status. `SaneIpp` implements it (`PagesAreServed`): the image is the body last
announced, what was given is `png.taken`, and the status is there as soon as it
is settled, which is before the call has cleaned up.

**IppOpt.** From the answer to Get-Printer-Attributes (`Scanner`) by way of the
arrays of `ipp_opt_new()` (`ModesBuild`, `SourcesBuild`, `ResolutionsBuild`,
`AreaBuild`) to the values, one action per kind of option set, and on to what they
amount to (`Request`, `JobRequest`, `Estimate`). Corners keep both of their units:
hundredths of a millimetre inside, words of 1/65536 mm outside, with the
conversion that cuts off and the one that rounds. `last` is what the frontend was
told. Keywords are strings, because the tables that turn them into modes are what
the properties are about. What is offered of a kind is a set, with the array the
frontend sees made of it where its order is looked at; the search for the nearest
resolution is the loop of the code, as a function of how far it got
(`NearestSoFar`).

**MdnsDiscover.** One action per callback of Avahi and per way out of the loop.
A resolver points to the allocation (`dev`) it was started for, so a device
that goes away and comes back is another one. `said` is what the device is known
by, out of the TXT records of its two services; a later answer adds to it and
does not overwrite (`Learn`). `EarlyRemove` lets a service go away while it is
being resolved.

**Zeroconf.** `ipp_zeroconf_discover()` folds one finding per step (`ZcMerge`),
sorts the devices (`ZcSort`) and then the endpoints of one device per step
(`ZcDedup`). What `ipp_mdns_discover()` returns is any sequence of any of the
findings, so every order of the answers is there, and every discovery that was
cut short; a finding that did not resolve is skipped, which is the same as one
that was not reported. Strings are numbers in the order `strcmp()` has for
them; a UUID is a number and a spelling. `qsort()` leaves what compares equal
in any order. The loop that drops repeated endpoints is a function of how far it
got (`KeptOf`). Two assumptions on the constants come from the code: address
literals are numbers, because `strcmp()` orders them, and the device of
`SANE_IPP_DEVICE` has the one endpoint `ipp_zc_device_from_env()` gives it.

**SaneDevices.** The calls around a device: one action per call and way out of
it, `OpenNextEndpoint` for each endpoint tried in vain. `lists` counts the
device lists in memory and `devs` are positions in the list kept, which is what
the pointers of the SANE list come to. `trace` is the handle whose trace file is
open; the file may fail to open, or not be wanted.

**IppConf.** A file is a sequence of lines, a line a section, a setting or
something skipped. `ConfLoad` goes through them as the parser does, line by line
(`Lines`) and file by file (`FilesInTurn`); `AsWritten` says of the same files which
line decides, by its position.

**IppLog.** `ipp_log()`, `ipp_log_trace_open()` and `ipp_log_trace_close()` taken
apart at the mutex, `fopen()`, `fclose()` and each line written, one `pc` per
thread. `out` is what is in the files. `ipp_log()` looks at `file` before it waits
for the mutex (`Log`) and again when it has it (`TestFile`).

## The runs

| run | checks | bounds |
|---|---|---|
| `png` | `TypeOK` `BytesInOrder` `Refines` | rows of 2 bytes, 4 rows, reads of at most 3: reads end inside of rows, the queue grows twice and is rewound |
| `scan_signal` | `CancelHitsItsPage` `CancelNotLost` `CancelEndsTheCall` `CallsReturn` | 2 images, 2 bodies, waits of one step; the frontend reads pages to their end |
| `scan_threads` | `TypeOK` `NoNullSession` `FeedNeverStarved` `FinishedJobNotCancelled` `JobTypeOK` `OneExchangeAtATime` `NothingLeftRunning` `NoCancelAfterTheEnd` `FeederJobSurvives` `OneJobAtATime` `PagesAreServed` | 3 images, three bodies (whole, spoilt, empty), rows of 2 bytes; cancel in two steps, `sane_start()` inside of a page: a body left unread is followed by another one, twice |
| `mdns` | `TypeOK` `DoneExactlyWhenSettled` `UriSuitsTheDevice` | one instance with both service types, 3 announcements (so one repeats), two IPv4 and one IPv6 address, room for two; one service answers with `rp`, the other with `rs` |
| `devices` | `TypeOK` `FindingsAreFolded` `OneDevicePerUuid` `BestEndpointFirst` `DevsPointIntoKept` `ListsReleased` `FailureSaysWhy` `TraceIsOfAnOpenDevice` | four findings of two devices: two services with two spellings of a UUID and two names, one of them on two interfaces (so endpoints repeat), and a device without a UUID; two handles |
| `options` | `TypeOK` `RequestIsOffered` `RegionFitsTheDevice` `SavedAreaRestores` `CornerIsKept` `NearestResolution` `EstimateIsOfTheMode` `ReloadIsTold` | four services: one with all there is, one whose size only its media tell, one without an area, one with no options; corners below, inside and above the range, resolutions below, at and between those offered |
| `log` | `TypeOK` `TracesAreFramed` `SettingsDecide` | 3 threads, 2 trace files, 5 calls; 11 sets of files that override one another; two values of the environment, or none |
| `scan_lost_cancel` | violation of `CancelNotLost` | `scan_signal` with `sane_start()` inside of a page |
| `mdns_remove` | violation of `DeviceBeingResolved` | `mdns` with `EarlyRemove` |
| `devices_order` | violation of `ListStaysPut` | `devices`, one handle, opened by URI only |
| `devices_trace` | violation of `TraceFollowsTheDevice` | `devices` |
| `options_exact` | violation of `CornerIsWhatWasTold` | `options` |

Two images are enough for a second page on the same job and for a job that
ends between them; a body of five events with two rows has a middle to be cut
or cancelled in, and bytes behind its end. Jobs, calls and cancels are not
bounded: the runs go on to the next job and the next device.

In `devices` calls follow each other without end. The two handles are
interchangeable, so the run uses symmetry (it checks no liveness). `ret`,
`said`, `traced` and `shown` are histories or statuses that decide nothing.

In `options` a word inside of the range, 10.003 mm, is not a whole number of
hundredths, so it is rounded on its way in and cut off on its way out. The office
device has an origin beyond its edge, a resolution offered twice and two of no
use, and keywords that collapse. Calls follow each other without end.

In `log` three threads are the least that have one hold the mutex while two wait
for it with different calls. Five calls are a trace begun, one begun on top of it,
one ended, and two messages among them. Threads are alike, and so are files. The
configuration is not cut down: the run that varies it is the one that starts.

In `mdns` the addresses of a family are alike.

`mdns` stops with the return of the one call it models, so deadlock is not
checked there; everywhere else it is.

### Fairness

Only `FairSpec` of `SaneIpp` states any: weak fairness of `CallStep`, a step of
the calling thread inside of a call. It is justified because each exchange has
a timeout (`httpSetTimeout()` in `ipp_dest_connect()`) and each wait is made of
sleeps of 100 ms. Nothing is assumed of the service: it may ask to be polled
again for ever, and `CancelEndsTheCall` holds all the same. `CallsReturn` is
about the other loops, so it excepts a thread that waits for a page.

### What the violations show

- `CancelNotLost`: `sane_start()` tests the flag at line 863 and clears it at
  873. With a page still being scanned `scanning` is set, so a signal between
  the two lines raises the flag, which is then cleared: the scan goes on,
  against the comment at 52-55.
- `DeviceBeingResolved`: `AVAHI_BROWSER_REMOVE` frees the device; the resolvers
  that were started for it keep the pointer (`ipp-mdns.c` 72, 381, 698-700).
- `ListStaysPut`: a merged device is named after its first finding and the list
  is sorted by name. Two services with different names, heard in another order,
  move the device (`ipp-zeroconf.c` 525, 562 against 576-578). `sane_open()`
  looks for the device under that name, in a discovery of its own.
- `TraceFollowsTheDevice`: there is one trace file. A second `sane_open()` takes
  it, and the first `sane_close()` ends it for both (`sane-ipp.c` 450-453, 542).
  That there is one, "of the device most recently opened", is intended
  (`ipp-log.h` 55-58); it is the comment in `sane_open()` that claims more.
- `CornerIsWhatWasTold`: a corner is rounded to hundredths of a millimetre
  (`ipp-opt.c` 825), but only one that was out of its range is replaced and
  reported `INEXACT` (827-832). 10.003 mm is kept, and read back, as 10.00 mm
  without a word, against `ipp-opt.h` 86-88, and `ipp-opt.c` 83-85, "so that no
  rounding happens". What does become of a corner is `CornerIsKept`.

`UriSuitsTheDevice` makes one exception, which follows from the code: a
device whose first answer names no scan resource (`rs`) gets the URI of its
printer, and keeps it when a later answer names one, unless that answer brings
a better address (`ipp-mdns.c` 432-440).

## The proofs

Every invariant and action property of the runs is stated by a theorem, for all
values of the constants; liveness is not.

Assumed: only the named `ASSUME`s on the constants (a row has a byte, bodies are
sequences of events with the header first, bounds are natural numbers, lengths of
a device fit a `SANE_Word`).

**InductionLemmas.** Arguments that go by induction over numbers use the least
number that breaks the claim (`Least`), from which `Induction` and `InductionUpTo`
follow for sets of numbers. A loop of the code is a function on `0 .. n` whose
value at `i` is made of its value at `i - 1`; that there is one, for any number of
turns and any step of a turn, is `LoopsCompute`. Each such function of the model
then gets a lemma with its equations (`KeptLoop`, `UsableLoop`, `LinesLoop`, ...),
and everything else is proved from these.

**IppPngProofs.** `QueueInv` strengthens `TypeOK` with `Balance`:
`taken + (len - pos) = rows * RowBytes`, and the `i`-th byte from `pos` is number
`taken + i`. Types alone say nothing of what a read will find; with `Balance`,
rewinding an empty queue, growing it and copying a row each keep the next byte
at `pos + 1`. It gives `QueueTypeCorrect` and `BytesComeInOrder`. The refinement
(`QueueImplementsDecoder`) also needs `RowInv`: a row is being added only to a
decoder that is open, has its header, and has neither failed nor ended. Then the
last copy of a row is the row of the abstract decoder, and the steps before it
are stutters.

**SaneIppProofs.** First the job under any client: `JobInv` adds what the job
remembers of its end: if an end was heard of, or a cancel tried, then `finished`
is set, and if it is set one of the two is so.
It gives `JobTypeCorrect`, `ExchangesDoNotOverlap`, `JobsAreNotForgotten`,
`EndedJobsAreNotCancelled`.

Then the backend: `NoNullSession` speaks of the idle thread and of points inside
of the session; to be inductive it needs to be known at every point of both
calls. `Whereabouts` says it: which call is at which point (`CallAt`), where
there is a session, and that it is one with the service's job (`SessionAt`),
where there is a page, and that a page has a session and a decoded header
(`PageAt`), and that `scanning` is down once a call has begun to tear down
(`ScanningAt`). With it every step of the backend is a step of `JobNext` or
none, so `SaneIpp` implements `JobSpec` (`BackendIsAJobClient`) and the theorems
about jobs hold of it (`BackendJobs`).

**SaneIppPageProofs.** What depends on cancels and on the data of a page.
`CancelsHitTheirPage` needs that a flag seen by a call was meant for its page
(`WantedInv`). It is about signal handlers, which the code promises: another
thread may find an earlier page being scanned and raise the flag when the next one
is, which then ends; `wanted` is set where `scanning` is found set, so the model
tells the two apart. `CancelsAreNotLost` is proved under `SignalsOnly`, where the
flag is down whenever `sane_start()` clears it (`QuietStart`);
`scan_lost_cancel` shows that the assumption is needed. `FeederJobsSurvive` needs
that a session on a feeder knows it (`FeederInv`).
For `PagesServed`, the refinement to `SanePages`, the invariant relates three
places the image is in: `Flow` says that the decoder has had the announced body
up to what is left on the wire, and stopped nowhere in it; `Asks` says what a
thread at each point of a call knows of the queue. Both rest on lemmas about data
fed in pieces (`AddsUp`, `GoesOn`, `Stopped`, `HeaderFirst`), which also give
`CutsDoNotMatter`: `MCIppPng` assumes of short chunks, for TLC to evaluate, what
it states of all. The same invariant
gives `FeedsAreNeeded` and `BackendTypeCorrect`; with what the session remembers
of a job's end (`AskedInv`), and with the body being closed wherever the end of
the data was seen (`FreeInv`), it gives `FinishedJobsAreLeft`.

**SaneDevicesProofs.** `TraceIsOfAnOpenDevice` is inductive by itself.
`ListsReleased` needs to know what is in memory during a call: `ListsInv` counts
the list `sane_open()` goes through, and says that nothing is kept while
`sane_get_devices()` looks for more. `OneDevicePerUuid` is strengthened to
`Distinct`: the list is a sequence of things that have a UUID; then it is kept
by a device put in front (`Prepended`), one changed (`Updated`) and any new
order (`Rearranged`). `FailureSaysWhy` follows from `SaidInv`: what will be
returned agrees with what the endpoints tried so far have come to. Assumed: the
findings are a finite set of well-formed ones, no name is mistaken for a URI,
and no handle for none; and the two assumptions of `Zeroconf` above.

`DevicesInv` is the type of the lists together with `CallInv` (findings come
once, and there is a list only during a call). The SANE list is well made
because the loop that builds it takes usable devices only (`UsableBuilt`), and
stays so because it is replaced or dropped together with the list it points into
(`KeptSteps`). It gives `DevicesTypeCorrect` and `HandedOutStaysGood`.

`NearestEndpointFirst` says of devices long since kept that their endpoints are
in order. `OrderInv` follows them from where they are made: during a call each
is what `endpoint_new()` makes of its address with the interfaces of this call
(`MadeHere`), so one with the same URI is the same endpoint (`SameUri`); the
devices the loop has passed are in order. Without `MadeHere` two endpoints with
one URI could be sorted apart, and the loop, which looks at neighbours, would
keep both. With it, endpoints that repeat are neighbours after the sort
(`Trichotomy`, `SameKey`), and the loop keeps all, once each (`KeepsInOrder`,
`DedupIs`).

`NoFindingIsLost` counts devices and groups of findings. `FoldInv` says that
there is an assignment `h` of the findings folded so far to the devices
(`Folded`): no device without one, each made of its own and no others, all
findings of one device together, and no two devices with the same. A finding
makes a new device (`FoldedNew`) or joins one (`FoldedOld`), for which the list
needs to be `Distinct` and spellings not to matter (`OneDeviceIs`); sorting
permutes `h` (`FoldedPermuted`), and dropping repeated endpoints loses no URI
(`FoldedUpdated` with `DedupIs`). At the end `h` is a bijection from the places
of the list to the groups. `Folded` also says that a device has the name of one
of its findings.

Two of the properties that runs refute are proved for the case in which they do
hold. `OneTraceFollowsItsDevice`: with one device open at a time the trace stays
with it (`TracedInv`). `ListStaysPutWithNames`: if the services of a device have
one name (`NamesAgree`), the SANE list depends on what was heard and not on the
order. Device lists are sorted once they are complete (`SortedInv`), the SANE
list keeps that order (`AllUsableInOrder`), and what the frontend has is a
sorted list of the devices of what was heard (`ShownInv`). There is only one
(`OneList`): of two sorted sequences with the same keys neither is ahead of the
other at any place, for then more of its keys than there are places would have
to come before (`NotAhead`).

**MdnsDiscoverProofs.** `CallInv`: the counter of pending work is the number of
resolvers, each of which has a turn of its own, so starting two and unlinking one
count right (`StartedCount`, `Unlinked`). `ListInv`: each device has a name of
its own, no more addresses than there is room for, and a URI that suits what it
has said (`Suits`), which an answer keeps whatever the order (`FoundKeeps`).

**IppOptProofs.** `IInv`: the area offered is one (`AreaOK`), a corner stays
within its range in both units (`CornersOK`), and it is kept to what the frontend
was told, which is what it asked for, moved into the range (`ToldOK`). The arithmetic is in three lemmas: a hundredth comes back from its
word (`ThereAndBack`), rounding does not leave a range (`RoundingStaysWithin`),
and it moves by half a hundredth at most (`RoundingIsClose`). `CornersAreKept`
follows for any value, `CornersAreAsTold` for values that are whole hundredths.
`OptionsTypeCorrect` and `RequestsAreOffered` need to know what the arrays are
made of: modes, sources and resolutions that a service listed and the tables
know, in the order of the code, and that the choices come from them
(`ValuesInv`). `ResolutionsAreNearest` follows the search through the array
(`NearestFound`): what it has so far is as near as all it has passed, and the
lower of two as near. `EstimatesAreOfTheMode` compares the table of modes with
the test for gray, for any set of color modes.

**IppLogProofs.** `TracesAreFramed` says what files look like when nobody writes.
It is strengthened by who has the mutex (`MutexInv`), by what a thread relies on
at each point inside of it (`PlaceInv`), and by what each file is meanwhile
(`FilesInv`): being written, or framed and closed.
`TheLastSettingDecides` goes by induction over the lines of a file and over the
files: what the parser has so far is what the last line that counts says
(`ConfLoadIsAsWritten`), for any files of any length. `LogTypeCorrect` adds the
ranges of the level, the configuration and the number of messages (`ScalarInv`).

**Only model-checked.** Liveness (`CancelEndsTheCall`, `CallsReturn`), which is
out of this prover's reach. The five runs that expect a violation have their
counterexamples from TLC.

## What is not modelled

- libpng: it is taken to report the end of an image only after its rows, and to
  report nothing after an error. Pixel layout and the size of rows.
- Avahi: one callback at a time, none after the poll was told to quit.
- A Create-Job that reached the service while its answer did not reach the
  client leaves a job without a name; `JobRefused` keeps none.
- A `sane_cancel()` before `sane_start()` has set `scanning` is ignored by the
  code, and by the model.
- `sane_exit()` with devices still open, whose sessions it leaves behind; the
  frontend of the model closes them first.
- Two threads that both call `sane_start()` or `sane_read()`: SANE forbids it.
- Printer attributes, which are displayed and logged only; the coding of IPP
  messages, which CUPS does; the tools, which print what one call returns.
- Characters: of paths, names, addresses, lines of a configuration, messages of
  the log. Two device names may come to the same path of a trace. A value in a
  configuration file keeps a comment that follows it, unlike the example in
  `ipp-conf.h` may suggest.
- Lengths of 32768 mm and more, which a `SANE_Word` does not hold
  (`OptAssumption`).
- The failure of an allocation, except of the lists handed out.

What the model of the options shows beside its properties: options set between
two pages of a feeder do not reach the job that is running; a region of no size
may be asked for.

## What is left

Hazards without a property stay so for want of something in the code that says
what should happen: each has its note in `PROJECT.json`. `CancelsAreNotLost`,
`OneTraceFollowsItsDevice`, `ListStaysPutWithNames` and `CornersAreAsTold` have
conditions, which the runs that expect a violation show to be needed;
`CancelsHitTheirPage` has one that is what the code promises. `DeviceBeingResolved` has no such
theorem: what would make it hold, a service that is not removed while it is being
resolved, is not up to this program.
