# LDM-McIDAS decoders: a TLA+ model

The LDM-McIDAS package is a set of small C programs.  The LDM starts one of them for
the products of a feed and writes the products to its standard input; the program
decodes them into files that McIDAS reads: MD files (tables of point data), AREA files
(images), and GINI images.  This directory holds TLA+ models of the parts of that
program whose correctness depends on the order of steps, their TLC configurations, and
proofs checked by TLAPS.

Contents: 1 the system · 2 plan · 3 modules · 4 what is checked · 5 bounds ·
6 fairness · 7 what is proved · 8 disagreements found · 9 what is not modelled.

## 1. The system

### 1.1 Parts

| part | source | state it keeps | operations |
|---|---|---|---|
| Lightning decoder `lgt2md` | `decode/lgt2md.c`, `decode/decode_lgt.c`, `decode/lightning.h` | statics of `write_mcidas` (`mdfile`, `row`, `col`, `record`, `nflash`, `irte`), the stream `mdfp`, the header `mdhead`; on disk one MD file per last digit of the day | read a flash (NLDN or USPLN), change day, find or make the file, file a flash, commit a row, EXIT |
| Routing table | `decode/rtesubs.c`, called from `pnga2area.c`, `cdfsubs.c`, `decode_lgt.c` | on disk `ROUTE.SYS` (256 entries) and `SYSKEY.TAB`; in a process the copy `rtecom` | `getrte_`, `fshrte_`, `sysin_`, `Mckeyin` |
| Image decoders | `decode/pnga2area.c`, `pngg2gini.c`, `zlibg2gini.c`, `area2png.c`, `pngsubs.c`, `readpng.c`, `zlibsubs.c`, `ginisubs.c`, `imgsubs.c` | the output file, the byte counts, the alarm | read the header, choose the file name, decode, write, report |
| Profiler decoder `proftomd` | `decode/proftomd.c`, `cdfsubs.c`, `decode_ncprof.c`, `decode_fsl1.c`, `decode_fsl2.c` | one MD file per last digit of the day; statics `mdhead`; a temporary file | decode a netCDF product, find or make the file, file each station in the low and the high row of the time, write the two row headers |
| `cdftomd` (old) | `decode/cdftomd.c` | MD files | the older profiler decoder |
| McIDAS stream reader | `decode/mc_proto.c`, `main.c`, `mcmain.c` | the packet being read, the position in it, the alarm | `getpkt`, `c_getrec`, `mc_datacopy` with `p_mcfilbuf` and `getpacket`, `mcgetc` |
| LW file layer | `decode/csubs.c`, `lwfile.c`, `lwtmd2.c`, `lwtoa3.c`, `gunrv2.c` | a cache of 8 open files | `c_lwopen`, `c_lwfile`, write to a file at a word address |
| NIDS radar `nids2area` (old) | `decode/nids2area.f`, `wsiinput.c`, `nids_inflate.c` | the raster | read a WSI product, paint radials |
| `nldn2md` (old) | `decode/nldn2md.f`, `nldninput.c`, `nldninput_cf.c`, `nldn_xdr.c` | MD file | the older lightning decoder; its `nldninput` also feeds `lgt2md` |
| Alarm | `decode/alarm.c` | the saved signal action | `alarm_init`, `alarm_on`, `alarm_off`, `alarm_destroy` |
| Directories | `decode/mkdirs_open.c` | the directory tree | `mkdirs`, `mkdirs_open`, `diraccess` |
| Byte and path helpers | `decode/commonsubs.c` | none | `fbyte4_`, `swbyt4_`, `ischar`, `Mcpathname`, `eat_stream_and_exit` |
| Log | `port/misc/ulog.c` | the log descriptor, mask and options | `openulog`, `vulog`, `setulogmask`, `toggleulogpri`, `closeulog` |
| FIFO and queue | `port/misc/udfifo.c`, `port/misc/udqueue.c` | ring buffer; mutex, condition variable, modes | init, setmode, put, get, count, space, destroy |
| Portability | rest of `port/misc`, `port/cfortran` | none | replacements of library functions |
| Libraries | `libpng`, `zlib` | - | vendored |

### 1.2 How the parts interact

* **Pipe.**  The LDM's `pqact` connects the standard input of a decoder to the feed.
  With `PIPE` one process gets product after product; with `PIPE -close`, as the
  distributed `ldm-mcidas-pqact.conf.all` has it, each product gets a process, and
  the process of the next product may start while the last one still runs.  When no
  data comes for 60 s the alarm ends a decoder that reads with an alarm set.
* **Files.**  Decoders meet each other, and McIDAS, only in files: the MD and AREA
  files, `ROUTE.SYS` and `SYSKEY.TAB`.  No file is locked.  What one process leaves
  (complete, or cut off by a kill) is what the next one finds.
* **Post processing.**  A successful `fshrte_` starts the shell script `batch.k` with
  the number of the file; McIDAS jobs run from there.
* **Operator.**  The McIDAS command `ROUTE` adds, suspends and releases entries of
  `ROUTE.SYS` at any time.

### 1.3 What is hard, and what makes each part correct

* **MD files of lightning.**  A flash is written to its slot at once, but the row header
  that makes it visible only when the row is full, when the day changes or at the
  end.  A process killed in between leaves slots that no header covers; the next
  process must continue behind what readers have seen, never over it.  A file is reused
  every ten days.  Correct when: rows fill in order; no header covers an empty slot;
  what readers have seen stays; what a process filed is visible when it ends by itself;
  seen from outside an MD file is a log.
* **MD files of profiles.**  A product fills two rows, column after column, and their headers
  come last; the file is opened anew for each write.  Decoders of other times write to the same
  file at once, two may make it, each may be killed anywhere.  Correct when: a row
  header counts only what was filed; a decoder that comes to its end has filed both
  rows whole, whatever it found there; a whole row stays until its time is filed again.
* **Routing table.**  The entry is read before an image is decoded and written back
  afterwards, from the copy read then; other processes and the operator write it in
  between.  Correct when: a cylinder of n files holds the last n-1 images whole; the
  number in the table is one that was filed; numbers have no gaps; the batch job finds
  the image it is started for; a suspended product is not filed.
* **Queue.**  Threads wait on one condition variable for two conditions, the signal is
  given after the mutex has been released, and the modes are changed without the mutex.
  Correct when: it is a FIFO; nothing comes between the look and the act; not everyone
  waits; a put in FORCE mode succeeds.
* **Stream reader.**  Packets cut off at any byte, a feed that loses its framing, trailers
  made up for a missing end, and two readers of one stream that must agree where a packet ends.
  Correct when: what is copied is the data of the product, in order, and all of it once the
  trailer is seen; McIDAS is given whole packets and exactly one trailer; the product
  comes to an end although the feed goes silent.
* **Image decoders.**  Read errors, signals and time-outs at any byte, writes nobody looks
  at, and two decoders that have one file open.  Correct when: a file of one image has no gap
  and nothing older; an image that is reported as filed is whole; a decoder ends.
* **LW file layer.**  Descriptors in a table that goes around, whose places are closed and
  reused and keep the name of a file that could not be opened.  Correct when: no
  descriptor is lost or stands for two files, and the one that is closed is the oldest.
* **mkdirs.**  Several processes make the same directories, and EEXIST is a failure.
  Correct when: a process fails only if another made a directory of its path meanwhile, and
  never all of them fail.

The hazards, each at its line with the properties that cover it, are listed under
"hazards" in `PROJECT.json`.

## 2. Plan

1. `LgtMd` - the lightning decoder over any number of processes and kills; abstract
   specification `LightningLog`.  **Done.**
2. `RouteTable` - the routing table shared by overlapping image decoders.  **Done.**
3. `Udfifo`, `Udqueue` - ring buffer and thread queue; abstract specification
   `BoundedFifo`.  **Done.**
4. Proofs of the above.  **Done as listed in section 7.**
5. `McStream`, `McDecoder` - the packet reader and the programs linked with it, against
   the text and the packets of the feed.  **Done.**
6. `ProfMd` - the profiler decoder, overlapping processes on one MD file.  **Done.**
7. `LwCache` - the descriptor table of `csubs.c`, composed with `McDecoder`; `MkDirs` -
   any number of processes making paths, composed with `GiniImage`.  **Done.**
8. `GiniImage` - the decoders of compressed images.  **Done.**
9. Proofs for all of them, `PostFindsImage`, `CountIsSlotsInUse` and the refinement
   `ImplementsLog`.  **Done as listed in section 7.**
10. `NotAllWaiting` for any number of threads up to `MaxElts + 1`, and the liveness properties.
   **Done as listed in section 7.**

Not done, and why: two lightning decoders at once (each goes over the flashes of the
other, so that none of the promises above is left to state), and the programs of section 9.

## 3. Modules

| module | models | notes |
|---|---|---|
| `LightningLog` | what the lightning decoder promises | a log per file, growing by batches |
| `LgtMd` | `decode_lgt.c` | EXTENDS nothing of the project; `INSTANCE LightningLog` for the refinement |
| `MCLgtMd` | - | instance for TLC |
| `LgtMdProofs` | - | theorems about `LgtMd` |
| `LgtLogProofs` | - | EXTENDS `LgtMdProofs`: `LgtMd` implements `LightningLog` |
| `RouteTable` | `rtesubs.c` and its caller `pnga2area.c` | any number of decoder processes |
| `MCRouteTable`, `RouteTableProofs` | - | instance with symmetry; theorems |
| `ProfMd` | `cdfsubs.c`, `proftomd.c`, `decode_ncprof.c` | any number of decoder processes |
| `MCProfMd`, `ProfMdProofs` | - | instance with symmetry; theorems |
| `McStream` | the packet stream and the readers of `mc_proto.c` | the feed's state machine and the reader's |
| `LwCache` | `csubs.c` | the table of open files |
| `McDecoder` | `main.c`, `lwfile.c`, `mc_datacopy` and `c_getrec` of `mc_proto.c` | EXTENDS `McStream`, `LwCache` |
| `MCMcDecoder`, `LwCacheProofs`, `McDecoderProofs` | - | instance; lemmas; theorems |
| `MkDirs` | `mkdirs_open.c` | any number of processes, a step per system call |
| `GiniImage` | `pngg2gini.c`, `zlibg2gini.c`, `pngsubs.c`, `zlibsubs.c` | EXTENDS `MkDirs`; any number of decoder processes |
| `MCGiniImage`, `GiniImageProofs` | - | instance; theorems |
| `BoundedFifo` | what a FIFO promises | |
| `Udfifo` | `udfifo.c` | `INSTANCE BoundedFifo` |
| `Udqueue` | `udqueue.c` | EXTENDS `Udfifo`; any number of threads |
| `MCUdqueue`, `UdqueueProofs` | - | instance with symmetry; theorems |

**LgtMd.**  The variables are the MD files (`hdr`, `hday`, `cmax`, `slots`), the
statics of `write_mcidas` (`mdfile`, `row`, `col`, `rec`, `nflash`), the globals `mdfp`
and `mdhead` (`head`: valid or not), and where the process is.  A call of `write_mcidas` is
split at each write that reaches the disk, since the process can be killed between any
two: `ReceiveFlash`, `CloseDay`, then `OpenMissing`/`CreateFile`/`WriteHeader` or
`OpenExisting` or `OpenBare`, then `FileObservation` or `Overflow`, then
`CommitFullRow`.  `Exit` is the EXIT call with the process's end.
- A row header past the last row lies over flash data (the data section follows the
  row headers): `HeaderHits` says which slots.  Read as a row header, flash data gives
  a CMAX that is no column, `DataWord`.
- A file whose maker was killed before the header was written has a header of
  missing codes (`"bare"`): the dimensions read from it are negative, and each flash for it is
  refused.
- The creation of the file (decode_lgt.c:559) and its padding (568-582) are one step.  A process
  that is killed between the two leaves a file of length zero, which is not a state of the
  model: the next process reads nothing from it at 813 and keeps the header of the file it had before
  (none, if it had none).  With dimensions kept that way it may file flashes into a file
  without a header, where the model's `OpenBare` refuses them.
- The literal 1000 of the scan (decode_lgt.c:825) is the number of columns of the
  distributed SCHEMA; the model takes them for the same number.
- Words that are copied from the flash and not read again (latitude, signal, ...) are the flash
  itself; the route is off (`irte` = 0), as `RouteTable` models the table.
- The stream is written through after each call (`fflush`), so a write is one step.
- One decoder runs at a time.  With `PIPE -close` two may overlap; then both
  continue from the same row header.  This is listed as a hazard.
- Records are not parsed.  An input may end behind any flash (`Exit`), which is also what
  a header that announces no flashes does to the products behind it.

**RouteTable.**  An entry's words are status, number, last successful number, condition
code and the execute flag; the words for day, time and memo are left out, and so is the byte order.
Each decoder process goes through `GetRoute` or `GetDefault`, `OpenArea`, `WriteLines` and `WriteImage`,
`FlushRoute`, `FlushRefused` or `FlushFails`, the three steps of `SysIn`,
`PostProcess`, `Exit`; it may `GiveUp` (read error or time-out: the exit path
that does not touch the table) and may `Crash`.  `Route` is the operator, who suspends and
releases the entry or changes its condition (`CC=`).
- Nobody looks at what `write` returns (pnga2area.c:493, 524, 568, 576), and `fshrte_` is told of
  success all the same (591-596).  `WriteImage` therefore leaves a `"whole"` image or a `"short"` one,
  with lines missing or out of place, and the image is filed in either case.  `left` records
  which, for the history of filed images (`Filed`): the promises are that a file of the cylinder
  stays as its own decoder left it (`IsAsFiled`), not that it is whole.
- A refused entry with the execute flag set is written to a stream that is not closed
  (rtesubs.c:391-398): it reaches the table when the process exits, not before.
- `clash` records that two decoders have held the entry at once (between read and
  write-back).  Most promises of the table hold only without that; those that hold
  always are stated without it.
- Two decoders that have one AREA file open at once leave any mixture; the one that opened it first may
  have added lines to it before it gives up or is killed (`WriteLines`).
- A refused image (`FlushRefused`) gives its number back, and the batch file is started all the same,
  for the number that is in the table then (rtesubs.c:388-398, 442-468).
- An entry made for a TEXT product and a table without the product's code behave as
  a table that cannot be opened: the default number is used.

**ProfMd.**  The variables are the MD files (`hdr`, `rowhdr`, `obs`) and for each process
its place, product and column.  A process goes through `Start`, `OpenExisting` or
`OpenMissing`/`CreateFile`/`PadFile`/`WriteHeader`, then `FileLow` and `FileHigh` for
each station, `WriteRowHeader` twice, `Exit`; it may end early by `DecodeFails` or
`Abort` and may `Crash`.  The row is computed from the time (`LowRow`), and the check of the row is
part of the step that opened the file, as it looks at nothing else.
- An observation is its day, time and mode; a product is a day, a time and a number
  of stations.  All stations are filed under the time of the first, as in the code.
- A file whose header is not written yet has missing codes there, or nothing: as a
  number of rows both are less than any row, and the decoder aborts.
- `raced` records files that two decoders found missing at once: then the second
  empties what the first has filed, and no promise is made for the file.  `alone` records for a decoder
  that no other has written to its rows since it began to file.
- The padding is one step after the file was emptied.  The pages go out one after the
  other, but another decoder writes to that file only if it is `raced`.
- Left out: values in an observation, the temporary file, the routing table (`RouteTable`; here
  the file is that of the day), and writes that fail.  A file that cannot be opened
  again for a write ends the process at that place, which is `Crash`.

**McStream, McDecoder.**  The feed is a state machine that sends a packet part by part (`part`,
`packet`, `left`), and may lose its framing for good; the reader is another that knows only
what it has read (`at`, `rcode`, `cnt`, `buf`).  A step hands one unit from the one to the other, so that the
model holds no queue: what is in the pipe has not been sent.  That the two agree on the part is
not assumed; it is what the proofs show.  The process goes through the header (`ReadHeader`,
`HeaderRead`, `HeaderInvalid`), `Begin` or `NotFiled`, then either `CopyFrame`, `CopyData`, `CopyEnds`, `CopyFails` and
`CloseFile` (program `lwfile`), or `ReadRecord`, `RecordRead`, `RecordInvalid` and `UseFile` (the
McIDAS programs), then `drain`, which is the loop at the end of main.  A read ends without
data by `PipeEnds`, `Alarm` or `Interrupt`; `Terminate` is exit in a signal handler.
- The code of the McIDAS library is not in the repository.  It is any client that calls
  GETREC until there is a trailer and asks for descriptors between two packets.
- The two bytes of a length are one unit.  Checksums are any byte; nobody looks at them.
- `getpkt` takes a packet without data, `getpacket` does not: `PacketSizes` and `DataSizes`.
- `filed` is the status that `FSHRTE` is called with.  `mc_datacopy` never returns a
  negative count, so that a failed copy is filed as a success.
- `newer` in `LwCache` is a history variable: per descriptor those opened since.  `Begins` says
  which name begins which other, as a name in the table is compared in the length of the one
  that is looked up.

**MkDirs, GiniImage.**  `mkdirs` calls itself upwards while mkdir says ENOENT and goes down
again: `call` and `lev` hold the direction and the level.  Any other error ends the call, also
EEXIST of a directory that another process made since the last look.  `raced` and
`spoiled` record that another made a directory of the path during the call, and that the process was killed or
refused something.  An image decoder goes through `Start`, `Receive` and `ReadsEOF` (the pipe),
`OpenFirst`, `MakeDirs`, `OpenAgain` or `OpenFails`, then `WriteBlock` per block, `WriteGarbage` or
`BlockFails` when the input is not that of the image, and `Finish`; a refused product is eaten (`HeadRefused`, `EatEnds`).
- An image is a header, block 0, and blocks of lines.  Its pixels, the header's fields and the
  file name made of them are the image itself.
- A signal whose handler returns (`Interrupt`) ends a read with -1, which both programs add to their
  byte counts: from there on bytes are missing (`bad`), and what a library makes of them is `WriteGarbage`, or an error.
- What `write` returns is not looked at.  Where it fails or stops short, the offset of the descriptor (`at`)
  stays behind the number of blocks passed to it (`n`), so that all later blocks of this process come
  too early and none is at its place: `WriteAstray`.  The offset may be within a block, so that two blocks
  at a time are none of any image.
- `opener` and `clean` say who opened a file last, and whether since then only whole blocks of its image
  have come to it, at their places, and its opener's writes have all succeeded.  A decoder whose write failed before
  another opened the file again still spoils the file of the other.

**Udfifo, Udqueue.**  The ring buffer's pointers are indices.  A call of `udqueue_put`
or `udqueue_get` is split where another thread's step can be seen: lock, look, wait,
act and unlock, signal.  Acting and unlocking are one step because only the holder
of the mutex touches the FIFO.  The thread library is not part of the repository:
a signal wakes one waiting thread, if there is one, chosen freely; a wait may end
without a signal; a woken thread competes for the mutex.  `udqueue_destroy` is not
modelled.  No decoder of the repository uses the queue; it is library code.

## 4. What is checked

| run | model | question | answer |
|---|---|---|---|
| `LgtMd` | two files of 2 x 2 slots, three days, six flashes, kills, files that cannot be made | do the MD files stay consistent, over any sequence of kills and restarts, and do readers see a log? | holds |
| `LgtMdLive` | the same without kills, with writes that fail, under fairness | does each flash that was filed become visible? | holds |
| `LgtMdAbort` | one file, no kills | is the file left alone after "Aborting!"? | **violated**, see 8 |
| `RouteTable` | two decoders, a cylinder of two files, three images, all refusals, writes that fail, kills, suspensions and a condition that changes | does the cylinder keep the newest image as it was filed, does the batch file find it? | holds |
| `RouteSuspended` | one decoder | is a suspended product left alone? | **violated**, see 8 |
| `ProfMd` | two decoders, one file for two days, three times of which one has no row, more stations than columns, three products | do rows stay whole when decoders overlap and are killed? | holds |
| `McDecoder` | `lwfile` or a McIDAS program, up to three packets of up to two bytes, noise, cut pipes, signals, the alarm, a table of two files | is the file the text of the product, is McIDAS given the packets, are descriptors kept, does the product end? | holds |
| `McSilent` | the same, smaller | does a process end whose feed goes silent? | **violated**, see 8 |
| `GiniImage` | two decoders, a PNG and a zlib image whose files are two levels apart, no directory there, signals, kills, refusals, writes of one decoder that fail or stop short, the alarm | are directories made, in a bounded number of calls, are files whole, does every decoder end? | holds |
| `Udqueue` | two producers, one consumer, two elements, all modes | FIFO, no wakeup lost, a waited call succeeds | holds |
| `UdqueueStuck` | the same threads, one element, WAIT mode only | can everyone wait? | **violated**, see 8 |
| `UdqueueForce` | one producer, one consumer | does a forced put succeed? | **violated**, see 8 |

Properties of the passing runs, beside a type invariant for each:

* `RowsFillInOrder`, `NoHoles`, `CleanExitPublishes`, `CountIsSlotsInUse`,
  `CoveredSlotsStay`, `ImplementsLog`, `FiledIsPublished` of `LgtMd`;
* `CylinderKeepsImages`, `PostFindsImage`, `LastWasFiled`, `NoGaps`, `OnlyOperatorSuspends` of `RouteTable`;
* `NoHoles`, `FiledIsWhole`, `WholeRowStays`, `HalfMadeStays` of `ProfMd`;
* `FileIsText`, `WholeAtTrailer`, `RecordsAreThePackets`, `NoDescriptorLost`, `NoFileTwice`,
  `OldestIsClosed`, `ProductEnds`, `ClosedEnds` of `McDecoder`;
* `FailsOnlyByRace`, `NotAllFail`, `FileOfOneImage`, `FiledIsWhole`, `EveryCallCounts`,
  `EveryDecoderEnds` of `GiniImage`;
* `NotAllWaiting`, `NoLostWakeup`, `WaitedPutSucceeds`, `ImplementsFifo` of `Udqueue`.

Each is paired in `PROJECT.json` with a mutant of the code that violates it.  Some
mutants are operators of the modules, marked as such; nothing else uses them.

`ImplementsLog` and `ImplementsFifo` are refinements.  For the log the mapping is
what a reader can see: the slots up to the column in the row header, row after row,
for as long as the rows are full.  For the FIFO it is the elements from `head` on.

## 5. Bounds and why they are enough

* Two columns and two rows give every case of the place of a flash (first and last
  column, first and last row, full file).  Three keys in a row header and five in a
  slot are the SCHEMA's own numbers, so a header past the last row covers the same slots
  as in a real file.  Two files and three days give a day change, a return to an
  earlier day, and a file reused for another day.  Six flashes fill a file and go on
  past its end.  The liveness run has five, enough to fill a file and to change the day.
* A cylinder of two keeps one image while the other file is written over, and three images take the
  number around it.  An image that is neither the newest nor to be overwritten next exists only
  in a larger one: with failing writes and a changing condition that takes too long for a run, and
  `CylinderKeeps` and `BatchFileFindsImage` prove it for any size.  Two decoders
  give every pairwise interleaving; `clash` is what more of them could cause.  Condition
  code 1 passes and 4 refuses an image that was decoded; the codes differ in nothing
  else for this caller, which always reports success.
* One file for two days is the file used again ten days later.  Three products let one be
  filed over another, or over what a killed decoder left, while a third is filed
  beside it; an hour has two profiles (`Hour`, `Step`, `Interval` are 60, 6 and 6 in the
  code).  Two columns with one to three stations: fewer, as many and more than fit.
* The byte 240 is both data and the start byte of a packet, and 6 both data and a length that would be
  accepted: a reader that is one part off goes on instead of stopping.  Noise has a unit too small,
  one that is no code (51) and one too large for a length (768).  Two data bytes at fixed values tell a lost, doubled or
  swapped byte.  Three packets before the trailer are the header and two of data, so that
  the reader crosses from the data of one to that of the next.  KEYIN packets differ from
  the trailer in nothing for the copy.  Three names, of which one begins another, and a
  table of two make it go around.
* Two decoders race for one, two or three directories of a common path.  Two blocks of lines behind the header are a first and
  a last one; a buffer of two holds less than the image and more than a block, as the real one.
  Writes fail for one of the two (`Failing`), in any block and any number of times, before or after the
  other has opened the same file.
  More than two decoders, and failing writes of all of them, are left to the proofs.
* Two elements let the ring wrap with an element in it.  Two producers and a
  consumer give a competition for the mutex among a kind and between kinds.

`MaxProd`, `MaxFlash`, `MaxPackets` and `MaxData` bound the feed, and `Failing` the processes whose writes may
fail; all else is finite by itself.

## 6. Fairness

Three runs have liveness properties.  `FairSpec` of `LgtMd` assumes weak fairness of every kind of step of the running process
(the operating system schedules it), of its start while there is a feed, of the delivery
of flashes, and of its end: an input is finite, and where the LDM does
not close the pipe the alarm ends the read after 60 s (decode_lgt.c:53-58, nldninput.c:29-35,
270-284).  It does not assume that a file can be made or that a write succeeds.  Kills
are left out there: a killed process publishes nothing, which is how the program is.

`McDecoder` assumes that the process takes its own steps (`Begin`, `NotFiled`, `CloseFile`), that a
read of a closed pipe ends (`PipeEnds`), and that an alarm that is set goes off.  It assumes nothing
of the LDM, which may stop to send at any place, nor of signals.  `GiniImage` assumes only that the alarm goes
off (main sets it once).  The runs without such properties state no fairness.  Deadlock is not
checked where processes end: `McDecoder`, `McSilent`,
`GiniImage` and `ProfMd`.

## 7. What is proved

All theorems are checked by TLAPS for every value of the constants that the named
assumptions (`LgtMdAssumption`, `RouteTableAssumption`, `UdfifoAssumption`,
`UdqueueAssumption`, `ProfMdAssumption`, `McStreamAssumption`, `LwCacheAssumption`,
`MkDirsAssumption`, `GiniAssumption`) allow; TLC evaluates the assumptions in the runs.

| theorem | module | says |
|---|---|---|
| `TypeCorrect` | `LgtMdProofs` | types |
| `RowsInOrder` | `LgtMdProofs` | `RowsFillInOrder` always |
| `CoveredStay` | `LgtMdProofs` | `CoveredSlotsStay` |
| `NoHolesUnlessWritesFail` | `LgtMdProofs` | `NoHoles` always, when writes reach the disk |
| `CountUnlessWritesFail` | `LgtMdProofs` | `CountIsSlotsInUse` always, when writes reach the disk |
| `CleanExitIsVisible` | `LgtMdProofs` | `CleanExitPublishes` always |
| `WhatIsFiledIsPublished` | `LgtMdProofs` | `FiledIsPublished` under fairness, if the decoder is not killed and its input ends |
| `DecoderIsALog` | `LgtLogProofs` | `ImplementsLog`, when writes reach the disk |
| `RouteTypeCorrect` | `RouteTableProofs` | types |
| `NumbersHaveNoGaps` | `RouteTableProofs` | `NoGaps` |
| `CylinderKeeps` | `RouteTableProofs` | `CylinderKeepsImages` always, for a cylinder of any size |
| `LastNumberWasFiled` | `RouteTableProofs` | `LastWasFiled` always |
| `DecodersNeverSuspend` | `RouteTableProofs` | `OnlyOperatorSuspends` |
| `BatchFileFindsImage` | `RouteTableProofs` | `PostFindsImage` always |
| `DecodersInTurn` | `RouteTableProofs` | decoders that follow one another never clash, so that what `CylinderKeepsImages` and `NoGaps` say holds without a condition |
| `FifoTypeCorrect`, `FifoIsFifo` | `UdqueueProofs` | the ring buffer alone: types, and it implements `BoundedFifo` |
| `QueueTypeCorrect`, `WaitedSucceeds`, `QueueIsFifo` | `UdqueueProofs` | the same with threads, and `WaitedPutSucceeds` |
| `FewLoseNoWakeup`, `FewNeverStuck` | `UdqueueProofs` | `NoLostWakeup`, `NotAllWaiting` for up to `MaxElts + 1` threads, a queue of any size |
| `ProfTypeCorrect` | `ProfMdProofs` | types |
| `HeadersCountWritten` | `ProfMdProofs` | `NoHoles` always |
| `ProductIsFiled` | `ProfMdProofs` | `FiledIsWhole` always |
| `WholeRowsStay`, `HalfMadeFilesStay` | `ProfMdProofs` | `WholeRowStays`, `HalfMadeStays` |
| `McTypeCorrect` | `McDecoderProofs` | types |
| `OnlyTextIsCopied`, `AllOfItAtTheTrailer` | `McDecoderProofs` | `FileIsText`, `WholeAtTrailer` always |
| `McIdasSeesThePackets` | `McDecoderProofs` | `RecordsAreThePackets` always |
| `DescriptorsAreKept`, `OneDescriptorPerFile`, `TheOldestGoes` | `McDecoderProofs` | `NoDescriptorLost`, `NoFileTwice`, `OldestIsClosed` |
| `SilentProductEnds`, `ClosedPipeEnds` | `McDecoderProofs` | `ProductEnds`, `ClosedEnds` under fairness |
| `ImageTypeCorrect` | `GiniImageProofs` | types |
| `OnlyRacesFail`, `SomebodyWins` | `GiniImageProofs` | `FailsOnlyByRace`, `NotAllFail` always |
| `OneImageNoGaps`, `FiledImageIsWhole` | `GiniImageProofs` | `FileOfOneImage`, `FiledIsWhole` always |
| `CallsComeToAnEnd` | `GiniImageProofs` | `EveryCallCounts`, and the count is a natural number |
| `AlarmEndsDecoders` | `GiniImageProofs` | `EveryDecoderEnds` under fairness |

**LgtMd.**  `RowsFillInOrder` is not inductive: a row header is written from `row` and
`rec`, so the invariant must say that what the process holds agrees with the headers on disk.
The strengthening says, while a process has a file open whose header it has read: every row before
`row` is full, no row after it has anything, and `rec` is between the column on
disk and the column in use.  It also covers the process past the last row, where headers
go over data and the matrix of `cmax` does not change any more.  `CoveredStay` follows
from it, as a write goes to the slot behind `col`, which no header covers.
`NoHoles` needs in addition that the slots up to `col` of the current row are
written; that breaks when a write may fail, hence the assumption in the theorem.
`CountIsSlotsInUse` adds that the count goes with the place in the file: a process that finds
a file counts what the headers say, and a file that is being made has nothing in it.
`CleanExitIsVisible` carries the flashes filed by the process as a further invariant:
each is in its slot (or under a stray row header), and either covered or in the current row at
most at `col`.  `WhatIsFiledIsPublished` uses the same invariant: a decoder that is not killed forgets a flash
only where it is covered, keeps it pending otherwise, and where the process is down nothing is
pending.  It is down again and again, because behind the end of the input every step leads on from the
change of day to the opening, the file, the slot, the row header, and from `ready` to the end.

**LgtLogProofs.**  The refinement needs to know what is in the slots, not only that they are
written.  `SInv` says of a file that has not been damaged past its last row: the slots in use hold
flashes, their numbers grow from slot to slot, and all are below that of the flash
at hand.  With that, the rows being full in order makes the place of an entry in the log the place of
its slot in the matrix (`PlaceOfEntry`), and the log is as long as what the headers cover
(`LogIsCovered`).  Then a step either writes a header that publishes the slots behind the
old end (`HeaderPublishes`), or leaves the log alone, or happens to a file that is full
(`LogStep`).  A log may not shrink, so a write that is lost under a header that is not breaks
it; the theorem assumes `~WriteMayFail`.

**RouteTable.**  `TInv` is types, what a decoder has at each place, that the table's
number is the last successful one whenever no decoder is at work on it, and that without
a clash the copy of the one holder agrees with the table.  From it follow `NoGaps`
and, in `OnlyFilingMoves`, that without a clash the number changes only when an image
is filed.  `KInv` adds that the i-th newest image has the number i - 1 places back from the
table's (around the end of the cylinder, `KNumbers`), that the files of these images are as their decoders left
them (`KFiled`), and that the file being written is the next one and nobody else's (`KMine`).  The next number differs from the last `Size - 1`, which is an
argument about numbers in `NextIsOldest` and `ForwardAndBack`.  `LInv` says that every number that may
still reach the table has been filed under; it needs no assumption about clashes.
`PInv`, for the batch job, says that behind `fshrte_` the number in a decoder's copy is one that an image was filed under:
its own, if the condition was met (`FiledHere`).  That a number given back is that of the
newest image is `Coupled` again (`GivenBackIsLast`).
`DecodersNeverSuspend` needs only that a copy that may be written back was read from a released entry.

**Udqueue.**  Types and the FIFO's refinement lift from `Udfifo` because a thread's step
is a step of the FIFO or leaves it alone.  `WaitedPutSucceeds` rests on: a thread between
look and act holds the mutex, and the room or the element it saw is still there.

One condition variable serves both kinds of waiters, so that a signal can go to a thread that cannot
use it.  `NoLostWakeup` says that it does not happen among few threads: producers and consumers never wait together, and
while consumers wait there are at least as many threads awake that look for an element, or are about
to signal one, as there are elements (`ForElements`; `ForRoom` for producers).  With `Blocked` (a
thread about to wait has seen that it must, and nobody has changed that) it is inductive.  The step that could break it is a thread that blocks
while one of the other kind waits, say a producer, on a queue that is full.  Then `MaxElts` threads are
awake for its elements, besides the producer and the one that waits, which makes `MaxElts + 2`.
With at most `MaxElts + 1` threads (`FewThreads`) it cannot be; `Exchange` and `WithoutTwo` are
the counting.  So all can wait only if all are of one kind (`FewNeverStuck`).
The bound is sharp: with `MaxElts + 2` threads TLC finds all of them waiting (section 8), for one, two
and three elements.

**ProfMd.**  Three layers, since decoders overlap and one may be anywhere when another
empties the file.  `TInv`: a decoder's rows, columns and counts are within its product.
`MInv`, for files that two decoders did not make at once (`raced`): one makes it, the header stands
while others file into it, and before that no row header is there.  `FInv`: behind a decoder all columns of its row are
filled, so that it never counts more than there are; together with `NoHoles` it is inductive.
`AInv` is for `FiledIsWhole`: a decoder in whose rows nobody else has been finds its own
observations there.
`WholeRowStays` and `HalfMadeStays` follow from `MInv`: nobody files into a file while it is made or left half made,
and nobody makes one that has its header.

**McDecoder.**  The reader goes in lockstep with the feed (`Sync`): the part it takes the next unit for is
the one the feed is about to send, and what it keeps of the packet is what was sent.  It can
lose step only by a unit that is no head of a packet, and then it stops to read, so that
nothing it does with the bytes has to be followed.  The text and the records then follow packet by
packet.  The table of open files is proved apart in `LwCacheProofs`: going around from `ld`, the places
in use are ordered by the time they were opened at (`OrderIsAge`), a table that is not full has been filled up to `ld` and only
the place at `ld` may be without a descriptor (`PlacesInOrder`), and no name is there twice (`UsedIsNamed`); an
open that fails keeps all three.

**GiniImage.**  For the directories, `DInv` says that, while none is killed or refused, somebody has its file open or somebody goes on behind
the deepest directory made so far (`DeepestGoesOn`): only one that has gone deeper can be in its
way.  So not all can fail.  `GInv` adds to `FileOfOneImage` what a decoder has
done at each place (`Places`, `LoopDone`), that the last to open a file is at work on that path, and that in
a file that is not spoilt its offset is where it should be (`InPlaceSoFar`).  A write in place keeps this
(`WriteAllStep`); any other spoils the file or reaches none of it (`WriteAstrayStep`).
`CallsComeToAnEnd` is a measure: `mkdirs` goes up the path, then down, and `CallsLeft` is what remains of
both; every call of the decoder lowers it and other decoders do not touch it.

**Liveness.**  The theorems `WhatIsFiledIsPublished`, `SilentProductEnds`, `ClosedPipeEnds` and
`AlarmEndsDecoders` state the property under `FairSpec`.  They have one kind of hypothesis
in common: that the steps the fairness is about can be taken where the argument needs them (`StepsPossible`,
`CanGoOn`, `AlarmIsPossible`).  These are ENABLED formulas, for which this prover has no rules, so they are
stated and not proved; they are state predicates, TLC finds them true in every reachable state of the runs' instances, and
the runs check the properties themselves without them.
The rest - that each of these steps leads on, that no step of any process leads back, that an alarm is set whenever
the decoder reads - is proved.  `WhatIsFiledIsPublished` also takes the end of the input
(`FeedEnds`) as a hypothesis: `MaxFlash` bounds it in the model, but that a counter below a bound comes to
rest is an induction over temporal formulas, which is out of reach as well.

Only model-checked: the ENABLED formulas and the end of the input just named; what a theorem would say
of `NoHoles`, `CountIsSlotsInUse` and `ImplementsLog` when writes may fail (they do not hold then, and the runs that check them exclude it);
and that all threads can wait when there are more than `MaxElts + 1`.

## 8. Disagreements found

* **LgtMdAbort.**  After "Output row ... exceeds #rows allowed ... Aborting!"
  (decode_lgt.c:842-845) the decoder returns -1, which `decode_lgt` does not look at:
  `row` and `col` have moved, and the EXIT call writes the row header of a row that
  does not exist, over flashes of the first row.
* **RouteSuspended.**  `getrte_` promises "<0 - Do not file product" (rtesubs.c:126) and its
  callers have a message for it (pnga2area.c:465-470, decode_lgt.c:779-782), but for a suspended entry it
  returns 0 (rtesubs.c:252-254), and the image goes to the default number.
* **UdqueueStuck.**  WAIT is "wait until action possible" (udqueue.h:18).  With a queue of one element and
  three threads the one signal can wake a thread of the wrong kind, which
  waits again; then all wait although an action is possible.
  TLC finds it exactly when there are more than `MaxElts + 1` threads.
* **UdqueueForce.**  FORCE is "discard oldest if necessary" (udqueue.h:21), but
  `udqueue_setputmode` changes the queue's mode, then the FIFO's, without the
  mutex (udqueue.c:114-118): a put between the two fails on a full queue.

* **McSilent.**  `mcgetchar` sets an alarm "in order to handle the situation in which we're being fed by
  an LDM and the end of the data product is never seen" (mc_proto.c:32-36), but `main` reads the rest of the input with no alarm set
  (main.c:319-321): where the LDM neither sends nor closes the pipe, the process waits for ever.

## 9. What is not modelled

* libpng, zlib, cfortran: vendored, and most of the lines in the repository; hence the map covers
  only a small share of them.
* `area2png`, an encoder that nobody pipes into, and the old programs `nids2area`, `nldn2md` and `cdftomd`,
  which the target `basic` of the distributed Makefile does not build.
* The McIDAS library, which is not in the repository: `lwtmd2`, `lwtoa3` and `gunrv2` are any client
  of the table of open files.
* `mc_proto.c`: the routines that nothing calls (`mcread`, `mcskip`, `mcgetw`, `getsync` and the like).
* `c_spout`: it logs, and may remove an MD file (a hazard); the McIDAS library decides when.
* `diraccess`, which nothing calls.
* Parsing of NLDN and USPLN records: a flash is a number and a day.
* `zlibg2gini` with lines shorter than its 533-byte header, where the count of lines comes out otherwise.
* Pure conversions: byte order, unit and date conversions, file names.
* The log (`ulog.c`): no other part depends on its state.
* Overlapping lightning decoders, writes that fail in `ProfMd`, and `udqueue_destroy` with waiting threads:
  listed as hazards.  In `LgtMd`, `RouteTable`, `McDecoder` and `GiniImage` writes do fail.
* A lightning decoder that is killed between the creation of an MD file and its padding (section 3).
* In `McDecoder` the alarm goes off only in a read; in the code it may also go off between two of them,
  where its handler only logs.  The next read of a packet sets it anew; the loop at the end of main
  then runs without one, which is what `McSilent` shows.
