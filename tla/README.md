# TLA+ models of the PS3HEN payload

PS3HEN is a homebrew enabler for the PlayStation 3.  Its core, `src/PS3HEN/payload/`,
is a *payload* that lives in the kernel (lv2) of the console: it hooks kernel
functions and adds system calls, and by that emulates disc drives, redirects
paths, patches modules and loads plugins.  These modules model the parts of the
payload that keep state over calls and are entered by several threads; each
definition is translated from the C source, and `PROJECT.json` (`map`) names the
lines it stands for.  Line numbers without a file are those of `storage_ext.c`.

Contents: 1 inventory, 2 modules and their correspondence with the code, 3 runs
and bounds, 4 fairness, 5 proofs, 6 what the code does otherwise than it says,
7 what is not modelled, 8 possible extensions.

## 1. Inventory

| Component | Source | State it keeps | Operations | What makes it hard |
|---|---|---|---|---|
| Disc request protocol | `storage_ext.c` | `mutex`, a mutex per storage handle, `command_queue`, `result_queue` (one element each), `skip_emu_check`, `loop`, `could_not_read_disc` | hooks of the BDVD device and of the storage system calls, the dispatch thread, `device_event`, faked insertions, mount and unmount | several threads, two orders of locking, answers without a sender, events faked under the lock |
| Disc mount state | `storage_ext.c` | `disc_emulation`, `discfile`, `discfile_cd`, `discfile_proxy`, `discfd`, `base_offset`, `cd_sector_size`, the three disc types, `subqfd`, the proxy's port | mount (PS3, DVD, BD, CD, PSX, PS2, proxy), unmount, device events | failures half way through a mount, globals that outlive a mount |
| PSX video mode | `storage_ext.c`, `main.c` | `forced_video_mode`, `video_mode`, the patched instruction of VSH | detection, forcing, patching, restoring | order of insertions, mounts and size queries |
| ISO reads | `storage_ext.c` | open part, file position, cached sector, `disc_key`, regions, `encrypted_iso` | one read command | part boundaries, failing calls, keys of other images |
| CD reads | `storage_ext.c` | sector cache, `cached_sector` | one read command, raw or cooked | overlap arithmetic, failing reads |
| Proxy reads | `storage_ext.c` | cached sector, port and queue of the client | one read command served by VSH | client that does not answer |
| SCSI emulation | `storage_ext.c` | uses the above | `process_cmd` and the CD and generic variants | layout of answers |
| PS2 discs | `storage_ext.c` | parameters for `ps2emu`/`netemu`, their files | mount, shutdown hook | state that outlives the kernel |
| Path mapping | `mappath.c` | list of mappings, its size, `condition_apphome`, `found`/`mcount`/`count`, `map_mtx`, `oph_mtx` | `map_path`, `sys_map_path(s)`, `open_path_hook` | the hook re-enters itself, results are used after unlocking, allocation failures |
| SELF loading and dynamic patches | `modulespatch.c`, `storage_ext.c`, `patch.h` | `sleep_done`, the hooks and saved instructions | `post_lv1_call_99_wrapper`, `enable_patches`, `disable_patches`, `syscall_handler` | patches are taken out while other threads run, busy waiting with interrupts off |
| Module patching | `modulespatch.c` | keys and position of the module that is decrypted | `modules_patching`, `pre_modules_verification` | one static context for all loads |
| Plugins | `modulespatch.c` | `vsh_plugins[]` | load, unload, boot lists | slot checked and taken in two steps |
| Syscall 8, PS3 manager API | `main.c`, `ps3mapi_core.c`, `cobra.c` | keys, partial disabling, access state | operation codes | sequences of disabling and enabling |
| Boot | `main.c` | - | `main` | order of initialisation |
| Homebrew blocker | `homebrew_blocker.c` | lists read once | tests of opened paths | runs inside the open hook |
| PSP | `psp.c` | UMD file, decryption options | set, switch, prepare | protocol of several calls |
| Configuration | `config.c` | `CobraConfig` | read, check, save | damaged files |
| Region, power button, licences | `region.c`, `sm_ext.c`, `make_rif.c`, `crypto.c` | little or none | hooks | - |
| Installer | `henplugin/` | a task in VSH | check, download, install, remove | aborted downloads |
| Loader, tools, pages | `stage0_file/`, `Hashcalc_new/`, `PS3HEN_GEN/`, `Make_PKG/`, `html/` | - | - | run before or outside of the payload |

How they interact.  A client in VSH (webMAN, multiMAN) calls syscall 8, which
calls the mount functions, `map_path` and the plugin functions.  The kernel calls
the hooks: its storage stack those of `storage_ext.c`, every open of a file
`open_path_hook`, every load of a SELF `post_lv1_call_99_wrapper` and
`modules_patching`.  The hooks of the disc drive hand most work to one dispatch
thread and wait.  The loading of a SELF uses the same thread and the same queues
to take the payload's patches out of the kernel and to put them back.  The open
hook runs the homebrew blocker and the licence maker, which open files
themselves.

The properties that make a component correct are in section 2, with its module.
The places where each of them could go wrong are the `hazards` of `PROJECT.json`.

## 2. Modules

Every component has a module of its own with Init, one action per operation or
step, Next and Spec; its properties are in `...Props` or at the end of the
module, small instances in `MC...`, proofs in `..._proofs`.  Definitions that a
comment calls *Mutant* are plausible errors of the code; `PROJECT.json` pairs those
without "(by hand)" with the property that must catch them.  Statements under "By hand" at the
end of a module do not hold of the code; section 6 says how to see that.

### 2.1 The drive

**DiscDispatch, DiscService** - who talks to the dispatch thread.  One program
counter per thread.  `Begin` chooses the hook or system call (`op`);
`CheckSkip`, `LockHandle`, `LockMutex` are its steps up to the critical section;
`NotDispatched`, `StartRead`, `StartCommand`, `StartFakeEvent`,
`Mount`, `Umount` what it does there; `Send`, `Receive` the exchange with the
dispatcher (`do_read_iso` and its likes); `UnlockHandle`, `UnlockMutex` the way
out.  `Take`, `Serve`, `Reply` are `dispatch_thread_entry`.  `FakeEvent`,
`SampleLoop`, `EventLock`, `EventUpdate` are `device_event` (1749), which the storage
manager (`StorageEvent`), the dispatcher and `fake_reinsert` all run: it samples
`loop` without a lock and locks only when it is 0.  `CallAgain`, `Authenticate`,
`GetDiscType` and the faked events up to `ReinsertedEventDone` are `emu_disc_auth`, which
takes the mutex, may enter itself (`calls`), and has it released by the hook that
`get_disc_type` calls (2890, 2812): its four events run without the lock, and its own unlock at 2957
fails unless the drive could not be opened.  `crossed` records that such an event cleared `loop` (1095) before an event the dispatcher
fakes had looked at it; dispatcher and sender then wait for each other.  A sector is abstracted to the
image it came from, an image to a model value.
Properties: `OwnAnswer` (answers carry no sender, yet are never mixed up),
`NoEventLost` (no send meets a full queue; its return is ignored),
`OnlyUnlockedEventRaces` (the disc types are changed by two threads at once only
when a real event slipped past the lock or a reinsertion has lost it), `Answered`,
`MutexReleasedUnlessCycle` (the asynchronous read takes the mutex of the device and then the
handle's, the asynchronous command the reverse; only if those two lock each other out, or the
dispatcher is blocked by a crossed event, is the mutex kept for ever).  `DiscService` is the abstract specification: a service that
answers one request at a time from the image that is mounted, mounts and unmounts
only between requests, and answers every request.  `ServiceSpec` states that
DiscDispatch implements it under the refinement mapping `phaseBar`, `discBar`.

**DiscMount** - what is mounted.  An action is one critical section of
DiscDispatch: `MountFile` (PS3, DVD, BD), `MountNoFile`, `MountCd`,
`MountCdBadFile` (CD and PSX), `MountProxy`, `MountProxyBusy`, `MountProxyFails`,
`Umount`, `Read`, `Insert`, `Eject`, `OtherEvent`.  The variables are the globals
of `storage_ext.c`; the history variables `orphan`, `stale`, `resized` record that
one of the three known partial failures has happened, and the properties say
exactly what these spoil: `ReadsOwnImage`, `AddressedByImage` (offset and sector
size), `NothingLeftBehind`, `ProxyHasPort`, `TypesAgree`.

**PsxVideo** extends DiscMount: every action of it with what it does to the video
mode, and `DeviceSize` (`do_video_mode_patch`), `Detect`, `ForceVideoMode`.
`PatchTakenBack`: whenever VSH has asked for the size of another disc its code is
the original.

**IsoRead** - reads of ISO images.  `StartRead`, then one pass of the loop of
`process_read_iso_cmd` per action: `OpenPart`, `ReadPart`, `ReadZeroes`, and
`FinishRead`; `MountIso`, `UmountIso` around them.  Every call that can fail may
fail.  Sizes are in sectors; a delivered sector is the sector it was read from and
the key and counter it was decrypted with.  What a read of an uninitialised buffer
finds is a member of `Junk`.  Properties: `DeliveredInPlace` (with the cache),
`OpenOnActivePart`, and `Decoded`: decrypted is what lies in a region of the image,
with its own key, inside the buffer.

**CdCache** - reads of CD images.  `ReadCached`, `ReadThrough`, `ReadAround` are the
three ways a command can begin (answered by the cache, through it, around it,
672-754), `Fill`, `Chunk`, `Finish` and their failing variants the loop.  `cached`
may be `Unset` (0x80000000), for which the distance is computed as the C code
does.  `CdDelivered`: what is delivered is the image, and so is the cache.

**ProxyRead** - discs a client serves.  `NoVsh`, `NativeRead`, `ReadCached`,
`StartRead` are the ways a read begins, `Chunk` and `ChunkFails` one pass of the
loop of `process_proxy_cmd`, `Finish` and `End` its end; `MountProxy`,
`UmountProxy` around them, and `OpenNtfs`, an open of an NTFS image by any thread
at any time, whose path is where the key will be looked for.  `spoiled` records
that a failed read has filled the cache, `sound` that sector 0 of this disc was
read while the path named no other image.  `ProxyServed`: what is delivered and cached
is the disc's, decoded with its key when `sound`.

**CdFormat** - which sectors a CD image is made of: the size the caller put beside
the number of tracks, shifted by 4 or by 8 (`get_cd_sector_size`), or what the file
looks like (`DetectSize`: the volume descriptor of sector 16, looked for behind 24
bytes for each size).  `FormatAsAsked`, with the two sizes that are lost named.

**TextLines** - `read_text_line`, byte by byte (`ReadByte`), which reads the lists
of plugins and of blocked homebrew.  `ListIsAsWritten`: the lines that come back are
the lines of the file without their outer spaces, none lost, none twice, as long as they
fit the buffer.

**DriveCommands** - the SCSI and device commands answered for an image: tables of
contents, track and disc information, sizes, READ CD with the subchannel of
LibCrypt games, which is told to the dispatcher in pieces (`ReadSector`) from pages
that are allocated and freed.  `AnswersDescribeImage`: tracks and lead-out in the answer
are those of the image, and a sector comes with the subchannel written for it.

**DiscAuth** - `emu_disc_auth`, which calls itself and tells the inner call by a
static flag (`TestLoop`, `SetLoop`, `ClearLoop`), `get_disc_type` and
`init_mount_hdd0`, against events.  **RealDisc** - the type of a disc that is in the drive while no image is
mounted: sectors are read with retries, the drive may report success for
nothing, and a mark in the buffer tells (`ReadAttempt`, `ReadSucceeds`).
`DiscsAreKnown`: a thread at rest holds neither the mutex nor the flag, and the type of a
disc is that of what is recorded on it, up to reads that fail for good.

### 2.2 Emulators, licences

**Ps2Boot** - from the mount of a PS2 image over the shutdown of the console to the start of
`ps2emu` or `netemu`: the image is a DiscFile (`MountFile`) or a DiscFileCD (`MountCd`, which a
failure leaves allocated: `orphan`), a mount may be refused (`RefuseImage`); the parameters and the status file that are written (`SaveParams`,
`Prepare`), what a reboot keeps, and what the emulator finds.  `BootsWhatIsMounted`.

**PspUmd** - the UMD image: header (`ReadHeader`), reads by two threads of the
emulator under a mutex that is opened or made at the first read (`OpenMutex`,
`LockUmd`), while a client sets another file and the emulator is restarted.
`UmdReadsAreWhole`.

**LicenceFiles** - `make_rif`: the search for the activation key in the cache,
`rap.bin` and .rap files of USB devices and disk (`LookCache`, `ReadRapBin`,
`ReadRapFile`), `act.dat` and its copies, the account of the registry, the licence
that is written; every file may be missing, and a .rap file cut off.  Two threads open licences: the
first open that `make_rif` does itself releases `oph_mtx`, and the buffers are at fixed
addresses.  `met` records the opens that overlapped, `doubt` why the cached RAP may be another
content's.  **RifKey** - the key of the licence,
step by step of its rounds, with the borrow.  `LicencesAreRight`: a licence is of
its content and user, and no round confuses two keys.

### 2.3 Files, modules, patches

**MapPath** - mappings and the open hook.  A path is a sequence of pieces of text;
`entry[p]` is the list entry at address `p`, `at` its place in the list.
`StartMap`, `StartUnmap` are the system calls; `Insert`, `InsertFails`,
`TableFull`, `Update`, `Delete`, `DeleteNone`, `ClearTable` the paths through
`addMapping`, `deleteMapping` and `deleteAllMappings`.  `StartOpen`, `LockOph`,
`OpenInHook`, `Block`, `Pass`, `LockMap`, `Apply`, `ApplyFails`, `Redirect`,
`Release`, `Open` are one open of a file, with the opens its hook makes itself: the
second lock of `oph_mtx` by its owner fails, which nobody looks at, and the inner
unlock releases the outer lock.  After `Redirect` the kernel still holds a pointer
to the entry's `newpath`, which it reads in `Open`, with no lock held.  `touched`
records that another thread has written or freed that string, `starved` that an
allocation failed inside a chain.  Properties: `UniqueOld`, `ChainReset`,
`OpensItsMapping`, `ProtectedStays`, `Completes`.  A job with `lead` is a path as "//dev_bdvd": the
length is taken (143) before its beginning is skipped (146-152), so the entry it makes is `long`
and no comparison finds it; `UniqueOld` is about the entries that can be found.

**SelfPatches** - loading SELFs while the patches come and go.  `Wrap`, `Hold`,
`Drain`, `SendToggle`, `ReceiveToggle`, `DelayOver`, `Decrypt` are the thread that
loads; `LockRead` ... `UnlockRead` a read of the emulated disc; `Spin`, `Unspin` a
system call that meets `syscall_handler`; `Take` ... `Reply` the dispatch thread, for
which taking the hooks out and putting them in are several steps.  Threads that
spin with interrupts suspended keep their hardware thread; the others need one of
the rest (`Runs`).  `crossed` records that a load used the queues, as it does
without the mutex, while another load or read did.  Properties: `DelayUnpatched`,
`PatchedAgain` (nothing is hooked twice), `LoadEnds`.

**KernelPatches** - the four lists of patched places (`main`, `disable_patches`,
`enable_patches`, the removal for syscall 8) run step by step by their actors;
a place holds the kernel's, the payload's or a wrong instruction.  `KernelCodeAgrees`:
what a hook uses was made before the hook was put in, originals are kept, no patch is in while a
game runs, all are back afterwards.

**Hooks** - `patch.h`: a hook is a stub of instructions, one macro per kind and
number of parameters (`Code`); threads run through it one instruction at a time
(`RunStub`, `Execute`) while another thread hooks and unhooks (`SaveFirst`,
`LinkStub`, `ChangeFunction`).  `HooksAreSound`: every call keeps the contract of its
kind (`Contract`: whom it calls, with which parameters, whose result), with stack,
TOC and link register restored, and a function that is not hooked is the kernel's.

**ModuleDecrypt** - `modules_patching`: chunks of modules decrypted with counter,
keys and position in static variables, by overlapping loads, while `hen_audio.off` comes and
goes (`SetAudio`).  `OwnKeysAndPatches`.

**VshPlugins** - slots under clients that load and unload by slot, name and id, and
the boot lists.  `overlapped` records that two loads took one slot, `stolen` which modules were
unloaded behind the table.  `TableIsTrue`: a slot names a module that runs, and
one that runs is in a slot.

**SyscallGate** - `syscall8` with its levels, switches and access key, the syscall
table and the homebrew blocker's lists.  `Toggles`: the switch of Cobra is reached by function 0
alone, whose parameter says on or off (`main.c` 712, 719).  `GateReopens`: from every state three calls
of a client with the key lead back to an open gate, unless wrong keys have locked it.

**ProcessApi** - the PS3 manager's calls on other processes, one action per step
that may fail, with what each has allocated, patched and copied.
`ProcessCallsClean`: the mapping routine is restored, pages are given out as asked,
buffers are given back, both copies of a console id agree.

**ConsoleSettings** - configuration, region patches and the request of the power
button.  `RegionServed`.

### 2.4 Start and installer

**HenInstall** - the loader stage, `main`, the start-up thread of henplugin and the
threads of VSH it starts, with power failures at every step; what is on the disk
stays.  The thread copies the defaults of toggles one by one (`LookForOpposite`,
`CopyDefaultFile`) while VSH may set one (`SetToggle`; `overtaken` records one set in between), and looks
for the view of the installer, which VSH opens some time after it was asked (`missed` records
that it looked too early).  `InstallUndisturbed`, `TogglesAgree`, `ThreadEnds`.  **HenSession** - a session of that thread that
installs nothing: `ReloadXmb`, `RestoreAct`, `CountFiles`, `LookForDefault` and
`CopyDefault` (filecopy), `ClearFile`, while users and toggles change.
`SessionAgrees`: choices stand, what was chosen is cleared, act.dat is restored.

### 2.5 Instances and how modules compose

DiscDispatch shows that mounts, unmounts and served reads exclude each other;
DiscMount, IsoRead, CdCache, ProxyRead and DriveCommands therefore take each of them as atomic
towards the others.  PsxVideo composes DiscMount with the video mode, and
`MCPsxVideo` takes both modules' properties into one run.  SelfPatches repeats the
queues of DiscDispatch in their simplest form because its users break the
discipline on which DiscDispatch rests; KernelPatches spells
out the lists of patches that SelfPatches takes as one.

`MCReads`, `MCMedia`, `MCServices` put components that share no state into one
instance each: `focus` chooses which of them moves in a behaviour, the others stay
where they begin (`Pinned`), so the states add up and are not multiplied.  What
they state together is a conjunction there: `ServedAsStored`, `DiscsAreKnown`,
`LicencesAreRight`, `SettingsServed`.

## 3. Runs and bounds

| Run | Instance | Distinct states | Checks | Shows |
|---|---|---|---|---|
| `disc_safety` (MCDiscDispatch) | 3 threads (1 of VSH), 1 handle, 2 images, raw reads of up to 2 sectors, 2 nested authentications | 2,086,195 | `OwnAnswer`, `NoEventLost`, `OnlyUnlockedEventRaces` | Three threads, two images and one shared handle: no answer, event or image is mixed up in any interleaving with mounts, device events and reinsertions by a thread of VSH that has lost the mutex. |
| `disc_shared` (MCDiscDispatch) | 2 threads of VSH, 1 shared handle, 1 image; fair | 269,212 | `Answered`, `MutexReleasedUnlessCycle`, `ServiceSpec` | Two threads that share one storage handle: every request is answered, the mutex is released again and again unless the two asynchronous calls lock each other out or a reinsertion has cleared loop under a faked event, and the whole refines the service of DiscService. |
| `mount_video` (MCPsxVideo) | 2 images (NTSC .PNG; PAL with LibCrypt file), 2 sector sizes, forced modes 0 and 1, kinds of disc cut down by FewTypes | 1,718,680 | `ReadsOwnImage`, `AddressedByImage`, `NothingLeftBehind`, `ProxyHasPort`, `TypesAgree`, `PatchTakenBack` | Mounts of every kind, refused and failing ones, unmounts, reads, device events and size requests of VSH in any order: reads come from the image mounted last, its offset and sector size fit, nothing is left behind, the disc types agree, and the patch of VSH is taken back for other discs. |
| `mount_libcrypt` (DiscMountProps) | 3 images (.PNG, with LibCrypt file, plain), 2 sector sizes | counterexample | `LibCryptGameKeepsItsSize` | A raw PS1 image with a .lsd or .sbi file beside it is given the number of sectors of that file. |
| `map_safety` (MCMapPath) | 2 threads, 3 addresses, table of 3, a mounted game, its path with a leading slash, a chain and a cycle of mappings | 5,340,033 | `UniqueOld`, `ChainReset`, `OpensItsMapping`, `ProtectedStays` | Two threads that mount, unmount and map in bulk while they open files, with nested opens, failing copies and allocations and a full table: the table stays consistent, protected mappings stay, and an undisturbed open goes where its chain of mappings leads. |
| `map_live` (MCMapPath) | 2 threads, 2 addresses, a cycle of two mappings; fair | 169,443 | `Completes` | Every mapping, unmapping and open of two threads comes to its end, although a cycle of two mappings can be made and the hook is entered again from within. |
| `patches_safety` (SelfPatchesProps) | 2 loads, 1 reader, 2 callers, 2 hardware threads; fair | 182,770 | `DelayUnpatched`, `PatchedAgain`, `LoadEnds` | Two threads that load SELFs, a reader of the emulated disc, two threads in system calls, on two hardware threads: the patches are out while a game is let through, are put back, nothing is hooked twice and reads are answered, as long as no two threads use the queues at once; a load then ends unless spinning system calls hold every hardware thread. |
| `reads_safety` (MCReads) | ISO: 3 images (three parts, encrypted, DVD), buffer 2, offsets to 6, reads to 4 sectors; CD: image 5, cache 3, buffer 4, starts and counts to 6; proxy: 3 discs, chunks of 2, reads to 4; CD formats: 3 numbers of tracks, 3 headers; texts to 5 bytes, buffer 4 | 354,971 | `DeliveredInPlace`, `OpenOnActivePart`, `Decoded`, `CdDelivered`, `ServedAsStored` | What is read is what is stored. Image files in parts, encrypted images and junk that looks like a header; CD images through the cache of raw sectors, and the sector size they are mounted with; discs of a network client in chunks; lists of text lines. Whatever was read, failed, mounted or unmounted before, a read delivers the bytes of its own place, decoded as that image asks, inside its buffer. |
| `services_safety` (MCServices) | 2 clients, 2 slots, 2 modules; 3 system calls, 3 games, 2 keys; 2 loads of 3 modules, audio on and off; hooks of 5 kinds with 0-8 parameters; 3 regions; 2 manager clients, 1 process; 2 users, 1 switch of user, 1 of a toggle | 1,835,377 | `TableIsTrue`, `GateReopens`, `OwnKeysAndPatches`, `HooksAreSound`, `SettingsServed`, `ProcessCallsClean`, `KernelCodeAgrees` | Services that share nothing, one in focus per behaviour: plugins loaded and unloaded by concurrent clients and at boot, the gate of syscall 8 and the syscall table, the decryption and patching of modules by overlapping loads, the patching of functions by hooks, the calls of the PS3 manager on other processes, the patches of the kernel before, during and after a game, configuration with the region patches, and the session of henplugin with its toggles. |
| `media_safety` (MCMedia) | 6 images, 3 LibCrypt tables; 2 authenticating threads; 5 kinds of disc in 4 media, 4 failed reads; 3 PS2 images (DVD, CD, raw CD); 2 readers, 2 UMD images, 2 runs; 2 threads that open licences, 3 contents, 2 users, 4 files stored or opened; keys of 3 digits of base 4, 2 rounds | 1,975,733 | `AnswersDescribeImage`, `DiscsAreKnown`, `BootsWhatIsMounted`, `UmdReadsAreWhole`, `LicencesAreRight` | Services for media, one in focus per behaviour: the SCSI and device commands answered for an image, disc authentication against insertions, the type of a disc without an image from sectors that may fail, the reboot into a PS2 emulator, PSP images read by two threads, the licence files made at opens of two threads, and the key of a licence. |
| `install_safety` (HenInstall) | 2 versions, 2 toggles, 1 choice of the user; fair | 1,847,850 | `InstallUndisturbed`, `TogglesAgree`, `ThreadEnds` | From the exploit to an updated console: the loader stage, main() of the payload, the thread of henplugin and the threads of VSH it starts, with power failures, cancelled downloads and refused packages. |
| `licence_cache` (LicenceFiles) | 1 thread, 3 contents (one a launcher), 2 users, 5 files stored or opened | counterexample | `CachedRapIsOfId` | The cached RAP is taken to be that of the cached content id; after a launcher of PS2 or PSP was opened it is not. |

Why these bounds are enough.  Dispatch: a mixed-up answer, a lost event or a
cycle of locks needs two threads and the dispatcher; the third thread lets one
more wait at every lock, and two images tell a stale image from the right one.  One thread of
VSH reinserts in the first instance and two in the second; two nested calls of `emu_disc_auth`
are enough, as the inner one leaves everything to the outer.
Mount: the globals remember at most one earlier mount, so two images (one
shifted, the other with a LibCrypt file; one NTSC, the other PAL) and the proxy give all
the pairs of a left-over and a later mount; of the kinds of disc that are treated
alike `FewTypes` leaves one each.  Reads: parts of two sectors and a buffer of two, with
reads of up to four sectors, cross two boundaries, begin and end on and beside
each, and run beyond the end; cache 3, buffer 4 and image 5 make the CD cache smaller than
the buffer, as in the code, and every overlap of a command of up to six sectors
with it possible; a chunk of two sectors and reads of up to four give one chunk of the proxy,
two, and one that is cut short; five bytes of text and a buffer of four give two
lines, an empty one, outer spaces and a line that just fits.  Mapping: three entries
give a chain of three mappings, a cycle and a full table; two threads race for every
lock.  Patches: two loads overlap in every way, and two callers can occupy both
hardware threads.  Services: two clients and the boot thread race for two slots; three system
calls and three games reach every stage of the gate; modules with one section and with two,
decrypted by two loads; hooks of every kind with none to eight parameters, entered by one
thread while another hooks and unhooks (threads do not touch one another's registers or stack, so a
second one adds products of states and no new ones; the theorem is for any set of threads); all
three regions; two clients of the manager on one process; the lists of patches and
toggles are the whole lists of the code.  Media: images with one, two and three tracks, with
and without LibCrypt table; two threads that authenticate with one swap of the disc
between; three PS2 images, of a DVD, of a CD with raw sectors and of one without, over any number of mounts and reboots; two readers, two UMD images and two runs of the emulator;
two threads that open licences of three contents, one a launcher's, for two users, one without an account and one with a
backup, and up to four files stored or opened (two to fill the cache and to change the files, two opens to overlap); keys of three digits of base 4 with
carries through all of them.  Install: two versions, a toggle that is off by default and one that is on, one choice of the user,
any number of power failures.

`CHECK_DEADLOCK FALSE` is given where the system may really stop: threads that
lock each other out (dispatch), a load gone astray and threads that spin for ever
(patches), a console whose user does nothing more or whose thread has ended (services, media,
install, licence).

## 4. Fairness

Each thread of the kernel is scheduled, so a step of a thread that stays enabled is
taken (`WF`).  The mutexes of `storage_ext.c` are created with `SYNC_PRIORITY`: a
waiting thread may be overtaken for ever, hence no strong fairness there, and
`Answered` speaks of threads that have the mutex already.  In MapPath the run has
two threads: a mutex that is released goes to the one thread that waits for it, so
locking is strongly fair (with three or more of different priorities it would not
be).  In
SelfPatches a thread needs a hardware thread, which others may take in between;
strong fairness of loads, reads and the dispatcher says that the scheduler does not
starve them, whereas a hardware thread lost to a spinning system call stays lost
as long as it spins.  In HenInstall the threads of henplugin and of VSH are scheduled
(`WF`); the user, the power and the network owe nothing, and a download or installer
that has begun ends, well or not.

## 5. Proofs

`tlapm` proves, for any values of the constants that satisfy the named
assumptions (distinct threads, well-formed images, positive sizes):

| Theorem | Module | Property | Establishes |
|---|---|---|---|
| `TypeCorrect` | DiscDispatch_proofs | - | The variables of the dispatch protocol keep their types, for any threads, handles and images. |
| `Invariance` | DiscDispatch_proofs | - | The inductive invariant: who may own the mutex, which emu_disc_auth loses inside get_disc_type; where the one command under way is; and which of the faked events find loop set. |
| `AnswersAreOwn` | DiscDispatch_proofs | `OwnAnswer` | The result a thread receives is the answer to its own command, read from the image it found mounted. |
| `QueuesNeverFull` | DiscDispatch_proofs | `NoEventLost` | No send of the protocol meets a full queue. |
| `NoReadAfterUmount` | DiscDispatch_proofs | - | The image the dispatcher reads from is not unmounted meanwhile. |
| `FakedEventBlocksOnlyCrossed` | DiscDispatch_proofs | - | device_event does not lock for an event that the dispatcher fakes, unless a reinsertion, which runs without the mutex, has cleared loop before the event looked at it. |
| `SkipIsSafe` | DiscDispatch_proofs | - | skip_emu_check is set only while no image is mounted. |
| `DiscTypeRaces` | DiscDispatch_proofs | `OnlyUnlockedEventRaces` | Two actors change the disc types together only when one of them is an event that did not lock: one faked by the dispatcher or by a reinsertion, which runs without the mutex, or a real one that sampled loop meanwhile. |
| `ImplementsService` | DiscDispatch_proofs | - | The locks, queues and dispatcher implement the safety part of the one-request-at-a-time service. |
| `OwnImageRead` | DiscMount_proofs | `ReadsOwnImage` | Whatever was mounted, refused, read and unmounted before, a read is served from the image mounted last, except when a CD mount that failed in cellFsOpen left its discfile_cd behind. |
| `OwnPort` | DiscMount_proofs | `ProxyHasPort` | The proxy command port is connected exactly while a proxy image is mounted. |
| `CleanUnmount` | DiscMount_proofs | `NothingLeftBehind` | After an unmount no file list, descriptor, proxy or total emulation is left, except an orphaned discfile_cd. |
| `ReadInPlace` | Reads_proofs | `DeliveredInPlace` | For any images in any parts, a read that succeeds has delivered every sector from its place and zeroes beyond the end, whatever failed before. |
| `CachedInPlace` | Reads_proofs | - | The sector cached between commands is the one at its offset in the image that is mounted now. |
| `OpenIsActive` | Reads_proofs | `OpenOnActivePart` | Whenever discfd is open it is open on the active part of the mounted image. |
| `CdReadsDeliver` | Reads_proofs | `CdDelivered` | For any length of image, cache and buffer: a read of a CD that succeeds has delivered the sectors it was asked for, however they overlap the cache. |
| `CdCacheIsImage` | Reads_proofs | - | The cache of CD sectors holds the image from cached_sector on, whatever was read around it or failed outside it. |
| `OneEntryEach` | MapPath_proofs | `UniqueOld` | No path ever has two entries that a comparison can find, for any number of threads, addresses and mappings; an entry for a path that begins with "//" or "/." is stored with a wrong length and never found again. |
| `ChainsSeparate` | MapPath_proofs | `ChainReset` | findMapping leaves its static variables clear for the next open unless an allocation failed. |
| `OpensAsMapped` | MapPath_proofs | `OpensItsMapping` | An open that no other thread disturbs opens the path findMapping made, nested opens included. |
| `ProtectionHolds` | MapPath_proofs | `ProtectedStays` | No step deletes a protected mapping. |
| `TypesInStep` | DiscMount_proofs | `TypesAgree` | The type of the disc in storage events and the type GET_DEVICE_TYPE reports never disagree, in whatever order discs come, go and are faked. |
| `ImplementsMount` | DiscMount_proofs | - | With the video mode every step mounts, unmounts and reports exactly what DiscMount allows: PsxVideo implements DiscMount. |
| `MountedWithVideo` | DiscMount_proofs | `ReadsOwnImage` | All that is proved of DiscMount also holds while VSH asks for sizes and is patched. |
| `PatchAlwaysTakenBack` | DiscMount_proofs | `PatchTakenBack` | When VSH has asked for the size of a disc that is no PSX disc, its code is the original one. |
| `DelayIsUnpatched` | SelfPatches_proofs | `DelayUnpatched` | While a game is let through the kernel is the original one, unless two threads used the queues at once. |
| `ReadsAreServed` | SelfPatches_proofs | - | A read that returns has been served, unless a load took its result. |
| `PatchesComeBack` | SelfPatches_proofs | `PatchedAgain` | When no load is under way, all patches are in and no thread is held, unless loads crossed. |
| `OwnAddress` | DiscMount_proofs | `AddressedByImage` | Offset and sector size by which a mounted image is addressed are its own, whatever mounts that failed or were refused have left, for any images and sector sizes. |
| `GateCanBeReopened` | Services_proofs | `GateReopens` | Whatever a client switched off can be switched on again, for any set of keys and any earlier calls, by the access request, by function 0 (which alone reaches the switch of Cobra) and by level 0, unless three wrong keys have locked the gate. |
| `GateStaysLocked` | Services_proofs | - | A locked gate stays locked: no count of further calls brings the counter of tries below three again. |
| `PluginTableIsTrue` | Services_proofs | `TableIsTrue` | The table of VSH plugins names what is loaded, for any number of callers, slots and modules, until two loads have taken a slot at once. |
| `EmulatorFindsMounted` | Media_proofs | `BootsWhatIsMounted` | For every set of images and parameters, and whatever was mounted, refused or failed before: the emulator finds the image that was mounted with its own tracks if the file could be written, unless a failed CD mount left its discfile_cd to an image that has none; after a reboot for a disc or a game without image it finds none, whatever an earlier reboot left. |
| `AuthLeavesNothingHeld` | Media_proofs | - | However authentications, events and searches of any number of threads overlap, when no thread is in a hook the flag of the authentication is clear and the mutex free; a conjunct of DiscsAreKnown. |
| `UmdReadsWhole` | Media_proofs | `UmdReadsAreWhole` | For every number of readers, reads of the image of a UMD are whole and under a mutex that exists, as long as no second mutex came into use and none was taken away in a read. |
| `TogglesNeverDisagree` | Install_proofs | `TogglesAgree` | The two files of a toggle never say on and off at once, through every order of choices, defaults, restarts and installations, unless the toggle was set between the look for its file and the copy of its default. |
| `InstallerIsUndisturbed` | Install_proofs | `InstallUndisturbed` | While a package is installed its file stays and henplugin does not reboot the console, unless the thread looked for the view of the installer before VSH had opened it. |
| `ProcessCallsStayClean` | Services_proofs | `ProcessCallsClean` | For every number of clients, processes and pages: pages are executable exactly where asked for, no buffer of a call is lost, and no console id is left half written, under the exceptions each conjunct names. |
| `ReadsDecoded` | Reads_proofs | `Decoded` | For all images, headers, regions and keys, what a read delivers is decrypted when and only when its image says so, whatever junk a header that was not examined holds, and nothing outside of the buffer is touched. |
| `StoredIsServed` | Reads_proofs | `ServedAsStored` | In the composition of the reads, pages of a disc of a client, sectors of a CD image and lines of a list are the ones that are stored, for all discs, regions, formats and files. |
| `ReadsOfClientServed` | Reads_proofs | - | For every disc, region list and buffer size, a read that is passed to a client delivers every sector from its place and decrypted by the key of the disc; a conjunct of ServedAsStored. |
| `FormatMeant` | Reads_proofs | - | The size of a sector that is mounted is the one that was asked for or the one that is found in the image; a conjunct of ServedAsStored. |
| `ListRead` | Reads_proofs | - | For files of every length and buffers of every size, the lines that read_text_line returns are the lines that are written between the line ends, in order, if every line fits the buffer; a conjunct of ServedAsStored. |
| `AnswersFitImage` | Media_proofs | `AnswersDescribeImage` | For all images and LibCrypt files, what the drive tells of the mounted image, its size, its table of contents and the lengths of its tracks, is true of it, and the sub-channel that is served with a sector is that of the sector. |
| `DiscsKnown` | Media_proofs | `DiscsAreKnown` | In the composition of the services for media, a thread that worked on the disc in the drive keeps nothing of what it took, and a disc without an image is taken for what it holds. |
| `DiscsTakenForWhatTheyAre` | Media_proofs | - | For all contents of a disc and any failures of the drive to read, the type the disc is given is the one of its content as far as it could be read; a conjunct of DiscsAreKnown. |
| `LicencesRight` | Media_proofs | `LicencesAreRight` | For all contents, users, activations, RAP files and interleavings of opens: a licence that was made while no other was is of its content and its user, with a third RAP only after a cut file or opens that met, and its key tells activation keys apart. |
| `LicencesOwn` | Media_proofs | - | The first half of LicencesRight: unless opens met, a licence names the content of its path, is made from the act.dat of its user and bears that user's account unless the registry could not be read, and holds the RAP of its content, up to the three causes the code has for another one. |
| `KeysLoseNothing` | Media_proofs | - | For every size of a key and of a byte, every permutation and all constants: the last loop of a round subtracts one number from another, and what a round began with can be had back from what it ends with; a conjunct of LicencesAreRight. |
| `SettingsAreServed` | Services_proofs | `SettingsServed` | For all users, files, tables of regions and toggles, in the composition of the services: the region that is told is the one that was chosen, and a session of HEN does what its toggles say. |
| `RegionIsServed` | Services_proofs | - | For all tables of regions, discs, options and failing files: a player is told the region of a console that plays the chosen video region whenever some console does, and the true region otherwise; a conjunct of SettingsServed. |
| `SessionStands` | Services_proofs | - | For all users and files of the browser, while users and toggles change: choices stand for the session, what was chosen to be cleared is cleared, and act.dat comes from the act.bak of the same user; a conjunct of SettingsServed. |
| `LoadedAsItsOwn` | Services_proofs | `OwnKeysAndPatches` | For all modules, chunk sizes, tables of patches, loads that interleave and settings of the audio switch: a load that met no other is decrypted with its own keys and counter and gets the patches of its own module, once; the module for audio, switched off, gets patches of the next entry only. |
| `KernelCodeStays` | Services_proofs | `KernelCodeAgrees` | Step by step through the lists of patched places, for any interleaving of their actors: a hook is put in only after what it uses, the originals are kept, no patch is in while a game runs, and all are back afterwards. |
| `HooksStaySound` | Services_proofs | `HooksAreSound` | For every kind of hook, number of parameters and set of threads, while functions are hooked and unhooked under their calls, one hook at a time: each call runs body and hook as the kind says, whole, with the right TOC, and an unhooked function is the kernel's own. |

The arguments.

* **DiscDispatch.**  None of the properties is inductive.  `IInv` adds where the mutex
  is (`LockInv`: a thread at a critical program point or on its way through a reinsertion that has not
  lost it yet, or an actor in an event it locked for, never the dispatcher), where the single command is
  (`QueueInv`: in `command_queue`, with the dispatcher, or in `result_queue`, and its
  sender waits in the critical section in which it saw the mounted image), and
  that an event the dispatcher fakes finds `loop` = 1 and takes no lock unless `crossed` (`FakeInv`).
  One lemma per action.
* **DiscDispatchService.**  Every step of the protocol is a stutter, an ask, an
  answer, the end of a request, a mount or an unmount of the service; `IInv` gives
  that no two threads are in the exchange at once.
* **DiscMount.**  `MInv`: by the kind of the mount, what is allocated, and on what
  `discfd` can be open; after an unmount nothing but what a failed CD mount left.
* **PsxVideo.**  Each of its actions is an action of DiscMount or leaves its variables alone,
  hence DiscMount's theorems carry over; `PatchInv` adds that `video_mode` remembers a
  patch (it is 2 or -1 as long as there is one).
* **SelfPatches.**  `Ordered`: at most one thread uses the queues (`OneUser`); `Phase`
  says for each of its places where its command is and which patches are in,
  hook by hook while the dispatch thread works.  All of it under `~crossed`, which
  the code does not enforce.
* **IsoRead.**  `PositionFollows`: what is before the offset is delivered, and
  without a seek the file position is that of the offset.  The arithmetic of parts is in
  lemmas of its own (`PartOfSector`, `NextRead`).
  `DecodeInv` does the same for the decryption: the header that was examined decides `encrypted` and
  the regions (`HeaderDecides`), the sectors before the offset are decoded as they should be
  (`DecodedSoFar`), and so is the cached one (`CacheLeftAlone`, `DecryptedInRegion`).
* **CdCache.**  `CdProgress`: the sectors not yet delivered are exactly those the
  loop still has to read, for each of the overlaps.
* **ProxyRead.**  `ProxyInv`: the sectors before the offset of the loop are delivered
  (`ProxySoFar`), the cached sector is the disc's unless spoiled (`ProxyCachedRight`), and
  a key that is `sound` is the disc's own (`ProxyKeyKnown`), whatever `OpenNtfs` does between two
  reads.
* **CdFormat.**  Between the count of the tracks and the mount the format is what was asked for;
  a volume descriptor is found for one sector size only (`FoundSize`).
* **TextLines.**  `TextInv`: there is a line up to whose end the lines taken are the file's, and of the
  next line nothing, a part or all of it has been read; the trimmed text is then the same for any
  split into bytes.  What the recursive definitions of `Written` and of trimming give is
  shown on witnesses: a function that satisfies the equation is exhibited, and that it is the one chosen
  follows from the least place where another one would differ.
* **MapPath.**  The invariant ties the static variables of `findMapping` to the
  owner of `map_mtx`, the text of an open to the chain applied so far, and, until another
  thread touches it, the string behind an open's pointer to that text.
* **VshPlugins.**  `TableOrder`: what a thread at each step of its call owns (the module it
  loads, stops or unloads, which no slot names, or one slot does), and that no two
  threads own one module.  A lemma per action, and one for the steps that
  change neither table nor modules.
* **SyscallGate.**  `GateOrder`: no level is set while Cobra is off, and without a key no
  try is counted.  From any such state the three calls of `GateReopens` are followed, stage by stage.
* **ProcessApi.**  One invariant per promise, over what is common to the calls (a call holds
  only buffers of its kind).  Pages: the instruction is patched exactly while one
  client maps, for it alone, and that client is the one that restores it.  Ids: the halves a
  call has written are its own, and an id that no call writes is whole.
* **ConsoleSettings.**  `RegionServed` is inductive with the type; the code's loop over the bits of a
  region is the greatest element of a nonempty finite set.
* **HenSession.**  `SessionInv`: a toggle the user never chose has at most the file of its default
  (`DefaultsOnly`), the paths are those of one user unless the user changed between two looks
  (`OneUser`), and of the files of the browser those the thread has passed are as chosen, the
  others as they were (`WebInOrder`).
* **ModuleDecrypt.**  `DecryptInv`: as long as loads do not overlap, the saved place is that
  of the only load (`LoadAlone`); if moreover none left anything behind, so are the counter, the start
  of the section and the keys (`NothingLeft`).  What the audio switch does to its one entry of the table is
  in the statement (`PatchedOwn`).
* **KernelPatches.**  While `main` runs it is alone, and what is the payload's follows from how far it
  is in its list (`Starting`); afterwards all that was made stays made and only what a client
  removes is missing (`Running`); what was removed stays out unless the removal met a load
  (`StaysOut`).  The lists are those of the code and there is no other parameter: the theorem
  gives the reason for what the run finds by exhaustion.
* **Hooks.**  `HookInv` has two halves.  `Patched`: a function's first instruction is the
  kernel's or the jump to a stub that is ready, and what the patcher has done so far.  `Called`: for
  each place of each kind of stub with n parameters, what link register, TOC, parameters,
  stack and the log of calls are (`LinkKept`, `TocFound`, `ArgsKept`; `PlainRan`,
  `PrecallRan`, `PostcallRan`).  For this the code of a stub is located piece by piece for
  every n, and that the n stores and loads of the parameters restore them goes by the
  number done.  The hypothesis is `~Stacked`: the payload hooks each function once.
* **Ps2Boot.**  Each reboot decides anew; what it needs of the mounts before is that `discfile_cd` is that of the
  mounted image or an orphan.
* **DiscAuth.**  `AuthOrder`: whoever holds the mutex is on its way to release it, and
  while the flag is set some thread is on its way to clear it.
* **PspUmd.**  `MutexOrder` says which mutex the hooks know and who owns it; under
  `~mixed` a reader that is between the locks owns the one that exists, so nobody moves the
  file offset between its seek and its read.
* **RealDisc.**  `RealDiscInv`: what a read that counts left in the buffer is what the disc holds
  (`ReadRight`), so each verdict says what the disc is (`SaysRight`) and each check is made for a
  disc that can need it (`CheckFits`), up to the reads that were skipped or failed for good.
* **DriveCommands.**  `DriveInv`: what was told since the image was mounted is of that image
  (`ToldRight`), the LibCrypt file that is open is the one whose table is kept (`SubqRight`), and a
  READ CD in progress stays inside the image, each sector with its subchannel (`ReadInside`).
  The starts of the tracks are sums over a sequence; the recursive function is compared with the
  image by a witness, as in TextLines.
* **LicenceFiles.**  `LicenceInv`: the cached key is that of the cached content or a launcher's
  (`CachedOwn`), an act.dat bears the account of its user unless it was made blindly (`ActOwn`), and
  what a thread has in the shared buffers is of the path it opens (`PartsOwn`), each unless `met` or
  `doubt` says otherwise: a thread that is in no `met` is alone.
* **RifKey.**  A round can be undone: for each loop the bytes before it are given from those behind it.
  For the subtraction `SubtractionGoes` keeps, for the bytes that are done, the borrow into each of them as
  a witness.  The permutation, the exclusive or (any involution), the base, the size of the key and the
  number of rounds are parameters.
* **Instances.**  A step of `MCReads`, `MCMedia` or `MCServices` is a step or a stutter of each of its
  components, so a theorem of each gives `ServedAsStored`, `DiscsAreKnown`, `LicencesAreRight`,
  `SettingsServed`.
* **HenInstall.**  `Memory` and `Order` relate the place of the thread, the callback, the view and the
  package, up to `missed`.  `Disk` carries the toggles through the copy of the defaults: between look and copy
  the opposite file is not there, unless the toggle is `overtaken`.

The proof modules are `DiscDispatch_proofs`, `DiscMount_proofs` (with PsxVideo),
`MapPath_proofs`, `SelfPatches_proofs`, `Install_proofs`, `Reads_proofs` (IsoRead, CdCache,
ProxyRead, CdFormat, TextLines), `Media_proofs` (Ps2Boot, DiscAuth, PspUmd, RealDisc,
DriveCommands, LicenceFiles, RifKey) and `Services_proofs` (SyscallGate, VshPlugins, ProcessApi,
ConsoleSettings, HenSession, ModuleDecrypt, KernelPatches, Hooks).

Hypotheses.  Besides the named assumptions on constants one theorem has one that the code does
not enforce, and section 6 has a run in which the statement fails without it: `~Stacked`
(HooksStaySound).  The invariants that speak of a history variable (`~crossed`, `~starved` and the others
named at the end of section 6) have it in their own statement.

Only model-checked: liveness and what rests on fairness, that is `Answered`,
`MutexReleasedUnlessCycle`, `Completes`, `LoadEnds`, `ThreadEnds` and the live half of
`ServiceSpec` (its safety half is ImplementsService).  Every invariant and every action property
of a run has a theorem.  The provers have no induction over data; where a
definition is recursive or an extreme (sums, lines of a text, borrows, greatest bits) the
proofs argue with the least counterexample among the natural numbers.

## 6. Where the code does otherwise than it says

Two runs expect a violation (`findings` in `PROJECT.json`):
`mount_libcrypt` - a game with a LibCrypt file gets the length of that file (3730);
`licence_cache` - the key of a launcher is cached as that of the content before it
(`make_rif.c` 354).

Each of the following statements is in its module too, under "By hand" or beside the
properties, and is violated.  To see it take the cfg of the run, put the statement in place
of its properties and make the change given.  The small instances of `MCMapPath` (`FewJobs`,
`OneOpen`, `TwoOpens`, `DotJobs`) are meant for this; with them take `Ptr = {p1, p2}`, `MaxTable = 2`
and no SYMMETRY.

| Statement | Run, and change | What it shows |
|---|---|---|
| `SubchannelOnlyForProtected` | `mount_libcrypt` | `subqfd` and the LibCrypt table stay as the last protected game left them |
| `PatchedForPlayedDisc` | `mount_video`: `Png = {}`, `SectorSize = {2352}`, `NameMode <- NoneNamed`, `UserMode = {}`, no CONSTRAINT | the detected mode is stored as a forced one (1469) and applied to the next disc |
| `EncryptedImageIsDecoded` | `reads_safety`: `Junk <- NoJunk` | the region is decided by the first sector of a read (314) |
| `PlainImageIsNot` | the same | an image that does not say whether it is encrypted is decrypted with the keys of the one before (517) |
| `KeyStays` (PROPERTY) | the same | a second read of sector 0 forgets the key of the disc (238, 1022) |
| `AnyListIsAsWritten` | `reads_safety` | a line that does not fit the buffer comes back as two (`modulespatch.c`) |
| `SizeByComment` | `reads_safety` | sizes 2328 and 2340 cannot be given in the way the comment at 1139 describes |
| `FakedEventTakesNoLock`, `ReinsertsAlone` | `disc_safety` | the hook that `get_disc_type` calls releases the mutex of `emu_disc_auth` (2890, 2812); an event of the reinsertion clears `loop` under one the dispatcher fakes |
| `AlwaysAnswered` (PROPERTY) | `disc_shared` | the dispatcher then waits for the mutex of the thread that waits for it |
| `EveryPathOnce` | `map_safety`: `MapJob <- LeadJobs`, `OneOpen` | a path mapped as "//dev_bdvd" twice has two entries (`mappath.c` 143, 146-152, 284) |
| `RedirectedAlone` | `map_safety`: `FewJobs`, `TwoOpens` | two opens through one entry: the second rewrites the first one's path |
| `AppliedToThisPath` | `map_safety`: `FewJobs`, `OneOpen` | after a failed allocation the next open skips mappings (`mappath.c` 390) |
| `FullWhenUsed` (PROPERTY) | the same | the size of the table is never given back (`mappath.c` 539) |
| `ApphomeMapped` | the same | `condition_apphome` says that a game is mounted when its mapping failed (`mappath.c` 711) |
| `TailKept` | `map_safety`: `DotJobs`, `OneOpen` | a new path that begins with `/./` loses the file's name behind it (`mappath.c` 140) |
| `EveryPluginKept` | `services_safety` | a plugin whose slot two clients took at once cannot be found again (`modulespatch.c` 1104) |
| `KernelCountsLoaded` | `services_safety` | a kernel plugin that failed counts as loaded (`modulespatch.c` 1386) |
| `UnloadsNamed` | `services_safety`: `NameOf <- TwoNames` | the slot may hold another module when the unload by name comes to it |
| `ListsAreCurrent` | `services_safety` | the blocker keeps the lists of the first open after boot |
| `OnlyLauncherRefused` | `services_safety` | the PSP emulator is refused after applications that are no launcher: the flag of an earlier open outlives them |
| `ReadsBack`, `RequestKept` | `services_safety` | a configuration that was written is not read back (its size is never set); a power request between the copy and the unhooking is lost |
| `EnableEnables` | `services_safety` | SYSCALL8_OPCODE_ENABLE_COBRA does not reach the switch of Cobra: 712-713 of `main.c` skip odd functions |
| `OnlyOwnPatches` | `services_safety` | with `hen_audio.off`, the default, the module for audio gets patches of the network storage plugin (`modulespatch.c` 995-1003, 426-427) |
| `HooksAreSound` | `services_safety`: `Stacked = TRUE` | a function with a second hook on it does not keep the contract of both |
| `OneFile` | `services_safety` | a toggle set between look and copy has two files |
| `SaidWhy` | `services_safety` | "disable" is said of the cookies of a user who has none |
| `AlwaysOwn` | `services_safety` | act.dat of another user is restored when the user changes meanwhile |
| `PagesGivenBack` | `media_safety` | a buffer of READ CD is not given back when a read fails |
| `SubchannelOfImage` | `media_safety` | the LibCrypt file stays open for the next image |
| `AuthAlwaysPasses` | `media_safety` | authentications that overlap are taken for each other's inner call (2970) |
| `KnowsPresentDisc` | `media_safety`: `MaxSwaps = 2`, `PresentDisc = {"d1", "d2"}` | the lock of `get_disc_type` is gone when its answer is used (2890) |
| `PsxIsPsx`, `MarkedIsUnknown` | `media_safety` | a PS2 disc whose directory cannot be read is a PSX disc; a disc marked as unread is known after all when the second call of `is_psx` reads it |
| `NeverStaleImage` | `media_safety` | `ps2_netemu` without a disc finds the image of last time (3403) |
| `AlwaysDelivered`, `HeaderIsOfImage` | `media_safety` | a UMD read beside a change of the image fails, or goes with the header of the other |
| `BootsMountedImage` | `media_safety` | after a CD image that could not be opened, a PS2 DVD image is mounted and the emulator boots the first (3416) |
| `RifAlwaysOfItsContent` | `media_safety` | two opens at once, or a .rap file that is too short (`make_rif.c` 359), give a licence of another content |
| `ActDatHasAccount`, `BackupComesBack` | `licence_cache` | act.dat is made without an account id of its user; `act.bak` is not restored once a licence was opened |
| `OldPackageNotInstalled` | `install_safety` | a temporary package is not removed, as `henplugin/main.c` 1378 says, but installed: its path is empty there |
| `R2KeepsHenPlugin` | `install_safety` | with R2 the plugin of HEN is not loaded either, which `src/README.md` 198 gives to L2 alone |
| `NeverDisturbed` | `install_safety` | an installer whose view comes up late is overtaken by the removal of its package (`henplugin/main.c` 1445) |
| `TogglesAlwaysAgree` | `install_safety` | a toggle set between the look (880) and the copy of its default (884) has both files |
| `ThreadEnds` | `install_safety`: `GameExt = FALSE` | without the interface of `game_ext_plugin` the thread waits for ever |

Known partial failures that the passing properties exclude by name: a CD mount
that fails in `cellFsOpen` (`orphan`), a failed mount of a .PNG image (`stale`), a
refused proxy mount (`resized`), a failed read into the CD cache or the cached proxy
sector (`spoiled`), a path of another NTFS image (`sound`), a read longer than the CD cache
(`TooLong`), an allocation that fails in `findMapping` (`starved`), an entry changed by
another thread (`touched`), queues used by two threads at once during a load (`crossed`),
a slot two loads took (`overlapped`), a reinsertion that clears `loop` under a faked event (`crossed` of DiscDispatch),
licences made at once or from cut files (`met`, `doubt`), a toggle set while its default is copied (`overtaken`), an
installer whose view was looked for too early (`missed`), a sector size that is lost (`Loses`), a line that does
not fit (`FitsBuffer`).  Each of the variables is set where the code does it, and nowhere else.

Hazards that no property covers, or that were only looked at: mounting a PS2 image takes
`base_offset` for a mode of `cellFsOpen` (3789); `lock_mtx` makes its mutex unguarded
(`mappath.c` 588); a proxy read waits without a timeout under the mutex (1002); the process of a handle is used without a reference
(`ps3mapi_core.c` 74), and a failing mapping can free its pages twice there
(238-273); `xreg_data` reads 50 bytes into a buffer of 0x2A (`make_rif.c`); `savedata_param`
outlives its emulator (`psp.c`).  The last four are about memory, which the models abstract from.

## 7. What is not modelled

The components listed as not modelled in `PROJECT.json`, with the reasons there: debug and
laboratory code, build tools and packages, the pages that start the exploit.  Within the
modelled ones: `mount_ps2` among the mounts of DiscMount (Ps2Boot has it) and what `ps2emu` does afterwards; raw reads through the proxy (the
same code with another sector size); the handles of devices; debug output, notifications and
drawing; the contents of sectors; the text of paths below the level of pieces; the values of
patches and hashes (tables of data, one per firmware); the stubs of system and hypervisor
calls.  The kernel's event queues, mutexes, files, memory and modules are external and
modelled as the code uses them: a mutex has one owner, a queue of size one refuses a
second event, a file or memory call may fail.  Decryption is injective, a signature valid.

## 8. Possible extensions

The two relations of section 2.5 that are stated by argument and not by refinement: the
lists of KernelPatches are the patches of SelfPatches, and DriveCommands runs inside the
critical section of DiscDispatch.  `mount_ps2` as an action of DiscMount.
