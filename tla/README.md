# ConnectBox: a TLA+ model of the box's daemons

ConnectBox is a Raspberry Pi that offers the content of a USB key to visitors
over its own Wi-Fi. Most of its own logic is in a few long-running Python programs
that were written separately and meet in files under `/tmp`, in `brand.j2`, in the
kernel's mount table and in systemd. No lock protects any of these. This directory
models those programs in TLA+, checks the models with TLC on small instances and
proves some of the results for every instance with TLAPS.

The paths below are relative to `src/`. Three programs are named so often that
they have short names:

| name | file |
|---|---|
| PxUSBm | `ansible/roles/bootstrap/files/usr_local_connectbox_bin_PxUSBm.py` |
| mmiLoader | `ansible/roles/bootstrap/files/usr_local_connectbox_bin_mmiLoader.py` |
| panel | `ansible/roles/hat-service/files/neo-batterylevelshutdown/*.py` (buttons, usb, hats, displays, cli) |

`PROJECT.json` has the same information for tools: components, runs, the lines each
definition stands for, mutants, findings, hazards and theorems.

## 1. Inventory

Each part below says what state it keeps, what it does, whom it meets and what is
hard about it. What makes it correct is stated by the properties named at the end.

### 1.1 USB mounting daemon (PxUSBm: `mountCheck`, `release_usb_slots`, `check_internal_content`)

*State.* The tables `mnt[]` and `loc[]` (drive letter and mount point number of each
key, ten entries each), `whole_disk`, `failed_mounts`; two marker files that outlive
the process, `/tmp/.usb0_indexed` and `/tmp/.internal_indexed`.

*Operations.* At start, `release_usb_slots` unmounts what an earlier process left.
Then every few seconds a poll: an lsblk snapshot; pass 1 walks the table for keys
that went away, were moved, or are still there; pass 2 walks the snapshot for keys
to mount or mounts to register; pass 3 closes up the table; and
`check_internal_content` looks after the box's own content.

*Interacts with* the kernel (mounts), the panel (which moves and unmounts keys
behind its back and sets `usb0NoMount`), the loader (which it starts and stops through systemd).

*Hard.* One snapshot serves a poll during which keys come and go and a file-system
check may run for half a minute; the panel changes the mounts between any two
steps; the process restarts with empty tables while keys are mounted; umount fails.

*Correct when* no two entries book a mount point (`SlotsUnique`), no live key is
hidden below another (`NoHiddenKey`), each key has a mount point of its own and keeps it
(`MountsKept`), a key that stays ends up mounted (`KeyGetsMounted`), and the menus
follow what is at `/media/usb0` (`IndexedIsAtUsb0`, `MenusSettleUnmoved`).

### 1.2 Content loader, a run's life (mmiLoader)

*State.* The menus (JSON files and links), `content/saved.zip` on the volume, the
status text `/tmp/creating_menus.txt`, the "loading new content" page; in the
process `_shutdown_requested` and `_usb0_was_mount`.

*Operations.* A single-instance guard; a fast path that restores `saved.zip`; a full
index (walk, menus, zip); `--clear`; a SIGTERM handler; two atexit functions.

*Interacts with* PxUSBm (starts and stops it), the panel and the admin page (start
it outside the unit), visitors (menus and page).

*Hard.* A run takes minutes and reads paths, not volumes: the key below it may go,
or another come, at any step. Several runs may overlap. A stop lets it go on to its
next check, and systemd kills it after 90 s.

*Correct when* a volume's zip holds its own menus, all of them
(`ZipIsOwnUndisturbed`); the menus settle on what is at `/media/usb0`
(`MenusSettleUndisturbed`); nothing claims that indexing is going on when it is not
(`ShownWhileRunning`).

### 1.3 Content loader, from folders to cards (mmiLoader 2700-4000, `indexer.py`)

*State.* The walk's `language`, `webpaths` and `complexLst`, carried from folder to
folder; `_media_names`; the lists, data files and links it makes; the translation files.

*Operations.* Finding languages and complex folders; the pages of the indexer; one
visit per folder; ZIM cards under other languages; menus and interface texts;
restoring and upgrading.

*Hard.* `os.walk` gives the folders in any order, and what a folder becomes depends
on what came before; files of the same name meet in one directory of links;
translations are cached and corrected by hand.

*Correct when* each media file is shown once in its language and nothing from inside a
web page is (`FilesShown`), each web page, app or complex folder has one tile
(`TilesShown`), a card opens its own file (`OpensOwn`), and translations follow the
English but keep corrections (`TextIsCurrent`, `CorrectionsKept`).

### 1.4 Content loader, office documents (mmiLoader 1600-2690)

*State.* None between documents. *Operations.* .ppt, .pptx, .xls, .xlsx and antiword's
DocBook to one web page each.

*Hard.* A .ppt keeps its older versions and is merged from several saves along a
chain of offsets; sheets are cut at a limit; text hangs between DocBook elements.

*Correct when* the page shows the newest version, in order, with every text once (`DeckShown`, `TextShown`).

### 1.5 Front panel: buttons and commands (`buttons.py`, `usb.py`, `displays.py`)

*State.* `usb0NoMount` in `brand.j2` and a backup of it in a local variable; the mount
points usb0, usb1 and usb11; the status text; the page stack; `BUTTON_PRESS_BUSY`.

*Operations.* A button's callback times the press and then acts on it, commands
included: `copy_from_usb`, `copy_to_usb`, `erase_folder`, `remove_usb`, over `moveMount`, `mount` and `unmount`.

*Interacts with* PxUSBm (mounts, `usb0NoMount`), mmiLoader (status text, runs it starts) and its own main loop (screen).

*Hard.* A command takes minutes and waits for people who may do something else; it
suspends mounting on disk and must resume it on every way out.

*Correct when* mounting is resumed after every command (`FlagPutBack`), the screen
does not stay on "wait" (`StatusExplained`), and a source is not emptied (`StickKeepsContent`).

### 1.6 Front panel: the service (`cli.py`, `hats.py`)

*State.* The HAT's class, the display timer, the low battery page, the LED, handlers of the pins.

*Operations.* Wait for the card's expansion, detect the HAT, set up, main loop; the
power-down line; the OTG pin.

*Hard.* Constructors and the loop use an I2C bus that fails when power is low;
callbacks change screen and LED under the loop; the progress file is read while it is written.

*Correct when* the service comes up (`StartsUp`), switches the box off when power goes
(`PowerDownServed`), shows the charge (`TellsBattery`) and darkens the screen (`ScreenGoesDark`).

### 1.7 Boot, names, roles and watch (PxUSBm 892-2300, 3002-3300, 3505-3765)

*State.* `expand_progress.txt`, partition and file system; the .link files;
`wificonf.txt`, `hostapd.conf`, `dnsmasq.conf`, `interfaces`, `dhcpcd.conf`; time stamps of last restarts.

*Operations.* `do_fdisk`, `do_resize2fs`, `setNetworkNames`, `getNetworkClass`,
`fixfiles`, `checkServices`, `check_PM2`, and the main loop's look at the access point and eth0.

*Hard.* Three kinds of reboot that the program orders and does not wait for; files
that must agree are moved and copied one by one; power is cut by pulling the plug.

*Correct when* notes never run ahead of the card (`ProgressTrue`), the files agree
(`FilesInStep`) and the access point comes up through all of it (`BoxComesUp`).

### 1.8 Remembered Wi-Fi networks (PxUSBm 2329-2637: `check_known_wifi`, `check_stat_CI`)

*State.* The list of remembered networks, `wpa_supplicant.conf`, times of the last look and write.

*Interacts with* wpa_supplicant and dhclient, the admin page, `ConnectBoxManage.sh`.

*Hard.* The list is read, a connection tested for up to 45 seconds, and the list
written back; a wipe or an edit in between must not be undone.

*Correct when* only what connected is learnt (`LearntWorks`), a wipe holds
(`WipeHolds`), the admin's own network stays (`OwnKept`), and file, lease and
interface catch up (`ConfCatchesUp`, `LeaseFollows`, `ClientComesBack`).

### 1.9 Internet sharing and its data total (PxUSBm 2759-2999)

*State.* Firewall chains and their byte counters, `dnsmasq.conf`, the saved total.

*Operations.* `check_internet_sharing` every 30 s: forwarding, firewall rules
(`set_sharing_rules`), the data total (`update_usage`), DNS, disconnecting the phones.

*Interacts with* the kernel, dnsmasq and hostapd, the admin page (setting, Reset) and phones.

*Hard.* Counters start again at 0 after a reboot or a rebuild of the chain, the saved
total does not: nothing may be counted twice or lost across them (2869-2896). A check is some
twenty commands, and the daemon may be restarted between any two.

*Correct when* no byte is counted twice or forgotten (`NeverTwice`, `Accounted`),
forwarding, firewall and DNS end up as the setting says (`SharingSettles`), and no
phone keeps taking the box for an internet connection (`PhonesRejoin`).

### 1.10 Settings (`ConnectBoxManage.sh`, `python/admin/api.py`, `phonehome.py`, `globals.init`)

*State.* Six configuration files and their `.original` copies, the kernel's
hostname, nginx's link, a lock file in `/tmp`, and `brand.j2`, which four programs rewrite.

*Operations.* One run of the script per request of the admin API or per setting that phone home fetched.

*Hard.* The lock is tested and then made; a command changes several files and exits
at the first failure; `brand.j2` is truncated and rewritten by programs that share no lock.

*Correct when* no program undoes another's setting (`SettingsKept`), names agree in the
end (`NamesSettle`), a reset restores everything (`ResetRestores`) and nothing is left
that blocks later commands (`NothingLeftBehind`).

### 1.11 Chat and the rest

`python/chat` keeps messages in an SQLite table: three requests of one or two SQL
statements each. The older indexer `lazyLoader.py` is called by nothing. The
image build (`script.py`, the Ansible roles, patches of third-party web pages) does
not run on the box, and `ansible/plugins/mitogen-0.2.2` is vendored.

### 1.12 How the parts meet

```
             brand.j2 (usb0NoMount)            systemd-run / stop
   panel  ------------------------->  PxUSBm  ------------------>  mmiLoader (unit)
   | |  \                              | | \                          |  |
   | |   \  moves, unmounts            | |  \ mounts, markers in /tmp |  | menus, zip
   | |    `---------> /media/usb0,usb11 <---'                         |  v
   | |  starts runs, writes and removes the status text               | visitors
   | `----------------> /tmp/creating_menus.txt <---------------------'
   |                                   |
   |  brand.j2                         |  wpa_supplicant.conf, network files, firewall
   `------> ConnectBoxManage.sh <------'  <---- admin API, phone home
            (brand.j2, hostname, hostapd, wpa_supplicant.conf, static site)
```

## 2. The modules

| module | models | proofs | runs |
|---|---|---|---|
| `KeyMounts` | 1.1: where keys are mounted, as a user of the box sees it (abstract) | | |
| `UsbMount` | 1.1, with the panel and the kernel as its environment; implements `KeyMounts` | `UsbMountProofs` | `usb_poll`, `usb_index` |
| `Loader` | 1.2, with PxUSBm's starts and stops | `LoaderProofs` | `loader_keys`, `loader_runs` |
| `Content` | 1.3: one run from inside | `ContentProofs` | `content` |
| `Documents` | 1.4 | | `documents` |
| `Panel` | 1.5, with people, the daemon, a loader and the main loop | `PanelProofs` | `panel` |
| `Hat` | 1.6, with the card's expansion as PxUSBm does it | | `hat` |
| `Boot` | 1.7, with power cuts, kills and faulty devices | `BootProofs` | `boot` |
| `KnownWifi` | 1.8, with admins, wpa_supplicant and dhclient | `KnownWifiProofs` | `wifi` |
| `InternetSharing` | 1.9 | `InternetSharingProofs` | `sharing` |
| `BrandStore` | 1.10: what programs expect of `brand.j2` (abstract) | | |
| `Settings` | 1.10; implements `BrandStore` | `SettingsProofs` | `settings` |

Each `MC` module only gives constants their values. Where two parts
meet, each module has the other's side as actions of its environment: `UsbMount` has the
panel's moves, `Panel` has the daemon's mounting, `Loader` has the daemon's starts and
stops and the panel's use of the status text, `Hat` has the writer of the progress file that
`Boot` models, `Settings` has all four writers of `brand.j2`. A product of two of
the modules has far more states than can be explored and is not attempted.

`IndexedIsAtUsb0` is a property with panel moves and without restarts, `NoHiddenKey`
one with restarts and without failing umounts, and so on: where a property does not survive a
fault that the code meets, the run says which faults it has, and section 14 says what the
code does then.

## 3. UsbMount: keys and mount points

### 3.1 State

| code | model |
|---|---|
| a reboot ordered, the box not down yet | `rebooting` |
| lsblk, `/dev` | `port`: the key at each drive letter (a letter stands for `/dev/sdX`, which is a whole-disk file system or has one partition `sdX1`) |
| `/proc/mounts` below `/media` | `mounts`: a stack of devices per mount point; mounts stack as in the kernel, and a device stays mounted after its key is gone |
| `brand.j2` `usb0NoMount`; a `moveMount()` in progress | `noMount`, `moving` |
| `mnt[]`, `loc[]`, `whole_disk`, `failed_mounts` | `mnt`, `loc`, `wholeDisk`, `failed` |
| local variables and place of a poll | `pc`, `cursor`, `seen`, `seenAt`, `target` |
| `/tmp/.usb0_indexed`, `/tmp/.internal_indexed` | `sentinel`, `ownIndexed` |
| the menus | `indexed`: what they were built from |

### 3.2 Actions

A poll is cut where another process can come between with an effect: the snapshot
(`PollStart`), one entry of pass 1 at a time (`SkipEmptyEntry`, `UnmountGone` and
`ForgetGone`, `ForgetMoved`, `StillMounted`), one line of pass 2 at a time
(`SkipLine`, `ChooseSlot`, `ClearDeadMount`, `CheckFileSystem`, `MountSucceeds`,
`MountFails`, `RegisterMount`, `UnmountPanelSlot`), pass 3
(`CompactTable`) and `CheckInternalContent`. Removing a gone key is two steps because
the umount comes before the markers and the table; mounting is four because the
file-system check between choosing the mount point and mounting takes long.
`Restart` may hit between any two of them and is followed by `ReleaseUsbSlot` rounds.
`ChooseSlot` with the mount point after the last (`OverSlot`, `/media/usb:`) orders a reboot and
the poll goes on, as in the code; a later poll that has another key to mount dies (`PollDies`), because
the entry with ":" is out of the range of its array; `Reboot` is the box going down, at any time after the order.
Around the daemon are `InsertKey`, `RemoveKey` and the panel's `PanelSetNoMount`,
`PanelUnmount0`, `PanelMount11`, `PanelUnmount11`.

Kept from the code on purpose: a name test by substring ("sdb" is also found in
"sdb1", `NameIn`); the markers go in the branch for vanished devices but only one of
them in the branch for moved ones; pass 3 closes one hole only; a key without a free
mount point is mounted at `/media/usb:` and overwrites the last entry, while the reboot is ordered and
not waited for; a mount is tried even when a umount below it failed.

Abstracted: the content of a key is the key; starting the loader is one step with the menus as
result (module `Loader` opens it up); SSH enabling and the upgrade
script a key may carry are outside this state; the panel's `moveMount` knows only
`/dev/sdX1`, as in the code.

### 3.3 What the mounts come to

`KeyMounts` is the same system without poll, table, snapshot and stacks: the set `plugged`, the mount
points `at[k]` of each key, whether the panel holds a key between its umount and its mount (`held`),
whether the daemon starts (`starting`) and whether a reboot is ordered (`ending`). Its steps are strict: `Mount` gives a key that has none of
usb0 .. a mount point that no key has; the daemon takes nothing away unless it starts (`Release`), and
it has started only when all are off (`Ready`); the panel takes a key from usb0 only with empty
hands (`TakeAway`) and puts one at usb11 only if it holds one (`PutBeside`, `LetGo`); `GiveBack` is the
umount of usb11, by the panel or by mountCheck. From `Order` until `Reboot` nothing is promised (`GoOn`) but
that a key that is pulled out is nowhere. `OneEach` says what this amounts to.

The refinement mapping reads `plugged` from `port`, `at[k]` from the stacks (the mount points
where the device that key `k` is now is somewhere on the stack, seen or not), `held` from
`moving`, `starting` from `pc` and `ending` from `rebooting`. Mounts that outlive their key are nobody's, so clearing them is a
stutter, and so is nearly all of a poll: what is hard is that what `UnmountGone`, `ClearDeadMount` and
`MountSucceeds` do from an old snapshot is still right for the keys of now. `MountsKept` implies
`NeverUnmountsLive`, which says only that mountCheck takes no live key off its mount point unless a reboot is ordered.

### 3.4 Runs

| run | question | bounds | result |
|---|---|---|---|
| `usb_poll` | Is the table consistent and is no live key hidden, through restarts at any step, and what is left of it after the order to reboot for want of a mount point? `SlotsUnique`, `NoHiddenKey` | 3 keys (with partition tables), 3 letters, 2 mount points, loader starts may fail | 316,872 states |
| `usb_index` | Do the marker and the menus belong to the key at usb0, are the mounts those of `KeyMounts`, does a key that stays get mounted, do the menus settle? `IndexedIsAtUsb0`, `MountsKept`, `KeyGetsMounted`, `MenusSettleUnmoved` | 2 keys (one whole-disk), 2 letters, 2 mount points, panel, copy mode, umounts may fail, no restarts, fair | 360,736 states |

*Why the bounds are enough to be interesting.* Two keys and two letters are the
least with which one key can take the other's letter, mount point or table entry,
and with which pass 3 has a hole in front of an entry; with two mount points both
usb0, which has the markers, and another one occur; three keys for two mount
points make the table overflow, and the poll goes on after it. The keys of `usb_poll` are interchangeable, hence its
symmetry; it has no liveness property. With failing umounts
and restarts together a live key may be hidden or unmounted (section 14), so `usb_poll` has restarts and
umounts that work, and `usb_index` umounts that fail and no restarts. `MountsKept` was also
explored, for 1.2 million states without symmetry, within the bounds of `usb_poll`, where the order to reboot and the
release of the slots of an earlier process occur with keys mounted; the theorem covers both. `KeyGetsMounted` is about no more
keys than mount points: with more, the box reboots again and again.

## 4. Loader: the life of a run

### 4.1 State

| code | model |
|---|---|
| what `/media/usb0` resolves to | `at0`: a key or the SD card; `dead`: the key at `at0` has been pulled out; `plugged` |
| `content/saved.zip` on a volume | `zip`: its set of cards |
| the menus under the web root | `menus`: a set of cards |
| `/tmp/creating_menus.txt`, the loading page | `status` (who wrote it), `page` |
| the process and its place | `pc`, per run: `"unit"` in PxUSBm's systemd unit, `"extra"` from the panel (`buttons.py` 303, 340) or the admin page (`ConnectBoxManage.sh` 806) |
| `_shutdown_requested`, `_usb0_was_mount` | `term`, `usb0Was` |
| the walk | `dir` (directory it has come to), `found` (cards so far) |
| PxUSBm, from usb0's side | `dpc`, `sentinel`, `ownIndexed` |

A *card* is what one directory of one volume adds to the menus: a pair (volume,
directory). This is enough to tell whether menus or a zip are complete and whose they are.
How a directory becomes cards is module `Content`.

### 4.2 Actions

`GuardFree`, `GuardTaken`, `FindStale`, `RemoveStale` are the single-instance guard, which looks
at the file, then at `/proc`, then removes; `InitializeRun`, `RemoveContent`; `FindZip`, `Unzip`,
`EndRestore` for the fast path; `FreshContent`, `EnterDirectory`, `ProcessFiles`,
`BreakOffFiles`, `StopWalk`, `EndWalk` for the walk; `NothingFound`, `WriteMenus`,
`EndPage`, `SkipZip`, `WriteZip`, `Finish` for `finalize_output`; `Exit` runs the atexit
functions. `SetIndexingLanguages` and `WriteIndexingPage` are the page's two later
rewritings: the page is looked at, its messages may be looked up online, and only then is it written,
so that it may have been removed in between. `Sigterm` sets the flag and removes both files, `Kill` is systemd's
SIGKILL. The daemon's part is `MountKey`, `StillMounted`, `CheckInternalContent`,
`FindGone`, `StartUnit`, `ClearMenus`, `UmountGone`: `systemctl stop` waits for the unit,
so `StartUnit` and `ClearMenus` need `UnitStopped`. `StartExtra`, `PanelShows` and
`PanelHides` are the other programs.

Kept from the code: a directory that breaks off returns to the walk, so a run stopped
inside its *last* directory goes on to write its menus; only the last look before
the zip (`UsbForZip`) saves the zip from being incomplete. `zip -r` adds to an archive.
`usb_is_present` takes what it finds first as what it should go on finding, and for
a run that began on the SD card a key with content is as good.

Left out: restarts of the daemon and the panel's moves while a run goes on. One key
is plugged in at a time, every key has content, and all volumes share their directory names.

### 4.3 Runs

| run | question | bounds | result |
|---|---|---|---|
| `loader_keys` | `ZipIsOwnUndisturbed`, `MenusSettleUndisturbed` | 2 keys, one indexed before, own content, 2 directories, stops and kills; fair | 271,991 states |
| `loader_runs` | `ShownWhileRunning` | 1 key, own content, 1 directory, a run of the panel next to the unit's | 1,757,679 states |

*Bounds.* Two directories are the least with which a walk can be broken off with some cards but
not all. Two keys, one with a zip and one without, give both paths, and either may follow
the other at usb0. Two runs are as many as can differ: the guard treats
"another" as one. `Undisturbed` excludes exactly one case, a key mounted over the
own content while that is being indexed (section 14), and nothing else: `CardRunOnKey` must never hold in
the behaviour; most behaviours of the run satisfy it, including all insertions,
removals, stops and kills during a key's run.

## 5. InternetSharing: forwarding, firewall, DNS and the data total

### 5.1 State

| code | model |
|---|---|
| `brand.j2` `internet_sharing`; the AP's address | `setting`; `apUp` (an address is there) |
| `ip_forward`; chains `CB_SHARE`, `CB_SHARE_NAT` and their jumps | `forwarding`; `chain`, `nat` (made for the `"current"` or an `"old"` address) |
| byte counters of `CB_SHARE` | `counter`: one direction, the code treats both alike |
| `dnsmasq.conf`; what dnsmasq has read | `dnsConf`, `dns`: `"offline"`, `"real"` or `"old"` servers |
| a phone | `phone`: what it found when it joined |
| `internet_usage.json` | `total`, `saved` (`counter_up`/`counter_down`), `thisBoot` (`boot_id` is the running system's) |
| `sharing_state['on']` | `known` |
| a check's place and local variables | `pc`, `on`, `switched`, `rebuild`, `renumbered`, `listed`, `newTotal`, `newSaved` |
| (for the properties) | `passed`, `lost`: bytes passed since the last Reset, and those whose counter went unread |

### 5.2 Actions

`StartCheck` reads the setting and sets forwarding; `ListCounters` and `SaveUsage` are
`update_usage`; `RemoveJumps`, `RemoveChains`, `AddRules`, `HookRules`, `AddNat` are
`set_sharing_rules`; `WriteDnsConf`, `RestartDnsmasq` (or `DnsmasqFails`) and
`EndOfCheck` end the check. Around it: `SetSharing` and `Reset` (admin page),
`ApGoesUpOrDown` and `Renumber` (network), `PassByte`, `PhoneJoins`, `PhoneLeaves`, and
`Restart` of the daemon and `Reboot` of the box between any two steps.

`renumbered` says that the address the check has read is no longer current, so
`AddNat` and `WriteDnsConf` then produce `"old"` rules and text, as the code does.

Abstracted: the commands that set and delete rules succeed; `dnsmasq_sharing_text` is what
it decides (offline, real, outdated); writing the files is atomic (`write_private` replaces them)
and does not fail.

### 5.3 Run

`sharing`: `NeverTwice`, `Accounted`, `SharingSettles`, `PhonesRejoin`; three bytes;
restarts anywhere but while the rules come down, a Reset anywhere but between reading and
writing the total; dnsmasq may fail; fair; 273,564 states.

*Bounds.* With three bytes a counter can be below, at and above the saved value while
the total is different from both. `MaxBytes` bounds `passed` and `counter` in `PassByte`'s guard only; the
theorems do without. The places left out of `RestartAt` and `ResetAt` are two races
of the code (section 14), and nothing else is. The liveness
properties except, by `Unheard`, a dnsmasq whose restart timed out or a daemon that
broke off just before it: the new `dnsmasq.conf` is then already written and `st['on']`
already noted, so neither the restart nor the phones' disconnection is made up for
(PxUSBm 2988). `PhonesRejoin` also excepts, by `Forgotten`, a daemon that was
restarted before it noticed the change.

## 6. Panel: buttons and commands

### 6.1 State

| code | model |
|---|---|
| `/dev/sdX1`, mounts of the sticks | `plugged`, `at` (where each stick is mounted), `dead` (mounts whose stick is gone) |
| `content/` on a stick and on the card; mount points that exist | `has`, `own`, `dirs` |
| `usb0NoMount`; `/tmp/creating_menus.txt` | `noMount`, `status` |
| mmiLoader | `loader`: a run is under way |
| `pageStack`, `pages`, `_curPage`, `command_to_reference`, the main loop's `var_Indexing` | `stack`, `pages`, `page`, `command`, `indexing` |
| `BUTTON_PRESS_BUSY` | `busy` |
| a callback's place and its local variables | `pc`, `seen`, `orig` (`NoMountOrig`), `dev`, `mnt`, per button |
| (for the properties) | `astray`: a command ended some other way than by its own clean-up |

### 6.2 Actions

`Press`, `Released`, `LongPress`, `Noise`, `ShortPress`, `EnterOnMenu`,
`EnterCommand`, `CallbackOver` are the callback around a command; actions named
`Cf...`, `Ct...`, `Ef...`, `Ru...` are the steps of `copy_from_usb`, `copy_to_usb`, `erase_folder` and
`remove_usb`, cut at every wait for people, at every command that takes
long and at every question to the system. The environment is `PlugIn`, `PullOut`, the daemon
(`Poll`, `DaemonFreesUsb11`), `LoaderStarts` and `LoaderEnds`, the main loop
(`DisplayTimesOut`, `ShowProgress`, `ProgressOver`, `LowBatteryPage`), `PowerCut`
and `ServiceRestarts`.

Kept from the code: the return from inside the loop that removes the status file
(`buttons.py` 182) ends `copy_from_usb` as `"moved"`, without its clean-up; after a
failed copy to a stick the callback waits for something that never happens
(`ct_stuck`); `isUsbPresent` finds the first stick from a letter on. Abstracted: status
pages between the first and the last are alike; the size of contents is whether they fit.

### 6.3 Run

`panel`: `FlagPutBack`, `StatusExplained`, `StickKeepsContent`; both buttons, one
stick that comes and goes, usb0 and usb11, one callback thread, power cuts and restarts of the service, a
battery that dips; 1,592,752 states.

`astray` excuses what follows a command that was cut off by an exception or a
power cut, or returned at 182; it is not set by error pages, timeouts or cancelled
commands. With two sticks `StickKeepsContent` is false (section 14), so the
run has one. `OneThread` is how RPi.GPIO calls its callbacks.

## 7. Hat: the panel's service

*State.* The hardware (`box`: board, HAT, `otg` of `brand.j2`; `readable`, `battery`,
`ap`, `line`), the progress file as its writer leaves it (`step`, `writing`), the
service (`pc`, `class`), the screen (`page`, `stack`, `timer`, `indexing`), the `led`, the
callback of the power-down line (`look`), whether a command has the callback thread
(`cmd`), `gadget` (the USB gadget driver).

*Actions.* `Starts` and `Proceeds` wait for the expansion; `Detects`, `SetsUp` or
`SetUpFails`, `Arms` or `ArmFails` construct the HAT and register its pins, `OtgSelect`
with them; `Darkens` or `StaysLit`, then `ShowsWait`, `ShowsSuccess` or `KeepsPage`, then `Warns`, `HidesWarning` or
`NoWarning`, then `UpdatesLed` are a round of the main loop, `LoopDies` its exceptions; `FalseAlarm`, `PowerFails` and
`BoxGoesOff` are the power-down callback; `OtgEdge`, `LongPress` and `Presses` (`Moves`, `Confirms`) other callbacks;
`CommandShows`, `CommandEnds` and `CommandSticks` are what a command of the buttons does to the screen: any
page, any value of `pageStack` but "status", and it returns, raises an exception or waits for ever with it. Of `pageStack`
the values wait, remove_usb and insertUSB are one, `"kept"`; only commands set them, and the pages of the
progress file set none;
`OpensProgress` and `WritesProgress` are PxUSBm; `WorldChanges`, `LineFalls`,
`LineRises` the world.

*Run* `hat`: `StartsUp`, `PowerDownServed`, `TellsBattery`, `ScreenGoesDark` on nine
combinations of board, HAT and `otg`, charge low or flat, three events, of which a recovering
charge is not one; fair; 444,698 states. Three events are enough for a failure, a change of charge and a button
or an edge to meet in any order, and for two presses that start a command, its page left behind, a battery
that goes flat over it and recovers. Battery readings are one level, and no battery
reads as full. `ScreenGoesDark` and `TellsBattery` except what the code does not give, each reached by the run:
a `pageStack` left at `"kept"` and a timer the warning stopped (section 14). Deadlock is off because
the box may be switched off.

## 8. Boot: expansion, names, roles, services, watch

*State.* The card (`progress`, `grown`, `resized`), the .link files (`links`), the
network's files, of which the wlan that each names is kept (`conf` for `wificonf.txt`,
`served` for interfaces, hostapd and dnsmasq, `denied` for dhcpcd), the adapters' names
since they were plugged in (`num`), what the radio needs (`radio`), `eth`, `pm2`, the
program's place and its local variables.

*Actions.* The program is `ReadProgress`, `Fdisk`, `Resize`, `OpenProgress` and
`WriteProgress` (opening empties the file); `LookAtNames`, `NameAdapter`, `EndNames`;
`NoClass`, `FindClass`, `BringUp`; `AlreadyFixed`, `WriteTmpFiles`, `SwapFile` (one move
or copy), `WriteConf`, and the exceptions of all that (`FixCrashes`, `CopyCrashes`,
`NoApCrashes`); `RunMode`, `CheckPm2`, the four parts of `CheckServices` and its second
call; in the main loop `WatchAp` and `WatchEth`. Around it: `PowerOn` (adapters trade
places), `Reboot` (the end of one the program ordered and did not wait for),
`PowerCut`, `Killed`, `Crashes`, `Restart`, `FdiskTimesOut`, `Replug`, `RadioFails`, `EthFails`, `Pm2Stops`.

*Run* `boot`: `ProgressTrue`, `FilesInStep`, `BoxComesUp`; an adapter on the board and
one on USB with an odd name, two faults; fair; 874,456 states. Two adapters are the most
the code handles and the least that can trade names and roles. Two
faults put one before and one after a reboot, or one into the recovery from the other.
Ethernet ports, which are named the same way, are left out. eth0 with no
cable counts as well. `BoxComesUp` supposes that fixfiles was not
ended between a move and its copy nor while it wrote `wificonf.txt` (`Lost`, section 14).

## 9. KnownWifi: the list of remembered networks

*State.* `wpa_supplicant.conf` before and after the marker (`own`, `extra`; a block is a
name and whose password it has), the list (`known`), which load the file's time is not over a
second after, wpa_supplicant's start or this process's last write (`upTo`: the slack of
2577-2579), and whether that was less than a second ago (`soon`), what wpa_supplicant has
read and is connected with (`loaded`, `now`), the `lease`, the interface, what was
restarted in the last five minutes (`recent`), the daemon's memory (`lastNet`, `seen`,
`tested`), and a check's place and what it has read (`text`, `entries`, `block`, `learnt`).

*Actions.* `ReadFiles`, `OtherRun`, `ReadStatus`, `Learn`, `NoInternet`, `WriteConf`, `Reconfigure` and
`ReconfigureFails` are `check_known_wifi`; `CheckStatCI` restarts the interface; `SaveNetwork` and
`Wipe` are the admin page, `SetClientSsid` and `SetClientPassword` are
`ConnectBoxManage.sh` (whose sed changes every such line of the file), `Apply` and `IfUp` restart both
programs; `Connect`, `Drop`, `GetLease`, `InterfaceDies`, `SecondPasses`, `FiveMinutes`, `DaemonRestart`. An interface that
dies is down, refuses `wpa_cli`, or hangs: the last is taken for fine when `wpa_cli` times out
(2325-2326). `Configured` is `check_CI`, by which names and passwords with "Password" or "Network" in them
(`Odd`) switch the watch off.

*Run* `wifi`: `OwnKept`, `LearntWorks`, `WipeHolds`, `ConfCatchesUp`, `LeaseFollows`,
`ClientComesBack`; two networks, a list of two, two acts, one odd network; fair; 593,873 states. With a
list of two, what was learnt first is moved down and up again, and what a check has read
differs from the list in order as well as in length. With a list of
one, learning the second network drops the first. The theorems hold for any list.
`WipeHolds` speaks of every check that learns nothing, also one during which the list is wiped, for the
code reads the list again before it writes (2623-2626). A check that learns writes the list it read before its
test: a wipe from its reading to its writing is undone, 45 seconds of test included, and that is left out
(`learnt => disturbed # "wipe"`; section 14). `ClientComesBack` is about interfaces that are down or refuse
`wpa_cli`, with a network that `check_CI` takes for configured. `LeaseFollows` says that a client does not stay at
a network without its lease unless the daemon could not have followed (`early`), nobody being asked.
`disturbed` notes what changed under a running check, `early` a move that the daemon
cannot follow up, `misread` that the times say the file was read and it was not (a failed `wpa_cli
reconfigure`, a change in the granted second); they excuse the cases
of section 14. A list that cannot be saved is left out.

## 10. Content: from folders to cards

*State.* `stick` (folder to file to content), what the indexer wrote (`indexed`), the
order of the walk and what it carries (`order`, `todo`, `language`, `webpaths`,
`complexLst`), what it makes (`mains`, `folders`, `cards`, `names`, `pages`), the versions
of the English, the translation files and the texts shown.

*Actions.* `DetectLanguageDirs`, `FindComplexDirs`, `ProcessComplexDirs`, `SkipRoot`,
`Visit` (one folder), `PulledOut`, `CrossListZimCards`, `FinalizeOutput`, then `Restore`,
`Upgrade`, `Correct` (a native speaker) and `PowerCut`. `FilesShown` and `TilesShown` compare the cards with
what is read from the stick alone, without an order. They judge the folders that `Judgeable` names; the
others are those that an order can change, and section 14 says how: folders beside the languages',
neighbours of a closed folder whose names begin with its name, and languages with an `index.htm` of their own.
Both take the code's word for which folder has a tile and which has its files listed; where
`docs/usb-structure.md` says otherwise, section 14 has it. Cards are a set, so how often a card is written is not said.

*Run* `content`: `FilesShown`, `TilesShown`, `OpensOwn`, `TextIsCurrent`,
`CorrectionsKept`; sticks of one to three folders out of ten places, nine listings
and two of the root, every order `os.walk` may give, two versions of the English;
1,855,562 states. Three folders give a closed folder, a neighbour and something inside; languages
include `zh` and `zh-CN`, which share translations and a beginning. Deadlock is off because a run ends.

Abstracted: the slug of a name in `media/` is a table (`FileSlug`, `CollectionSlug`), in which different names, also
one that `unique_media_name` made up, may have one slug; the run has `a.mp3` renamed to `a--Bible.mp3` beside a file
`a-Bible.mp3`. What `same_file_content` sees of a file, its size and its ends, is `Looks`; the run has two contents
that look the same. `OpensOwn` asks no more than an equal look, and nothing of the data file of a card
whose slug another card has (`SharesSlug`; section 14). A name made up is never the name of
a file of the stick. One string stands for all of a
language's. Left out: pictures and thumbnails, hidden
folders, a stick replugged inside a folder (`Loader` has that).

## 11. Documents: office documents to pages

*State.* The author's deck or book and what of it is unsaved, the file as a sequence of
saves (each with the objects it wrote, links to the one before, damage), the page.

*Actions.* `EditText`, `AddSlide`, `RemoveSlide`, `MoveSlides`, `HideSlide`,
`SaveChanges` (append what changed), `SaveWhole`, `Damage`, `AddRow`, `HideSheet`, `Index`.
The conversions are operators: `PptPage` (which save wins for which object),
`PptxPage`, `SheetsPage`, `PptParagraphs` and `PptxParagraphs` with `TextHtml` (style runs,
bullets), `DocPage` (blocks, tails, page breaks). The properties state what
must be on the page from what the author saved, without these operators.

*Run* `documents`: `DeckShown`, `TextShown`; two slides, six edits or damages; sheets of
two with a limit of 2 rows for the code's 2000; 584 DocBook trees; slide texts of up to three paragraphs
with lengths, levels, bullets and style runs; 675,140 states. Deadlock is off because the author stops.
Left out: .docx (a library converts it), pictures, tables in slides, cell formats, speaker notes.

## 12. Settings: ConnectBoxManage.sh and brand.j2

### 12.1 State and actions

A command of the script is a sequence of steps (`Script`): back up, change, look up, set
the hostname, edit `brand.j2`, unlink and link, restore. `run` has, for each run, its phase
(the lock tested, made, or in the command), its command and its place; `conf`, `original`, `live`,
`link`, `lock` are what it changes. `brand` is the file, `use` and `held` what
each of its writers is doing with it (it has read, it has truncated) and is going to write; `panel`,
`phone` and `px` are where the other writers are.

`Ask` starts a run (API, or `PhoneApplies`), `TouchLock`, `BackUp`, `ChangeFile`, `SetCountry`, `LookUp`,
`SetLive`, `SedHosts`, `RunJq`, `OpenBrand`, `SaveBrand`, `Unlink`, `Link`, `RestoreFile`,
`RestartHostapd` and `Finish` are its steps; `Loop...` is `globals.init` in the panel's
main loop, `Px...` PxUSBm at its start (which alone replaces the file in one step),
`Phone...` is phonehome.py, `PowerCut` the power.

### 12.2 Run

`settings`: `NothingLeftBehind`, `SettingsKept`, `ResetRestores`, `NamesSettle`; two
requests at a time, two in all, for a hostname (good or refused), a setting, the static site, the Wi-Fi country
or a reset, one power cut; fair; 972,607 states. A command for the password, the Wi-Fi or the interface has
only steps that the hostname's has as well; the theorems speak of all. `spoilt` notes
two programs at `brand.j2` at a time, or one cut short while it rewrites it, `raced` two
commands mixed or one cut short, `refused` that a step failed half way (a name refused, the sed on
`/etc/hostname`, which nobody looks at, or that on `/etc/hosts`, which exits 1; a copy not put back) and no reset
has ended well since, `uncopied` that `set_client_wificountry` (729-733) changed a `hostapd.conf` without a
copy, so that no reset restores it. `Afterwards` is off, which
ends the exploration of mixed commands, and of phone home once `brand.j2` is spoilt, where the properties say
nothing more. Deadlock is off because nobody has to ask.

### 12.3 Refinement

`BrandStore` is what every program takes `brand.j2` for: a record of which a
step changes one setting. `SettingsKept` is its specification under
the mapping `store <- Stored`, where a program that has truncated the file counts as having
written it. `settings` checks it and `BrandStaysStore` proves it.

Left out: authentication of requests, the country, wipe, openwell and course
downloads, shutdown, reboot and unmountusb, and the rewriting of `brand.j2` by the panel's
buttons (module `Panel`). The client's name and password are in `KnownWifi`.

## 13. Fairness and proofs

### 13.1 Fairness

| module | fair | because |
|---|---|---|
| `UsbMount` | `WF(Poll)`, `WF(PanelMount11)`, `SF(UnmountPanelSlot)`, `WF(Reboot)` | the main loop has no way to stop (3654-3765) and every command it calls ends or has a timeout; the second half of a function already running; a copy keeps `/media/usb11` busy only for a time, so the umount tried at every poll succeeds sooner or later; an ordered reboot comes |
| `Loader` | `WF` of each run's `Step`, of `Sigterm`, of `Poll` | a running process goes on, a signal sent arrives; `Kill` is not fair: systemd kills only a run that does not end by itself |
| `InternetSharing` | `WF(Check)` | part of the same main loop |
| `Boot` | `WF` of `Program`, `PowerOn`, `Reboot`, `Restart`, `EthAnswers`, `FiveMinutes` | the program goes on, somebody switches the box on, an ordered reboot comes, `Restart=on-failure`, the router answers, time passes; a restart of PM2 works in the end |
| `KnownWifi` | `WF(CheckKnownWifi)`, `SF(CheckStatCI)`, `WF` of `IfUp`, `GetLease`, `FiveMinutes` | the main loop comes to both checks again and again; between two looks of the second the first may be in the middle, hence `SF`; ifup and dhclient end, time passes |
| `Settings` | `WF` of each request's `Manage`, of `Loop` | a command that runs gets on, and so does the panel's main loop; phone home may wait for its server for ever |
| `Hat` | `WF` of `Expansion`, `Service`, `Callbacks`, `TimePasses`, `CommandEnds \/ CommandSticks` | PxUSBm, the service under `Restart=on-failure` (it dies of exceptions only), the callback thread and the clock go on; a command of the buttons ends or is stuck for good, which the properties except |

Nothing obliges people to plug, pull, press or ask. The liveness properties have
hypotheses of the form "from some point on nobody moves keys", without which nothing has to settle.

### 13.2 Proofs

All theorems hold for every value of the constants that satisfies the module's named
assumption, which says what the constants are and no more: any number of keys, letters,
mount points, directories, bytes, sticks up to two, requests, names, adapters, networks,
lengths of the list, folders and files. A theorem that needs more names it in its statement, and
section 14 says what happens without it.

`UsbMountProofs`

* `TypeCorrect`: `Spec => []TypeOK`. The interesting part is that no table index runs off the end, and that
  `loc` and `target` stay within the mount points and the one after the last.
* `SlotsStayUnique`: `Spec => []SlotsUnique`.
* `SentinelStaysBooked`: `~Restarts => (Spec => []SentinelBooked)`.

The inductive invariant is `IInv == TypeOK /\ SlotsUnique /\ ProgressOK`. `SlotsUnique`
is not inductive alone: between `ChooseSlot` and `MountSucceeds` it depends on `target`
being booked by nobody, and in `ForgetGone` on the entry being there; `ProgressOK`
says so. All other theorems except the time from the order to reboot until the box is down (`rebooting`), in which
the code keeps none of this. `InRange` (nothing is booked or chosen after the last mount point before
the order) makes the exception work: without an order there is a free mount point whenever one is chosen, and `PollDies` cannot
happen (`Alive`); an order stands until `Reboot` (`OrderStands`), which leaves nothing mounted. `SentinelBooked` needs in addition that a new key never overwrites an
entry: the index falls back to the last one when there is no hole, and a
pigeonhole argument (`HoleLeft`: a free mount point number leaves a free entry, since
booked numbers are distinct) shows that this does not happen. With restarts `SentinelBooked` is
false (section 14), hence the hypothesis.

* `KeysTracked`, `LettersStayUnique`, `NoKeyHidden`, `LiveNeverUnmounted`:
  `ReleaseWorks => (Spec => ...)` for `rebooting \/ KInv`, `rebooting \/ LettersUnique`, `NoHiddenKey` and
  `NeverUnmountsLive`. `ReleaseWorks == ~UmountMayFail \/ ~Restarts`: where a restarted daemon
  forgets its table, its umounts must work, otherwise a key left mounted is booked nowhere (section 14).
* `IndexedStaysAtUsb0`: `~Restarts /\ ~LoaderMayFail => (Spec => []IndexedIsAtUsb0)`: a loader that was
  not started leaves the old menus, a restart the old marker (section 14).

That a poll unmounts no live key is a matter of the whole poll, because it acts on a snapshot
that ages while it works. `KInv` (first checked by TLC, with restarts and without) says for
each place of a poll what the snapshot still tells: a letter on which something is mounted goes to
nobody else (`LettersKept`), only the top of a stack may be live (`OnlyTopLive`), a live mounted key
is booked where it is mounted (`LiveBooked`), a device in the snapshot is the one mounted
(`SeenAgrees`, `SeenMounted`), and pass 1 has left no entry that disagrees with the snapshot for
pass 2 to book twice (`PassOneDone`). The four facts hold together or not at all: without
`LettersUnique` an entry removed for a vanished key would free the mount point of a live one.

* `MountsImplementKeyMounts`: `ReleaseWorks => (Spec => MountsKept)`, the refinement of `KeyMounts`. On top
  of `KInv` it needs `PortsUnique` (a key is in one port only). `PopKey` and `PushKey` say what one umount and
  one mount do to `KeyAt`; then each action is matched with a step of `KeyMounts` or a stutter: `KeptUnmount`
  rests on `LiveStaysMounted` (what mountCheck unmounts is nobody's), `KeptMount` on `NoEntryYet` and
  `LiveBooked` (the key has no mount point yet, and no key has this one), `KeptStart` on `StartClean`; after the order
  to reboot every step is `GoOn` (`KeptGoOn`).
* `OneSlotEach`: `ReleaseWorks => (Spec => []OneEach)`. `OneEach` is shown inductive for the steps of `KeyMounts`
  alone (`OneEachStep`) and carried over by the refinement, without a further look at the program.

`LoaderProofs`

* `LoaderTypeCorrect`: `Spec => []TypeOK`; strengthened by `WalkOK`, where `dir` is at each place of a run.
* `ShownStaysTrue`: `~Kills => (Spec => []ShownWhileRunning)`. Strengthened by `StatusOwned` (a run whose text
  is shown is alive and past its first write) and `PageOwned` (the page is there only if
  some run has begun a walk and not exited). A killed run runs no atexit function, hence `~Kills`.
* `ZipStaysOwn`: `~ExtraRuns => (Spec => ZipIsOwnUndisturbed)`. Strengthened by `Alone` (only
  the unit runs), `Looked` (a run in its walk has seen what is at usb0, and it is what it was)
  and `FoundAll` (a run that ends its walk without being stopped has the cards of all
  directories of one volume). The step lemma assumes `~CardRunOnKey` before and after the step.

`InternetSharingProofs`

* `SharingTypeCorrect`, `SharingAccounted` and `SharingNeverTwice`: `NoRaces => (Spec => []Inv)` for `TypeOK`,
  `Accounted` and `NeverTwice`. `NoRaces` says of the constants that the daemon is not
  restarted while the rules come down, a Reset does not fall between reading and writing
  the file, and a list command fails only if there is no chain; the properties are false without
  any one of the three (section 14). The invariant `AInv` adds `ChainOK` (what each place of the check
  implies about the chain) and `CountOK` (the saved value never exceeds a live counter, what
  was listed never exceeds it, and what is about to be written is right for the
  file as it is), without which `Accounted` is not preserved by `SaveUsage`, `RemoveChains` and `Reboot`.

`PanelProofs`

* `PanelTypeCorrect`: `Spec => []TypeOK`, from `PInv`, which adds the places of a callback, that the
  admin pages are shown from the admin menu only, and that `/media/usb0` exists.
* `FlagStaysPutBack`: `OneThread => (Spec => []FlagPutBack)`. The flag is global and its backup local: that no
  other callback has saved a raised flag needs `Alone` (one callback at a time) and
  `FlagOwned` (until something goes astray no backup holds a raised flag, and a raised flag has a
  `copy_from_usb` under way). With two threads it is false: the second saves the raised flag.
* `StatusStaysExplained`: `Spec => []StatusExplained`, for any number of threads, from
  `StatusOwned`: a status text with no loader has a callback at a place of `Writing`.
* `StickContentSafe`: `Sticks = {First} /\ OneThread => (Spec => StickKeepsContent)`. `StickInv` says that mounting is
  suspended while `copy_from_usb` works (`PollsSuspended`), so that the daemon cannot put the stick back to
  usb0, and that from the stick's move on it is not at usb0 (`OutOfTheWay`), whose content folder is emptied.
  With two sticks it is false: the one that was moved is not the one `isUsbPresent` finds (section 14).

`BootProofs` (for any adapters and any number of faults)

* `TypeCorrect`: `Spec => []TypeOK`. `NamingOK` counts: numbers taken and adapters still to name are never more
  than the adapters, so a free number is always found; `SwapOK` says that fixfiles has an access
  point and how many of its copies are made. The proof showed that an earlier `TypeOK` was too narrow for a box with one
  adapter; the numbers that names may have are now a definition of their own (`Wlan`).
* `ProgressStaysTrue`: `Spec => []ProgressTrue`, from `RecordOK`: what is about to be
  written to the progress file is done, and `do_resize2fs` is entered with the partition grown.
* `FilesStayInStep`: `Spec => []FilesInStep`, from `FilesFollow`: outside fixfiles the
  files name the roles found last. fixfiles' own copies are counted in `SwapOK`.

`KnownWifiProofs`

* `TypeCorrect`: `Spec => []TypeOK`; the list keeps its length because `Without`, which drops a network
  from it, gives a list of networks no longer than before. `Without` is a recursive function; that it exists and
  what it yields is proved by induction over the sets of numbers for which it does (`Keeps`).
* `ChecksKnowTheFiles`: `Spec => [](IInv /\ CInv)`. `CInv` relates what four parties hold of one file: what the check
  has read (`TextRead`), the list it has saved (`ListSaved`), what wpa_supplicant runs with, by
  the times that the code compares (`TimesTrue`), and the block that is being tested (`TestedInUse`).
* `CheckKeepsOwn`, `WipedStaysWiped`, `OnlyWorkingLearnt`: the three action properties, from `CInv`.

`ContentProofs`

* `InterfaceStaysCurrent`: `Spec => []TextIsCurrent`, and `CorrectionsAreKept`: `Spec => CorrectionsKept`.
* `CardsOpenOwn`: `Spec => []OpensOwn`, for any sticks, in any order of the walk. The invariant
  `MInv` says of every card that its name in `media/` leads to what its file holds, and so does its data
  file (`CardsLinked`). A name once given is kept; a new one is free or a copy's
  (`NameIsUsable`), and one is always free because more numbers are tried than
  names are taken (`SomeNameIsFree`, a pigeonhole argument); a data file that is
  not a copy's is only written over by a card that shares the slug.
* `FilesAreShown` and `TilesAreShown`: `Spec => []FilesShown` and `Spec => []TilesShown`, for any names, folders and
  files and any order of the walk. Two assumptions carry it: to begin with is an order on names
  (`NameAssumption`), and a stick's folders are finitely many paths with their parents, whose files have names
  and whose `.language` holds a code (`ContentAssumption`). The properties speak of
  the end of the walk only, so the invariant `WalkInv` says what holds after every folder. `Carried`: what is
  carried names the stick's complex folders and no others, all of them where there are no languages
  (`ComplexTrue`, `ComplexAll`), each has its page (`ComplexPaged`), and a web path or a page of the indexer
  always has a closed folder above it (`WebpathsBlocked`, `IndexedInside`). `TodoOrdered`: deeper folders wait
  in front, and those inside a language are of the language carried; without it a card could get the next language.
  `InnerMarked`: a folder that waits inside a closed one has a web path above it, so it will be skipped.
  `CardsTrue`: a card of an ordinary folder is in its language, a tile belongs to an outermost closed one.
  `AllDone`: whatever can be reached and does not wait has its cards.
  These are needed together: that a visited folder is classified as the stick alone would have it
  (`OpenFolder`, `ClosedFolder`, `InnerFolder`) rests on `Carried`, and `Carried` on what earlier folders were
  classified as. That complex folders are found in every order (`FindsComplex`) is an induction over
  the prefixes of the listing.

`SettingsProofs`

* `BrandStaysStore`: `Spec => SettingsKept`: the step of every program maps to a step of
  `BrandStore` or to a stutter. The invariant `SInv` says that a file not yet spoilt has
  at most one program at work on it (`OneAtWork`), which holds the file's contents
  with one setting changed, and that it is empty just while that program has it
  open; without it the write of a held copy could undo another setting.
* `LockAndLinkKept`: `Spec => []NothingLeftBehind`, and `ResetGivesFactory`: `Spec => ResetRestores`,
  from `RInv`: one run at a time (`OneRuns`), a copy is the file as the box was made
  and so is a file without one (`CopiesTrue`), a command that has passed its copying has its
  copies (`CopiesMade`), and a reset has restored what it has passed (`RestoredSoFar`). The proof
  needs that no name, nor any other content, is `None`, which the assumption now says.

*Only model-checked:* the safety properties `DeckShown` and `TextShown` (`Documents`), and all liveness
properties: `KeyGetsMounted`, `MenusSettleUnmoved`, `MenusSettleUndisturbed`, `SharingSettles`, `PhonesRejoin`,
`BoxComesUp`, `ConfCatchesUp`, `LeaseFollows`, `ClientComesBack`, `NamesSettle` and those of `Hat`. Liveness under
fairness and ENABLED are out of the prover's reach. `DeckShown` and `TextShown` are what
recursive conversions compute for every input (text by nesting, saves by their links). Simple inductions
can be done, over the numbers for which something holds (`Without`, `ComplexOf`, the pigeonhole arguments), but not
those with an operator as parameter, and neither SelectSeq nor RECURSIVE operators can be reasoned about.

## 14. Where code and expectation part

No run checks a property that is violated; what follows was found while modelling and,
where a property is named, seen in a counterexample when the hypothesis or bound that
excludes it was removed.

*Keys.*
- With more keys than mount points mountCheck orders a reboot and does not wait (the sleep at PxUSBm 674 is commented
  out, and the comment there, "This ends here", is wrong): it mounts the key at `/media/usb:` and writes it over the last
  entry (`IsNewIndex`). The key whose entry is lost is booked nowhere. When the key at `/media/usb:` is put in again at a
  letter before the lost key's, its entry becomes free and it is mounted over the lost key; TLC finds this with four letters
  when the exception is taken out of `NoHiddenKey`, and not with the three of `usb_poll` (with the exception the
  invariant holds with four as well: 3,689,914 states, too long for a run of every day). The next new key ends the
  daemon with an IndexError (655), and `release_usb_slots` leaves `/media/usb:` mounted. All this until the box is down: `NoHiddenKey`, `IndexedIsAtUsb0` and `MountsKept` except `rebooting`.
- `release_usb_slots` removes `/tmp/.usb0_indexed` only while something is mounted at usb0
  (PxUSBm 206). If the panel took the key away before the daemon restarted, the next key
  at usb0 is taken for indexed (`IndexedIsAtUsb0` with `Restarts`).
- The marker is set whether or not the loader starts, so a start that comes to nothing leaves the old
  menus until the key is pulled out (`IndexedIsAtUsb0` with `LoaderMayFail`).
- `.internal_indexed` is removed only when a device vanished (561-564), not when the panel
  had moved it (569-585): the own content does not come back (`MenusSettle`).
- With failing umounts and restarts together a key stays mounted when the daemon has started, booked
  nowhere, and may then be hidden or unmounted (`MountsKept`, `NoHiddenKey`, `NeverUnmountsLive`).
- `usb0NoMount` is read once per poll (487), so a poll under way mounts a key after the
  panel has set it; a key put back before the next snapshot after it failed to mount
  stays in `failed_mounts` (510), which `KeyGetsMounted` allows for.

*Loader.*
- A key mounted over the own content while that is being indexed gets a `saved.zip` with
  the own content's menus, which every later insertion restores (`ZipIsOwn`). The docstring's
  marker (mmiLoader 550-553) does not exist.
- A run killed after 90 s leaves its text and page behind (`Kills` with `ShownWhileRunning`).

*Internet sharing.*
- `update_usage` saves 0 as already counted before `set_sharing_rules` removes the
  chain: a restart in between, or a list command that fails while the chain is there, counts
  everything again (`NeverTwice`), though the comment at PxUSBm 2813-2815 says a restart does not.
- A Reset between `update_usage`'s reading and writing is undone (2894).
- A dnsmasq restart that times out is never made up for (2988).

*Panel.*
- Copy from USB erases the stick when `/media/usb0` is the only mount point
  (`CopyFromKeepsStick` with `Dirs0 = {0}` and one stick): moveMount finds no other place,
  and `/media/usb0/content` is emptied before it is copied to. With two sticks the same happens although
  usb11 exists (`StickKeepsContent` with `Sticks = {s1, s2}`).
- `buttons.py` 182 returns from inside the loop that removes the status file; after a successful
  move the command ends without copying, mounting suspended, status text in place.
- After a failed copy to a stick the callback waits for ever (535): no button works until a restart.
- With a callback thread per pin `BUSY` is set by test and store, and cleared before the press is acted upon (607).

*Panel's service.*
- The LED off and the power-down page of shutdownDevice are replaced by the main loop
  (comments at `hats.py` 99-101, 106-107 say otherwise).
- The low battery page is replaced by the wait page; with the charger plugged in, the
  success page that follows stays for ever, and so does the page of a command that ends by an exception
  (`ScreenGoesDark` excepts both).
- Commands return with `pageStack` at wait (`buttons.py` 428-430, a stick that cannot be mounted) or wait for ever at remove_usb
  (533-536). From then on `powerOffDisplay` takes every page for a waiting one (`displays.py` 366-368): the
  screen never goes dark, and a low battery page stays after the battery has recovered until a
  button is pressed (`ScreenGoesDark` and `TellsBattery` except `stack = "kept"`).
- The commands set `hat.displayPowerOffTime` of the module `hats`, not of the HAT: no command moves the timer.
- A half-written progress file passes the wait (`cli.py` 212).
- DummyHAT and q1y2018HAT always raise an exception: the service restarts for ever.
- `device_type` is `CM`, never `CM4`, so a right button held at the start selects q3y2021 with wrong pins; on RM3
  the OTG callback lacks its argument; `otg` as a word other than "none" ends the
  constructor on a NEO q4y2018; a fresh modprobe that succeeds is taken for a failure; q3y2021
  makes no OTG call at its start.
- A power-down line that is low when its event is registered is not noticed, and a failed voltage
  reading hides the warning.

*Boot.*
- A power cut or kill between fixfiles' moves and copies (2062-2070), or while `wificonf.txt` is
  written, leaves a file missing or empty and the program in a crash loop (`Lost`); the
  docstring at 1829-1831 says that writing .tmp files first avoids it.
- `do_resize2fs` returns without a word when the tool says nothing (docstring 911-913), and the
  program goes on after it has ordered a reboot.
- `checkServices` is retried only when its first call succeeded (3640), and restarts
  `ifup@eath0` (3176), so that eth0 is never helped.
- One adapter may get two .link files; without an AP in any file `get_AP` raises IndexError; `check_PM2`
  blocks the start; `dbCheck` compares bytes with text.

*Wi-Fi.*
- What an admin saves during the internet test is undone by the check's stale copy of
  `own` (comment 2352-2353): `OwnKept` and `LearntWorks` except `disturbed`.
- A wipe while a check runs that then learns is undone: the list read before the test of up to 45 seconds is
  saved again with the network on top (2604-2620), and only a check that learns nothing reads it
  again (2623-2626). The comment at 2624 and `docs/administration.md` 46-49 ("forgets all
  remembered networks") say that a wipe holds. `WipeHolds` without its
  exception is violated by a wipe between the saving and the writing; one before the saving is undone in the list itself.
- A file changed within a second after wpa_supplicant read it counts as read (2577-2579): a wrong
  password typed in that second is remembered (`LearntWorks` excepts `misread`).
- A `wpa_cli` that hangs counts as an answer (2325-2326): the interface is never restarted. `check_CI` takes a
  network with "Password" in its name, or "Network" in its password or in the next block's name, for none:
  its interface is not watched. The image's own
  "Default" and "Default1" (`ansible/group_vars/all` 88-89) count as configured.
- The DHCP renewal is forgotten when the client moves within five minutes of the last one,
  or before the first check after a restart (2568).
- A client that moves during the test may get a network without internet remembered
  (`docs/administration.md` 41-45); a failed `wpa_cli reconfigure` counts as read, so a wrong password may
  be learnt; after a restart of the daemon nothing is learnt until wpa_supplicant restarts.
- `ConnectBoxManage.sh` changes every `ssid=` and `psk=` of the file, remembered networks included.

*Content.*
- Folders beside the languages' are indexed in the language walked before
  (`docs/usb-structure.md` 90-91).
- A folder whose name begins with that of a closed neighbour is lost (mmiLoader 3011-3098).
- A folder with exactly one .html page, and an Android app, get no tile unless complex
  (`docs/usb-structure.md` 137-142); a collection folder with only .html gives a blank card.
- `process_dir` overwrites an author's `index.html`; equally named folders share one
  collection file; `a.b` and `a-b` have one slug, and so do a folder `a-mp3` and a file `a.mp3`, and the `a--Bible.mp3`
  made up for a second `a.mp3` and a file `a-Bible.mp3` (3656-3661): the later one's data file replaces the
  other's (`OpensOwn` excepts `SharesSlug`).
- A folder with files and subfolders has its files listed one by one and no tile: `docs/usb-structure.md` 204-238 (2e, "the
  only trigger is the presence of at least one subdirectory") promises one tile with a file browser. The code asks for a
  folder without files of its own, a page to enter by, or subfolders two deep (2860-2885). `FilesShown` and `TilesShown` say what the code
  does; read from the document they are violated by `zh/Bible` with `a.mp3` and `part`.
- `same_file_content` (3559-3577) compares size and ends: of two files that differ only in between, one is never
  played, against "the same content (a copy)" (3550-3552).
- A restore whose configuration cannot be read (1013-1017) leaves the zip's old texts (`TextIsCurrent` excepts `unread`).
- `zh-CN` before `zh` ends the run with a KeyError; the other order makes the menu entry
  `zh-CN` open `zh` (docs line 100). ZIM cards are always listed under English too.
- `index.htm` in a language's folder after another web page, or `AndroidManifest.xml`, hides the language.
- A power cut while a translation file is written loses the corrections in it.

*Documents.*
- A slide that no save holds whole loses its outline text although it is there (2552).
- With the newest UserEditAtom damaged, an older version is shown.
- A .pptx with one slide that cannot be parsed is a download as a whole; a slide missing in the zip is left out alone
  (2065-2068, 2088-2091).
- An .xls counts trailing blank rows and an .xlsx blank rows up to the limit, against
  "non-empty rows" (1661-1662); a sheet blank up to the limit shows neither rows nor count.

*Settings.*
- The lock is tested, then made; the first run to exit removes the other's. A power cut leaves it in place if `/tmp`
  survives, and every command then answers "already running" with code 0.
- `set_client_wificountry` (729-733) edits `hostapd.conf` without the copy that the other commands make first:
  a reset does not put the country back, or puts back a copy that has it (`ResetRestores` excepts `uncopied`).
- A sed on `/etc/hostname` that fails is not looked at (558-559) and one on `/etc/hosts` ends the command (567-586):
  either leaves the names apart until a reset (`NamesSettle` excepts `refused`).
- A refused hostname leaves `/etc/hostname` changed and `/etc/hosts` never matching again; the sed that should
  change `brand.j2` is in single quotes and never matches; `set_hostname` answers nothing.
- A missing nginx link makes `set_staticsite` fail for ever; `setBrand` empties `brand.j2` when jq reads
  an empty file; a crash of the panel's main loop can end a callback that is writing
  (docstring PxUSBm 140-142 says writers replace the file).
- A reset does not restore `brand.j2` or the static site; `reload_nginx` tests logger's
  status; `PUT ui-config` always answers 400; phone home deletes a setting from its queue also
  when the command failed, and applies it twice when the deletion is lost.

## 15. Not modelled

- *Chat*: each request is one or two SQL statements, and nothing is kept between requests. The
  ids are SQLite's row numbers, which start again when every message has expired; the
  client that asks for newer ids is not in this repository.
- *Image build, Ansible roles, patches of web pages*: do not run on the box. `mitogen-0.2.2` is vendored.
- *`lazyLoader.py`*: nothing calls it. *`scripts/phonehome.py`*: an older copy.
- *Of mmiLoader*: pictures, thumbnails, archives to download, .docx.
- *Of the panel*: the drawing of pages, the ATTiny of the CM4 board, `BrandCreationTool.py`.
- *Of PxUSBm*: `dbCheck` (only for a variant of the box, and it fails at its first test),
  SSH enabling, the upgrade script of a key; a .link file that cannot be written; more than ten adapters
  (the numbers in use are looked up as text, so that "10" takes 0 and 1 as well).
- *Of ConnectBoxManage.sh*: wipe, downloads, shutdown, reboot, unmountusb; the `index.html` that the
  static site makes on the stick, and a link that cannot be made for another reason than being there.
- The products of two modules, such as the daemon's restarts and the panel's moves while a
  loader run goes on: each side is in the other's environment instead.
