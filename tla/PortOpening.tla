----------------------------- MODULE PortOpening -----------------------------
(***************************************************************************)
(* Opening a device with its settings (settings.rs, platform.rs and the    *)
(* open of each platform), and the changes of the rate on an open port.    *)
(* Every system call may fail, and what was opened so far is closed then.  *)
(* Another program may use the device whenever nobody keeps it out.  `pc'  *)
(* is the place in settings::open:                                         *)
(*                                                                         *)
(*   check                                       the options               *)
(*   tty, retry, nonblock, async                 the open of Unix          *)
(*   com, save, reopen, restore, timeouts,       the open of Windows       *)
(*     clone, pipe                                                         *)
(*   configure, rate                             the rest of settings::open*)
(*   open, rejected, failed                      its results               *)
(***************************************************************************)
EXTENDS Naturals

CONSTANTS
  Platforms,  \* a subset of {"linux", "macos", "windows"}
  Options,    \* the options of the open
  Lines,      \* the settings in which other programs leave a line
  Rates,      \* the rates that update asks for
  MaxOps      \* bound: operations on the open port

VARIABLES
  platform, options, pc,
  iossiospeed,  \* whether the macOS driver has IOSSIOSPEED; a PTY does not
  line,         \* the settings of the device
  saved,        \* the DCB that the Windows open carries from handle to handle
  stored,       \* the rate that the TTYPort of macOS remembers
  handles,      \* the open handles of this process on the device
  exclusive,    \* whether one of them keeps other programs out
  disturbed,    \* another program used the device since it was opened
  baudRate,     \* history: the rate acknowledged last
  reported,     \* history: the same, or what getBaudRate answered since then
  ops           \* operations made

openVars == <<platform, options, pc, iossiospeed, line, saved, stored, handles,
              exclusive, disturbed, baudRate, reported, ops>>

Unix == platform # "windows"

InitOpening ==
  /\ platform \in Platforms /\ options \in Options /\ pc = "check"
  /\ iossiospeed \in (IF platform = "macos" THEN BOOLEAN ELSE {FALSE})
  /\ line \in Lines /\ saved = line /\ stored = 0
  /\ handles = {} /\ exclusive = FALSE /\ disturbed = FALSE
  /\ baudRate = 0 /\ reported = 0 /\ ops = 0

-----------------------------------------------------------------------------
(* What no platform, or not this one, can do.  Stop bits count in halves.  *)
Malformed ==
  \/ options.dataBits \notin 5 .. 8 \/ options.stopBits \notin {2, 3, 4}
  \/ options.parity \notin {"none", "odd", "even", "mark", "space"}
  \/ options.path = "invalid" \/ options.baudRate = 0

Sticky == options.parity \in {"mark", "space"}

AnyOptions == FALSE

Unsupported ==
  \/ Unix /\ options.stopBits = 3
  \/ platform = "macos" /\ Sticky
  \/ platform = "windows" /\ ~options.lock

Check ==
  /\ pc = "check"
  /\ pc' = IF Malformed \/ Unsupported THEN "rejected"
           ELSE IF Unix THEN "tty" ELSE "com"
  /\ UNCHANGED <<platform, options, iossiospeed, line, saved, stored, handles,
                 exclusive, disturbed, baudRate, reported, ops>>

(* What the serialport crate sets when it opens a device with the builder: *)
(* of the flow control only one kind, and nothing of IXANY, HUPCL, CMSPAR. *)
Built(rate) ==
  [line EXCEPT
     !.dataBits = options.dataBits,
     !.stopBits = IF options.stopBits = 4 THEN 4 ELSE 2,
     !.parity = IF options.parity \in {"odd", "even"} THEN options.parity
                ELSE "none",
     !.cts = options.rtscts, !.rts = options.rtscts,
     !.xon = options.xon /\ ~options.rtscts,
     !.xoff = options.xon /\ ~options.rtscts,
     !.rate = rate]

(* A step that opens, passes on or closes handles, and goes on.            *)
Hold(kept, next) ==
  /\ handles' = kept /\ pc' = next
  /\ disturbed' = (disturbed /\ kept # {})

ChangesNothing ==
  UNCHANGED <<platform, options, iossiospeed, line, saved, stored, baudRate,
              reported, ops>>

Passes(from, kept, next) ==
  /\ pc = from /\ Hold(kept, next)
  /\ exclusive' = exclusive /\ ChangesNothing

(* A system call fails: what the locals of the open own at this place, and *)
(* nothing else, is closed on the way out.  From `pipe' on the duplicate   *)
(* belongs to a COMPort; the file has become a raw handle, which Tokio     *)
(* owns during its registration and closes if that fails.                  *)
LeakedPipe == handles \ {"file"}

ClosedTwice ==
  IF pc \in {"configure", "rate"} THEN handles \cup {"file"} ELSE handles

Owned ==
  CASE pc \in {"nonblock", "async"} -> {"tty"}
    [] pc = "save" -> {"com"}
    [] pc \in {"restore", "timeouts", "clone"} -> {"file"}
    [] pc = "pipe" -> {"file", "control"}
    [] pc \in {"configure", "rate"} -> IF Unix THEN {"tty"}
                                      ELSE {"io", "control"}
    [] OTHER -> {}

Fails ==
  /\ pc \in {"tty", "retry", "nonblock", "async", "com", "save", "reopen",
             "restore", "timeouts", "clone", "pipe", "configure", "rate"}
  /\ handles' = handles \ Owned /\ pc' = "failed"
  /\ exclusive' = FALSE
  /\ UNCHANGED disturbed /\ ChangesNothing

-----------------------------------------------------------------------------
(* TTYPort::open.  On macOS it ends with IOSSIOSPEED, which a PTY rejects  *)
(* when all else is set; platform::open then retries with the rate 0.      *)
NoLock == FALSE

LockTaken == options.lock

OpenTty ==
  /\ pc \in {"tty", "retry"}
  /\ IF platform = "macos" /\ ~iossiospeed /\ pc = "tty"
     THEN /\ line' = Built(line.rate)
          /\ Hold({}, "retry") /\ exclusive' = FALSE /\ stored' = 0
     ELSE /\ line' = Built(IF pc = "retry" THEN line.rate
                           ELSE options.baudRate)
          /\ Hold({"tty"}, "nonblock") /\ exclusive' = LockTaken
          /\ stored' = IF pc = "retry" THEN 0 ELSE options.baudRate
  /\ UNCHANGED <<platform, options, iossiospeed, saved, baudRate, reported,
                 ops>>

SetNonblocking == Passes("nonblock", handles, "async")
RegisterTty == Passes("async", handles, "configure")

-----------------------------------------------------------------------------
(* Windows: COMPort cannot do overlapped I/O, so its settings are saved,   *)
(* and the device is opened again without it.  In between it is free.      *)
OpenCom ==
  /\ pc = "com"
  /\ line' = Built(options.baudRate)
  /\ Hold({"com"}, "save") /\ exclusive' = TRUE
  /\ UNCHANGED <<platform, options, iossiospeed, saved, stored, baudRate,
                 reported, ops>>

SaveState ==
  /\ pc = "save"
  /\ saved' = line
  /\ Hold({}, "reopen") /\ exclusive' = FALSE
  /\ UNCHANGED <<platform, options, iossiospeed, line, stored, baudRate,
                 reported, ops>>

Reopen ==
  /\ pc = "reopen" /\ Hold({"file"}, "restore")
  /\ exclusive' = TRUE /\ ChangesNothing

NotRestored == line

Restored == saved

RestoreState ==
  /\ pc = "restore"
  /\ line' = Restored
  /\ pc' = "timeouts"
  /\ UNCHANGED <<platform, options, iossiospeed, saved, stored, handles,
                 exclusive, disturbed, baudRate, reported, ops>>

SetTimeouts == Passes("timeouts", handles, "clone")

(* The duplicate belongs to a COMPort at once, and the file to Tokio, also *)
(* when its registration fails.                                            *)
CloneHandle == Passes("clone", {"file", "control"}, "pipe")
RegisterPipe == Passes("pipe", {"io", "control"}, "configure")

-----------------------------------------------------------------------------
(* configure: what the builder cannot say.  On macOS tcsetattr may replace *)
(* a custom speed by a standard one.                                       *)
LinuxParity(parity) ==
  CASE options.parity = "mark" -> "odd"
    [] options.parity = "space" -> "even"
    [] OTHER -> parity

UnixConfigured ==
  LET l == [line EXCEPT !.xon = options.xon, !.xoff = options.xoff,
                        !.xany = options.xany, !.hupcl = options.hupcl]
  IN  IF platform # "linux" THEN l
      ELSE [l EXCEPT !.sticky = Sticky, !.parity = LinuxParity(@)]

WindowsConfigured ==
  [line EXCEPT !.rate = options.baudRate, !.dataBits = options.dataBits,
               !.parity = options.parity, !.stopBits = options.stopBits,
               !.cts = options.rtscts, !.hupcl = options.hupcl,
               !.xon = options.xon, !.xoff = options.xoff]

SpeedsAfter == {line.rate} \cup (IF iossiospeed THEN {1} ELSE {})

Configure ==
  /\ pc = "configure"
  /\ pc' = "rate"
  /\ IF Unix THEN \E rate \in SpeedsAfter :
                    line' = [UnixConfigured EXCEPT !.rate = rate]
     ELSE line' = WindowsConfigured
  /\ UNCHANGED <<platform, options, iossiospeed, saved, stored, handles,
                 exclusive, disturbed, baudRate, reported, ops>>

(* set_baud_rate: by termios when the port was opened with the rate 0,     *)
(* otherwise by IOSSIOSPEED, which TTYPort remembers.                      *)
SetBaudRate(rate) ==
  /\ platform = "macos" /\ stored # 0 => iossiospeed
  /\ line' = [line EXCEPT !.rate = rate]
  /\ stored' = IF stored = 0 THEN 0 ELSE rate
  /\ baudRate' = rate /\ reported' = rate

FinishOpen ==
  /\ pc = "rate"
  /\ SetBaudRate(options.baudRate)
  /\ pc' = "open"
  /\ UNCHANGED <<platform, options, iossiospeed, saved, handles, exclusive,
                 disturbed, ops>>

-----------------------------------------------------------------------------
(* Operations of the open port.  A rate of 0 is rejected, and a rate that  *)
(* the driver refuses leaves the former one.                               *)
Update(rate) ==
  /\ pc = "open"
  /\ \/ rate # 0 /\ SetBaudRate(rate)
     \/ UNCHANGED <<line, stored, baudRate, reported>>
  /\ ops' = ops + 1
  /\ UNCHANGED <<platform, options, pc, iossiospeed, saved, handles, exclusive,
                 disturbed>>

StoredRate == IF platform = "macos" THEN stored ELSE line.rate

BaudRate == IF platform = "macos" /\ stored # 0 THEN stored ELSE line.rate

GetBaudRate ==
  /\ pc = "open"
  /\ reported' = BaudRate
  /\ ops' = ops + 1
  /\ UNCHANGED <<platform, options, pc, iossiospeed, line, saved, stored,
                 handles, exclusive, disturbed, baudRate>>

(* Another program opens the device, changes its settings and closes it.   *)
OtherProgram ==
  /\ ~exclusive /\ pc \notin {"check", "rejected", "failed"} /\ ~disturbed
  /\ line' \in Lines
  /\ disturbed' = (handles # {})
  /\ UNCHANGED <<platform, options, pc, iossiospeed, saved, stored, handles,
                 exclusive, baudRate, reported, ops>>

Over == pc \in {"open", "rejected", "failed"} /\ UNCHANGED openVars

NextOpening ==
  \/ Check \/ Fails
  \/ OpenTty \/ SetNonblocking \/ RegisterTty
  \/ OpenCom \/ SaveState \/ Reopen \/ RestoreState \/ SetTimeouts
  \/ CloneHandle \/ RegisterPipe
  \/ Configure \/ FinishOpen
  \/ ops < MaxOps /\ (GetBaudRate \/ \E rate \in Rates : Update(rate))
  \/ OtherProgram \/ Over

-----------------------------------------------------------------------------
(* The parity on the wire: CMSPAR turns odd into mark and even into space. *)
Parity ==
  CASE platform = "linux" /\ line.sticky /\ line.parity = "odd" -> "mark"
    [] platform = "linux" /\ line.sticky /\ line.parity = "even" -> "space"
    [] OTHER -> line.parity

Matches ==
  /\ line.dataBits = options.dataBits /\ line.stopBits = options.stopBits
  /\ Parity = options.parity
  /\ line.cts = options.rtscts /\ line.rts = options.rtscts
  /\ line.xon = options.xon /\ line.xoff = options.xoff
  /\ line.hupcl = options.hupcl
  /\ Unix => line.xany = options.xany
  /\ line.rate = baudRate /\ reported = baudRate

(* An open port has exactly the settings that were asked for, down to a    *)
(* parity or a rate that its platform's first calls do not know, and with  *)
(* the rate of the last update that succeeded, which getBaudRate reports:  *)
(* whatever other programs left in the line before the open or between the *)
(* two opens of Windows.  A lock keeps them out from the open on.          *)
SettingsExact ==
  pc = "open" => /\ options.lock => ~disturbed
                 /\ ~disturbed => Matches

(* An open that fails at any call leaves no handle behind, in particular   *)
(* not one whose ownership was passed on, and closes none that is not its  *)
(* own any more; one that succeeds keeps exactly the handle for transfers  *)
(* and, on Windows, the one for control.                                   *)
HandlesExact ==
  /\ Owned \subseteq handles
  /\ pc \in {"check", "rejected", "failed"} => handles = {} /\ ~exclusive
  /\ pc = "open" => handles = IF Unix THEN {"tty"} ELSE {"io", "control"}
=============================================================================
