--------------------------- MODULE PlatformProofs ---------------------------
(***************************************************************************)
(* Opening and listing, for any options, lines and operations, any systems *)
(* and any registry: an open port has its settings and handles exactly,    *)
(* and a listing has every port with strings that are whole.               *)
(***************************************************************************)
EXTENDS Platform, SequenceLemmas

-----------------------------------------------------------------------------
(* Opening.  What the builder has set of the options.                      *)
HasBuilt(l) ==
  /\ l.dataBits = options.dataBits
  /\ l.stopBits = IF options.stopBits = 4 THEN 4 ELSE 2
  /\ l.parity = IF options.parity \in {"odd", "even"} THEN options.parity
                ELSE "none"
  /\ l.cts = options.rtscts /\ l.rts = options.rtscts

(* All options but the rate, as configure leaves them.                     *)
HasOptions ==
  /\ line.dataBits = options.dataBits /\ line.stopBits = options.stopBits
  /\ Opening!Parity = options.parity
  /\ line.cts = options.rtscts /\ line.rts = options.rtscts
  /\ line.xon = options.xon /\ line.xoff = options.xoff
  /\ line.hupcl = options.hupcl
  /\ Opening!Unix => line.xany = options.xany

OpenTypes ==
  /\ platform \in {"linux", "macos", "windows"}
  /\ options \in OptionSet /\ line \in LineSet /\ saved \in LineSet
  /\ exclusive \in BOOLEAN /\ disturbed \in BOOLEAN

Ends == {"rejected", "failed"}
UnixSteps == {"tty", "retry", "nonblock", "async"}
WindowsSteps == {"com", "save", "reopen", "restore", "timeouts", "clone", "pipe"}
BothSteps == {"configure", "rate", "open"}

(* Where the open can be, and that the options were accepted by then.      *)
Place ==
  /\ pc \in {"check"} \cup Ends \cup UnixSteps \cup WindowsSteps \cup BothSteps
  /\ pc \in UnixSteps => Opening!Unix
  /\ pc \in WindowsSteps => ~Opening!Unix
  /\ pc \notin {"check"} \cup Ends =>
       ~Opening!Malformed /\ ~Opening!Unsupported

(* The handles at each place.                                              *)
HandlesAt ==
  /\ pc \in {"nonblock", "async"} => handles = {"tty"}
  /\ pc = "save" => handles = {"com"}
  /\ pc \in {"restore", "timeouts", "clone"} => handles = {"file"}
  /\ pc = "pipe" => handles = {"file", "control"}
  /\ pc \in BothSteps =>
       handles = IF Opening!Unix THEN {"tty"} ELSE {"io", "control"}
  /\ pc \in {"check", "tty", "retry", "com", "reopen"} \cup Ends => handles = {}

(* A handle keeps others out if the options ask for it, on Windows always. *)
Keeping ==
  /\ pc \notin Ends => exclusive = (handles # {} /\ options.lock)
  /\ pc \in Ends => ~exclusive
  /\ pc \notin Ends /\ disturbed => handles # {} /\ ~options.lock

(* What has been set of the options at each place, unless another program  *)
(* had the line since.                                                     *)
SetSoFar ==
  /\ pc = "save" => HasBuilt(line)
  /\ pc \in {"reopen", "restore"} => HasBuilt(saved)
  /\ pc \in {"timeouts", "clone", "pipe"} => HasBuilt(line)
  /\ pc \in {"nonblock", "async", "configure"} /\ ~disturbed => HasBuilt(line)
  /\ pc \in {"rate", "open"} /\ ~disturbed => HasOptions

RateKnown ==
  pc = "open" =>
    /\ ~disturbed => line.rate = baudRate /\ reported = baudRate
    /\ stored \in {0, baudRate}

OpenInv ==
  OpenTypes /\ Place /\ HandlesAt /\ Keeping /\ SetSoFar /\ RateKnown

LEMMA OpenInit == Opening!InitOpening => OpenInv
<1> SUFFICES ASSUME Opening!InitOpening PROVE OpenInv
  OBVIOUS
<1> USE DEF Opening!InitOpening
<1>1. OpenTypes
  BY OpeningAssumption DEF OpenTypes
<1>2. Place
  BY DEF Place, Ends, UnixSteps, WindowsSteps, BothSteps
<1>3. HandlesAt
  BY DEF HandlesAt, BothSteps
<1>4. Keeping
  BY DEF Keeping, Ends
<1>5. SetSoFar
  BY DEF SetSoFar
<1>6. RateKnown
  BY DEF RateKnown
<1> QED
  BY <1>1, <1>2, <1>3, <1>4, <1>5, <1>6 DEF OpenInv

LEMMA OpenSuffices == OpenInv => Opening!SettingsExact /\ Opening!HandlesExact
<1> SUFFICES ASSUME OpenInv
             PROVE  Opening!SettingsExact /\ Opening!HandlesExact
  OBVIOUS
<1>1. Opening!SettingsExact
  BY DEF OpenInv, Opening!SettingsExact, Opening!Matches, SetSoFar, HasOptions,
         RateKnown, Keeping, Ends
<1>2. Opening!Owned \subseteq handles
  BY DEF OpenInv, HandlesAt, BothSteps, Opening!Owned
<1>3. Opening!HandlesExact
  <2>1. CASE pc \in {"check", "rejected", "failed"}
    BY <1>2, <2>1 DEF OpenInv, HandlesAt, Keeping, Ends, BothSteps,
                      Opening!HandlesExact
  <2>2. CASE pc = "open"
    BY <1>2, <2>2 DEF OpenInv, HandlesAt, BothSteps, Opening!HandlesExact
  <2> QED
    BY <1>2, <2>1, <2>2 DEF Opening!HandlesExact
<1> QED
  BY <1>1, <1>3
LEMMA AcceptedKept ==
  ASSUME UNCHANGED <<platform, options>>,
         ~Opening!Malformed, ~Opening!Unsupported
  PROVE  ~Opening!Malformed' /\ ~Opening!Unsupported'
BY DEF Opening!Malformed, Opening!Unsupported, Opening!Unix, Opening!Sticky

LEMMA CheckKeeps ==
  ASSUME OpenInv, Opening!Check
  PROVE  OpenInv'
<1> USE DEF OpenInv, Opening!Check
<1>1. OpenTypes'
  BY DEF OpenTypes
<1>3. Place'
  <2>1. UNCHANGED <<platform, options>>
    OBVIOUS
  <2>2. CASE Opening!Malformed \/ Opening!Unsupported
    BY <2>2 DEF Place, Ends, UnixSteps, WindowsSteps, BothSteps, Opening!Unix
  <2>3. CASE ~(Opening!Malformed \/ Opening!Unsupported)
    BY <2>1, <2>3, AcceptedKept
    DEF Place, Ends, UnixSteps, WindowsSteps, BothSteps, Opening!Unix
  <2> QED
    BY <2>2, <2>3
<1>2. pc' \in {"tty", "com", "rejected"}
  OBVIOUS
<1>4. HandlesAt'
  BY <1>2 DEF HandlesAt, Ends, UnixSteps, WindowsSteps, BothSteps, Opening!Unix
<1>5. Keeping'
  BY <1>2 DEF Keeping, Ends, HandlesAt
<1>6. SetSoFar' /\ RateKnown'
  BY <1>2 DEF SetSoFar, RateKnown
<1> QED
  BY <1>1, <1>3, <1>4, <1>5, <1>6

LEMMA FailsKeeps ==
  ASSUME OpenInv, Opening!Fails
  PROVE  OpenInv'
<1> USE DEF OpenInv, Opening!Fails, Opening!ChangesNothing
<1>1. OpenTypes'
  BY DEF OpenTypes
<1>3. Place'
  BY DEF Place, Ends, UnixSteps, WindowsSteps, BothSteps
<1>2. HandlesAt'
  <2>1. handles \subseteq Opening!Owned
    BY DEF HandlesAt, Place, Ends, UnixSteps, WindowsSteps, BothSteps,
           Opening!Owned
  <2> QED
    BY <2>1 DEF HandlesAt, Ends, BothSteps
<1>4. Keeping'
  BY DEF Keeping, Ends
<1>5. SetSoFar' /\ RateKnown'
  BY DEF SetSoFar, RateKnown
<1> QED
  BY <1>1, <1>3, <1>2, <1>4, <1>5

(* A step that makes a port: its type, its place and what it holds.        *)
LEMMA PlaceGoesOn ==
  ASSUME Place, UNCHANGED <<platform, options>>, pc \notin {"check"} \cup Ends,
         \/ pc' \in UnixSteps /\ Opening!Unix
         \/ pc' \in WindowsSteps /\ ~Opening!Unix
         \/ pc' \in BothSteps
  PROVE  Place'
<1>1. ~Opening!Malformed' /\ ~Opening!Unsupported'
  BY AcceptedKept DEF Place
<1>3. Opening!Unix' = Opening!Unix
  BY DEF Opening!Unix
<1> QED
  BY <1>1, <1>3 DEF Place, Ends, UnixSteps, WindowsSteps, BothSteps

(* Values of the fields that the builder sets make a line.                 *)
LineWith(l, d, s, y, c, x, r) ==
  [l EXCEPT !.dataBits = d, !.stopBits = s, !.parity = y, !.cts = c,
            !.rts = c, !.xon = x, !.xoff = x, !.rate = r]

LEMMA LineOf ==
  ASSUME NEW l \in LineSet, NEW d \in Nat, NEW s \in Nat, NEW y \in Parities,
         NEW c \in BOOLEAN, NEW x \in BOOLEAN, NEW r \in Nat
  PROVE  LineWith(l, d, s, y, c, x, r) \in LineSet
BY DEF LineWith, LineSet

LEMMA BuiltIs ==
  ASSUME OpenTypes, NEW r \in Nat
  PROVE  Opening!Built(r) \in LineSet /\ HasBuilt(Opening!Built(r))
<1> DEFINE b == Opening!Built(r)
<1>1. options.xon \in BOOLEAN /\ options.rtscts \in BOOLEAN
  BY DEF OpenTypes, OptionSet
<1>3. b \in LineSet
  <2> DEFINE d == options.dataBits
             s == IF options.stopBits = 4 THEN 4 ELSE 2
             y == IF options.parity \in {"odd", "even"} THEN options.parity
                  ELSE "none"
             c == options.rtscts
             x == options.xon /\ ~options.rtscts
  <2>1. d \in Nat /\ s \in Nat /\ y \in Parities
    BY DEF OpenTypes, OptionSet, Parities
  <2>2. c \in BOOLEAN /\ x \in BOOLEAN
    BY <1>1
  <2>3. b = LineWith(line, d, s, y, c, x, r)
    BY DEF Opening!Built, LineWith
  <2>4. line \in LineSet
    BY DEF OpenTypes
  <2> HIDE DEF b, d, s, y, c, x
  <2>5. LineWith(line, d, s, y, c, x, r) \in LineSet
    BY <2>1, <2>2, <2>4, LineOf
  <2> QED
    BY <2>3, <2>5
<1>2. b.dataBits = options.dataBits
  BY DEF OpenTypes, Opening!Built, LineSet
<1>4. b.stopBits = IF options.stopBits = 4 THEN 4 ELSE 2
  BY DEF OpenTypes, Opening!Built, LineSet
<1>5. b.parity = IF options.parity \in {"odd", "even"} THEN options.parity
                 ELSE "none"
  BY DEF OpenTypes, Opening!Built, LineSet
<1>6. b.cts = options.rtscts /\ b.rts = options.rtscts
  BY DEF OpenTypes, Opening!Built, LineSet
<1> QED
  BY <1>3, <1>2, <1>4, <1>5, <1>6 DEF HasBuilt

LEMMA BuiltKept ==
  ASSUME NEW CONSTANT l, UNCHANGED options, HasBuilt(l)
  PROVE  HasBuilt(l)'
BY DEF HasBuilt

LEMMA TtyKeeps ==
  ASSUME OpenInv, Opening!OpenTty
  PROVE  OpenInv'
<1> USE DEF OpenInv
<1>1. /\ pc \in {"tty", "retry"} /\ Opening!Unix
      /\ UNCHANGED <<platform, options, saved>>
  BY DEF Opening!OpenTty, Place, UnixSteps
<1>3. PICK r \in Nat : line' = Opening!Built(r)
  <2>1. line.rate \in Nat /\ options.baudRate \in Nat
    BY DEF OpenTypes, LineSet, OptionSet
  <2>2. \/ line' = Opening!Built(line.rate)
        \/ line' = Opening!Built(options.baudRate)
    BY DEF Opening!OpenTty
  <2> QED
    BY <2>1, <2>2
<1>2. line' \in LineSet /\ HasBuilt(line)'
  <2>1. line' \in LineSet /\ HasBuilt(line')
    BY <1>3, BuiltIs
  <2> QED
    BY <1>1, <2>1 DEF HasBuilt
<1>4. \/ /\ pc' = "retry" /\ handles' = {} /\ exclusive' = FALSE
         /\ disturbed' = FALSE
      \/ /\ pc' = "nonblock" /\ handles' = {"tty"}
         /\ exclusive' = options.lock /\ disturbed' = disturbed
  BY DEF Opening!OpenTty, Opening!Hold, Opening!LockTaken, OpenTypes
<1>5. options.lock \in BOOLEAN
  BY DEF OpenTypes, OptionSet
<1>6. OpenTypes'
  BY <1>1, <1>2, <1>4, <1>5 DEF OpenTypes
<1>7. Place'
  BY <1>1, <1>4, PlaceGoesOn DEF Ends, UnixSteps
<1>8. HandlesAt'
  BY <1>4 DEF HandlesAt, Ends, BothSteps
<1>9. Keeping'
  <2>1. handles = {} /\ ~disturbed
    BY <1>1 DEF Keeping, Ends, HandlesAt
  <2>2. disturbed' = FALSE
    BY <1>4, <2>1 DEF OpenTypes
  <2> QED
    BY <1>1, <1>4, <1>5, <2>2 DEF Keeping, Ends
<1>10. SetSoFar' /\ RateKnown'
  BY <1>2, <1>4 DEF SetSoFar, RateKnown
<1> QED
  BY <1>6, <1>7, <1>8, <1>9, <1>10

(* A step that leaves the line alone: opening, passing on and closing      *)
(* handles on the way from one place to the next.                          *)
Step(from, next, kept) ==
  /\ pc = from /\ pc' = next /\ handles' = kept
  /\ disturbed' = (disturbed /\ kept # {})
  /\ exclusive' = (kept # {} /\ options.lock)
  /\ UNCHANGED <<platform, options, line, stored, baudRate, reported>>
  /\ saved' \in {saved, line}

Steps ==
  \/ Step("nonblock", "async", {"tty"}) \/ Step("async", "configure", {"tty"})
  \/ Step("save", "reopen", {}) /\ saved' = line
  \/ Step("reopen", "restore", {"file"}) /\ saved' = saved
  \/ Step("timeouts", "clone", {"file"})
  \/ Step("clone", "pipe", {"file", "control"})
  \/ Step("pipe", "configure", {"io", "control"})

LEMMA StepsKeep ==
  ASSUME OpenInv, Steps
  PROVE  OpenInv'
<1> USE DEF OpenInv
<1>1. UNCHANGED <<platform, options, line>>
  BY DEF Steps, Step
<1>3. OpenTypes'
  <2>1. options.lock \in BOOLEAN
    BY DEF OpenTypes, OptionSet
  <2> QED
    BY <2>1 DEF OpenTypes, Steps, Step
<1>2. Place'
  <2>1. pc \in UnixSteps \cup WindowsSteps
    BY DEF Steps, Step, UnixSteps, WindowsSteps
  <2>2. \/ pc' \in UnixSteps /\ Opening!Unix
        \/ pc' \in WindowsSteps /\ ~Opening!Unix
        \/ pc' \in BothSteps
    BY DEF Steps, Step, Place, UnixSteps, WindowsSteps, BothSteps
  <2> QED
    BY <1>1, <2>1, <2>2, PlaceGoesOn DEF UnixSteps, WindowsSteps, Ends
<1>4. HandlesAt'
  <2>1. Opening!Unix' = Opening!Unix
    BY <1>1 DEF Opening!Unix
  <2> QED
    BY <2>1 DEF HandlesAt, Steps, Step, Place, Ends, UnixSteps, WindowsSteps,
                BothSteps
<1>5. Keeping'
  BY DEF Keeping, Ends, Steps, Step, HandlesAt
<1>6. SetSoFar' /\ RateKnown'
  <2>1. HasBuilt(line)' = HasBuilt(line)
    BY <1>1 DEF HasBuilt
  <2>2. saved' = line => HasBuilt(saved)' = HasBuilt(line)
    BY <1>1 DEF HasBuilt
  <2>3. saved' = saved => HasBuilt(saved)' = HasBuilt(saved)
    BY <1>1 DEF HasBuilt
  <2> QED
    BY <2>1, <2>2, <2>3 DEF SetSoFar, RateKnown, Steps, Step, Keeping, Ends,
                            Place, WindowsSteps, Opening!Unsupported
<1> QED
  BY <1>3, <1>2, <1>4, <1>5, <1>6

LEMMA PassesAre ==
  ASSUME OpenInv, NEW from, NEW kept, NEW next, kept # {},
         Opening!Passes(from, kept, next), exclusive = options.lock
  PROVE  Step(from, next, kept)
<1>1. options.lock \in BOOLEAN /\ disturbed \in BOOLEAN
  BY DEF OpenInv, OpenTypes, OptionSet
<1>3. exclusive' = (kept # {} /\ options.lock)
  BY <1>1 DEF Opening!Passes
<1>2. disturbed' = (disturbed /\ kept # {})
  BY DEF Opening!Passes, Opening!Hold
<1> QED
  BY <1>3, <1>2 DEF Step, Opening!Passes, Opening!Hold, Opening!ChangesNothing

LEMMA StepsAre ==
  ASSUME OpenInv,
         \/ Opening!SetNonblocking \/ Opening!RegisterTty \/ Opening!SaveState
         \/ Opening!Reopen \/ Opening!SetTimeouts \/ Opening!CloneHandle
         \/ Opening!RegisterPipe
  PROVE  Steps
<1>1. pc \in {"nonblock", "async", "timeouts", "clone", "pipe"} =>
        handles # {} /\ exclusive = options.lock
  <2>1. pc \in {"nonblock", "async", "timeouts", "clone", "pipe"} =>
          handles # {} /\ pc \notin Ends
    BY DEF OpenInv, HandlesAt, Ends
  <2>2. options.lock \in BOOLEAN
    BY DEF OpenInv, OpenTypes, OptionSet
  <2> QED
    BY <2>1, <2>2 DEF OpenInv, Keeping
<1>3. ~Opening!Unix => options.lock = TRUE \/ pc \in {"check"} \cup Ends
  <2>1. options.lock \in BOOLEAN
    BY DEF OpenInv, OpenTypes, OptionSet
  <2> QED
    BY <2>1 DEF OpenInv, Place, Opening!Unsupported, Opening!Unix
<1>2. CASE Opening!SetNonblocking
  <2>1. Opening!Passes("nonblock", {"tty"}, "async")
    <3>1. pc = "nonblock"
      BY <1>2 DEF Opening!SetNonblocking, Opening!Passes
    <3>2. handles = {"tty"}
      BY <3>1 DEF OpenInv, HandlesAt
    <3> QED
      BY <1>2, <3>2 DEF Opening!SetNonblocking
  <2>2. Step("nonblock", "async", {"tty"})
    BY <1>1, <2>1, PassesAre DEF Opening!Passes
  <2> QED
    BY <2>2 DEF Steps
<1>4. CASE Opening!RegisterTty
  <2>1. Opening!Passes("async", {"tty"}, "configure")
    <3>1. pc = "async"
      BY <1>4 DEF Opening!RegisterTty, Opening!Passes
    <3>2. handles = {"tty"}
      BY <3>1 DEF OpenInv, HandlesAt
    <3> QED
      BY <1>4, <3>2 DEF Opening!RegisterTty
  <2>2. Step("async", "configure", {"tty"})
    BY <1>1, <2>1, PassesAre DEF Opening!Passes
  <2> QED
    BY <2>2 DEF Steps
<1>5. CASE Opening!SaveState
  <2>1. Step("save", "reopen", {}) /\ saved' = line
    BY <1>5 DEF Opening!SaveState, Opening!Hold, Step
  <2> QED
    BY <2>1 DEF Steps
<1>6. CASE Opening!Reopen
  <2>1. pc = "reopen"
    BY <1>6 DEF Opening!Reopen
  <2>2. options.lock = TRUE
    BY <1>3, <2>1 DEF OpenInv, Place, Ends, WindowsSteps
  <2>3. Step("reopen", "restore", {"file"}) /\ saved' = saved
    BY <1>6, <2>2 DEF Opening!Reopen, Opening!Hold, Opening!ChangesNothing, Step
  <2> QED
    BY <2>3 DEF Steps
<1>7. CASE Opening!SetTimeouts
  <2>1. Opening!Passes("timeouts", {"file"}, "clone")
    <3>1. pc = "timeouts"
      BY <1>7 DEF Opening!SetTimeouts, Opening!Passes
    <3>2. handles = {"file"}
      BY <3>1 DEF OpenInv, HandlesAt
    <3> QED
      BY <1>7, <3>2 DEF Opening!SetTimeouts
  <2>2. Step("timeouts", "clone", {"file"})
    BY <1>1, <2>1, PassesAre DEF Opening!Passes
  <2> QED
    BY <2>2 DEF Steps
<1>8. CASE Opening!CloneHandle
  <2>1. Opening!Passes("clone", {"file", "control"}, "pipe")
    BY <1>8 DEF Opening!CloneHandle
  <2>2. Step("clone", "pipe", {"file", "control"})
    BY <1>1, <2>1, PassesAre DEF Opening!Passes
  <2> QED
    BY <2>2 DEF Steps
<1>9. CASE Opening!RegisterPipe
  <2>1. Opening!Passes("pipe", {"io", "control"}, "configure")
    BY <1>9 DEF Opening!RegisterPipe
  <2>2. Step("pipe", "configure", {"io", "control"})
    BY <1>1, <2>1, PassesAre DEF Opening!Passes
  <2> QED
    BY <2>2 DEF Steps
<1> QED
  BY <1>2, <1>4, <1>5, <1>6, <1>7, <1>8, <1>9

LEMMA ComKeeps ==
  ASSUME OpenInv, Opening!OpenCom
  PROVE  OpenInv'
<1> USE DEF OpenInv
<1>1. /\ pc = "com" /\ pc' = "save" /\ handles' = {"com"}
      /\ exclusive' = TRUE /\ disturbed' = disturbed
      /\ UNCHANGED <<platform, options, saved>>
  BY DEF Opening!OpenCom, Opening!Hold, OpenTypes
<1>3. line' = Opening!Built(options.baudRate) /\ options.baudRate \in Nat
  BY DEF Opening!OpenCom, OpenTypes, OptionSet
<1>2. line' \in LineSet /\ HasBuilt(line)'
  <2>1. line' \in LineSet /\ HasBuilt(line')
    BY <1>3, BuiltIs
  <2> QED
    BY <1>1, <2>1 DEF HasBuilt
<1>4. options.lock = TRUE /\ ~Opening!Unix
  <2>1. options.lock \in BOOLEAN
    BY DEF OpenTypes, OptionSet
  <2> QED
    BY <1>1, <2>1 DEF Place, Ends, WindowsSteps, Opening!Unsupported,
                      Opening!Unix
<1>5. ~disturbed
  BY <1>1, <1>4 DEF Keeping, Ends
<1>6. OpenTypes'
  BY <1>1, <1>2 DEF OpenTypes
<1>7. Place'
  BY <1>1, <1>4, PlaceGoesOn DEF Ends, WindowsSteps
<1>8. HandlesAt'
  BY <1>1 DEF HandlesAt, Ends, BothSteps
<1>9. Keeping'
  BY <1>1, <1>4, <1>5 DEF Keeping, Ends
<1>10. SetSoFar' /\ RateKnown'
  BY <1>1, <1>2 DEF SetSoFar, RateKnown
<1> QED
  BY <1>6, <1>7, <1>8, <1>9, <1>10

LEMMA RestoreKeeps ==
  ASSUME OpenInv, Opening!RestoreState
  PROVE  OpenInv'
<1> USE DEF OpenInv
<1>1. /\ pc = "restore" /\ pc' = "timeouts" /\ line' = saved
      /\ UNCHANGED <<platform, options, saved, handles, exclusive, disturbed>>
  BY DEF Opening!RestoreState, Opening!Restored
<1>3. OpenTypes'
  BY <1>1 DEF OpenTypes
<1>2. Place'
  BY <1>1, PlaceGoesOn DEF Place, Ends, WindowsSteps
<1>4. HandlesAt'
  BY <1>1 DEF HandlesAt, Ends, BothSteps
<1>5. Keeping'
  BY <1>1 DEF Keeping, Ends
<1>6. SetSoFar' /\ RateKnown'
  BY <1>1 DEF SetSoFar, RateKnown, HasBuilt
<1> QED
  BY <1>3, <1>2, <1>4, <1>5, <1>6

(* What stays when neither the place of the open nor its handles change.   *)
LEMMA StaysOpen ==
  ASSUME OpenInv, pc = "open",
         UNCHANGED <<platform, options, pc, handles, exclusive, disturbed>>
  PROVE  Place' /\ HandlesAt' /\ Keeping'
<1>1. Place'
  BY PlaceGoesOn DEF OpenInv, Ends, BothSteps
<1>3. Opening!Unix' = Opening!Unix
  BY DEF Opening!Unix
<1> QED
  BY <1>1, <1>3 DEF OpenInv, HandlesAt, Keeping, Ends, BothSteps

(* The rate has no part in the other options.                              *)
LEMMA RateApart ==
  ASSUME OpenTypes, NEW r, line' = [line EXCEPT !.rate = r],
         UNCHANGED <<platform, options>>, HasOptions
  PROVE  HasOptions'
<1>1. /\ line'.dataBits = line.dataBits /\ line'.stopBits = line.stopBits
      /\ line'.parity = line.parity /\ line'.sticky = line.sticky
      /\ line'.cts = line.cts /\ line'.rts = line.rts
      /\ line'.xon = line.xon /\ line'.xoff = line.xoff
      /\ line'.xany = line.xany /\ line'.hupcl = line.hupcl
  BY DEF OpenTypes, LineSet
<1>3. Opening!Parity' = Opening!Parity
  BY <1>1, Zenon DEF Opening!Parity
<1> QED
  BY <1>1, <1>3 DEF HasOptions, Opening!Unix

LEMMA RateTyped ==
  ASSUME OpenTypes, NEW r \in Nat
  PROVE  [line EXCEPT !.rate = r] \in LineSet
BY DEF OpenTypes, LineSet

LEMMA FinishKeeps ==
  ASSUME OpenInv, Opening!FinishOpen
  PROVE  OpenInv'
<1> USE DEF OpenInv
<1>1. /\ pc = "rate" /\ pc' = "open"
      /\ line' = [line EXCEPT !.rate = options.baudRate]
      /\ stored' \in {0, options.baudRate}
      /\ baudRate' = options.baudRate /\ reported' = options.baudRate
      /\ UNCHANGED <<platform, options, saved, handles, exclusive, disturbed>>
  BY DEF Opening!FinishOpen, Opening!SetBaudRate
<1>3. options.baudRate \in Nat
  BY DEF OpenTypes, OptionSet
<1>2. OpenTypes'
  BY <1>1, <1>3, RateTyped DEF OpenTypes
<1>4. Place'
  BY <1>1, PlaceGoesOn DEF Ends, BothSteps
<1>5. HandlesAt'
  <2>1. Opening!Unix' = Opening!Unix
    BY <1>1 DEF Opening!Unix
  <2> QED
    BY <1>1, <2>1 DEF HandlesAt, Ends, BothSteps
<1>6. Keeping'
  BY <1>1 DEF Keeping, Ends
<1>7. SetSoFar'
  <2>1. ~disturbed => HasOptions'
    BY <1>1, RateApart DEF SetSoFar
  <2> QED
    BY <1>1, <2>1 DEF SetSoFar
<1>8. RateKnown'
  BY <1>1, <1>3 DEF RateKnown, OpenTypes, LineSet
<1> QED
  BY <1>2, <1>4, <1>5, <1>6, <1>7, <1>8

LEMMA UpdateKeeps ==
  ASSUME OpenInv, NEW rate \in Rates, Opening!Update(rate)
  PROVE  OpenInv'
<1> USE DEF OpenInv
<1>1. /\ pc = "open"
      /\ UNCHANGED <<platform, options, pc, saved, handles, exclusive,
                     disturbed>>
  BY DEF Opening!Update
<1>3. Place' /\ HandlesAt' /\ Keeping'
  BY <1>1, StaysOpen
<1>2. CASE Opening!SetBaudRate(rate)
  <2>1. /\ line' = [line EXCEPT !.rate = rate] /\ stored' \in {0, rate}
        /\ baudRate' = rate /\ reported' = rate
    BY <1>2 DEF Opening!SetBaudRate
  <2>2. OpenTypes'
    BY <1>1, <2>1, RateTyped, OpeningAssumption DEF OpenTypes
  <2>3. SetSoFar'
    <3>1. ~disturbed => HasOptions'
      BY <1>1, <2>1, RateApart DEF SetSoFar
    <3> QED
      BY <1>1, <3>1 DEF SetSoFar
  <2>4. RateKnown'
    BY <1>1, <2>1 DEF RateKnown, OpenTypes, LineSet
  <2> QED
    BY <1>3, <2>2, <2>3, <2>4
<1>4. CASE UNCHANGED <<line, stored, baudRate, reported>>
  BY <1>1, <1>3, <1>4
     DEF OpenTypes, SetSoFar, RateKnown, HasOptions, HasBuilt, Opening!Unix,
         Opening!Parity
<1> QED
  BY <1>2, <1>4 DEF Opening!Update

LEMMA GetKeeps ==
  ASSUME OpenInv, Opening!GetBaudRate
  PROVE  OpenInv'
<1> USE DEF OpenInv
<1>1. /\ pc = "open" /\ reported' = Opening!BaudRate
      /\ UNCHANGED <<platform, options, pc, line, saved, stored, handles,
                     exclusive, disturbed, baudRate>>
  BY DEF Opening!GetBaudRate
<1>3. Place' /\ HandlesAt' /\ Keeping'
  BY <1>1, StaysOpen
<1>2. OpenTypes'
  BY <1>1 DEF OpenTypes
<1>4. HasOptions' = HasOptions
  BY <1>1, Zenon DEF HasOptions, Opening!Unix, Opening!Parity
<1>5. SetSoFar'
  BY <1>1, <1>4 DEF SetSoFar
<1>6. RateKnown'
  BY <1>1 DEF RateKnown, Opening!BaudRate
<1> QED
  BY <1>3, <1>2, <1>5, <1>6

LEMMA OtherKeeps ==
  ASSUME OpenInv, Opening!OtherProgram
  PROVE  OpenInv'
<1> USE DEF OpenInv
<1>1. /\ ~exclusive /\ ~disturbed /\ pc \notin {"check"} \cup Ends
      /\ line' \in LineSet /\ disturbed' = (handles # {})
      /\ UNCHANGED <<platform, options, pc, stored, saved, handles, exclusive>>
  BY OpeningAssumption DEF Opening!OtherProgram, Ends
<1>3. options.lock \in BOOLEAN
  BY DEF OpenTypes, OptionSet
<1>2. handles # {} => options.lock = FALSE
  BY <1>1, <1>3 DEF Keeping
<1>4. ~Opening!Unix => handles = {}
  BY <1>1, <1>2 DEF Place, Opening!Unsupported, Opening!Unix
<1>5. OpenTypes'
  BY <1>1 DEF OpenTypes
<1>6. Opening!Unix' = Opening!Unix
  BY <1>1 DEF Opening!Unix
<1>7. Place'
  BY <1>1, <1>6, AcceptedKept DEF Place, Ends
<1>8. HandlesAt'
  BY <1>1, <1>6 DEF HandlesAt, Ends, BothSteps
<1>9. Keeping'
  BY <1>1, <1>3, <1>2 DEF Keeping, Ends
<1>10. pc \in {"nonblock", "async"} \cup BothSteps => disturbed' = TRUE
  BY <1>1 DEF HandlesAt, BothSteps
<1>11. pc \notin {"save", "restore", "timeouts", "clone", "pipe"}
  BY <1>4 DEF HandlesAt, Place, WindowsSteps
<1>12. SetSoFar'
  BY <1>1, <1>10, <1>11 DEF SetSoFar, BothSteps, HasBuilt
<1>13. RateKnown'
  <2>1. pc = "open" => disturbed' = TRUE
    BY <1>10 DEF BothSteps
  <2>2. baudRate' = baudRate
    BY DEF Opening!OtherProgram
  <2> QED
    BY <1>1, <2>1, <2>2 DEF RateKnown
<1> QED
  BY <1>5, <1>7, <1>8, <1>9, <1>12, <1>13

-----------------------------------------------------------------------------
(* The parity that Linux gets: what the builder left is refined by CMSPAR. *)
LEMMA ParityOf ==
  ASSUME NEW p
  PROVE  /\ options.parity = "mark" => Opening!LinuxParity(p) = "odd"
         /\ options.parity = "space" => Opening!LinuxParity(p) = "even"
         /\ options.parity \notin {"mark", "space"} =>
              Opening!LinuxParity(p) = p
<1>1. "mark" # "space"
  OBVIOUS
<1> QED
  BY <1>1, Zenon DEF Opening!LinuxParity

LEMMA ParityIs ==
  ASSUME UNCHANGED platform
  PROVE  /\ platform # "linux" \/ ~line'.sticky =>
              Opening!Parity' = line'.parity
         /\ platform = "linux" /\ line'.sticky /\ line'.parity = "odd" =>
              Opening!Parity' = "mark"
         /\ platform = "linux" /\ line'.sticky /\ line'.parity = "even" =>
              Opening!Parity' = "space"
<1>1. "odd" # "even"
  OBVIOUS
<1> QED
  BY <1>1, Zenon DEF Opening!Parity

(* What configure sets on Unix, whatever the line was.                     *)
LEMMA UnixSets ==
  ASSUME OpenTypes
  PROVE  LET l == Opening!UnixConfigured
         IN  /\ l \in LineSet /\ l.rate = line.rate
             /\ l.dataBits = line.dataBits /\ l.stopBits = line.stopBits
             /\ l.cts = line.cts /\ l.rts = line.rts
             /\ l.xon = options.xon /\ l.xoff = options.xoff
             /\ l.xany = options.xany /\ l.hupcl = options.hupcl
             /\ platform # "linux" => l.parity = line.parity
             /\ platform = "linux" =>
                  /\ l.sticky = (options.parity \in {"mark", "space"})
                  /\ l.parity = Opening!LinuxParity(line.parity)
<1> DEFINE l == [line EXCEPT !.xon = options.xon, !.xoff = options.xoff,
                             !.xany = options.xany, !.hupcl = options.hupcl]
           m == [l EXCEPT !.sticky = Opening!Sticky,
                          !.parity = Opening!LinuxParity(l.parity)]
<1>1. /\ options.xon \in BOOLEAN /\ options.xoff \in BOOLEAN
      /\ options.xany \in BOOLEAN /\ options.hupcl \in BOOLEAN
  BY DEF OpenTypes, OptionSet
<1>2. /\ l \in LineSet /\ l.rate = line.rate
      /\ l.dataBits = line.dataBits /\ l.stopBits = line.stopBits
      /\ l.cts = line.cts /\ l.rts = line.rts
      /\ l.xon = options.xon /\ l.xoff = options.xoff
      /\ l.xany = options.xany /\ l.hupcl = options.hupcl
      /\ l.parity = line.parity
  BY <1>1 DEF OpenTypes, LineSet
<1>3. Opening!UnixConfigured = IF platform # "linux" THEN l ELSE m
  BY DEF Opening!UnixConfigured
<1>4. CASE platform # "linux"
  BY <1>2, <1>3, <1>4
<1>5. CASE platform = "linux"
  <2>1. Opening!Sticky \in BOOLEAN
    BY DEF Opening!Sticky
  <2>2. Opening!LinuxParity(l.parity) \in Parities
    BY <1>2, ParityOf DEF LineSet, Parities
  <2> HIDE DEF l
  <2>3. /\ m \in LineSet /\ m.rate = l.rate
        /\ m.dataBits = l.dataBits /\ m.stopBits = l.stopBits
        /\ m.cts = l.cts /\ m.rts = l.rts
        /\ m.xon = l.xon /\ m.xoff = l.xoff
        /\ m.xany = l.xany /\ m.hupcl = l.hupcl
        /\ m.sticky = Opening!Sticky
        /\ m.parity = Opening!LinuxParity(l.parity)
    BY <1>2, <2>1, <2>2 DEF LineSet
  <2> HIDE DEF m
  <2> QED
    BY <1>2, <1>3, <1>5, <2>3 DEF Opening!Sticky
<1> QED
  BY <1>4, <1>5

LEMMA WindowsSets ==
  ASSUME OpenTypes, ~Opening!Malformed
  PROVE  LET l == Opening!WindowsConfigured
         IN  /\ l \in LineSet
             /\ l.dataBits = options.dataBits /\ l.stopBits = options.stopBits
             /\ l.cts = options.rtscts /\ l.rts = line.rts
             /\ l.xon = options.xon /\ l.xoff = options.xoff
             /\ l.hupcl = options.hupcl /\ l.parity = options.parity
<1>1. /\ options.xon \in BOOLEAN /\ options.xoff \in BOOLEAN
      /\ options.rtscts \in BOOLEAN /\ options.hupcl \in BOOLEAN
      /\ options.dataBits \in Nat /\ options.stopBits \in Nat
      /\ options.baudRate \in Nat
  BY DEF OpenTypes, OptionSet
<1>2. options.parity \in Parities
  BY DEF Opening!Malformed, Parities
<1> QED
  BY <1>1, <1>2 DEF OpenTypes, LineSet, Opening!WindowsConfigured

LEMMA ConfigureSets ==
  ASSUME OpenInv, Opening!Configure
  PROVE  line' \in LineSet /\ (~disturbed => HasOptions')
<1> USE DEF OpenInv
<1>1. /\ pc = "configure" /\ UNCHANGED <<platform, options, disturbed>>
      /\ ~Opening!Malformed /\ ~Opening!Unsupported
      /\ ~disturbed => HasBuilt(line)
  BY DEF Opening!Configure, Place, Ends, SetSoFar
<1>2. Opening!Unix' = Opening!Unix
  BY <1>1 DEF Opening!Unix
<1>3. options.stopBits \in {2, 3, 4}
  BY <1>1 DEF Opening!Malformed
<1>4. CASE Opening!Unix
  <2> DEFINE l == Opening!UnixConfigured
  <2>1. options.stopBits # 3 /\ (platform = "macos" => ~Opening!Sticky)
    BY <1>1, <1>4 DEF Opening!Unsupported
  <2>2. PICK r \in Nat : line' = [l EXCEPT !.rate = r]
    <3>1. line.rate \in Nat
      BY DEF OpenTypes, LineSet
    <3>2. Opening!SpeedsAfter \subseteq Nat
      BY <3>1 DEF Opening!SpeedsAfter
    <3> QED
      BY <1>4, <3>2 DEF Opening!Configure
  <2>3. /\ l \in LineSet
        /\ l.dataBits = line.dataBits /\ l.stopBits = line.stopBits
        /\ l.cts = line.cts /\ l.rts = line.rts
        /\ l.xon = options.xon /\ l.xoff = options.xoff
        /\ l.xany = options.xany /\ l.hupcl = options.hupcl
        /\ platform # "linux" => l.parity = line.parity
        /\ platform = "linux" =>
             /\ l.sticky = (options.parity \in {"mark", "space"})
             /\ l.parity = Opening!LinuxParity(line.parity)
    BY UnixSets
  <2> HIDE DEF l
  <2>4. /\ line' \in LineSet
        /\ line'.dataBits = l.dataBits /\ line'.stopBits = l.stopBits
        /\ line'.parity = l.parity /\ line'.sticky = l.sticky
        /\ line'.cts = l.cts /\ line'.rts = l.rts
        /\ line'.xon = l.xon /\ line'.xoff = l.xoff
        /\ line'.xany = l.xany /\ line'.hupcl = l.hupcl
    BY <2>2, <2>3 DEF LineSet
  <2>5. ASSUME ~disturbed PROVE Opening!Parity' = options.parity
    <3>1. options.parity \in Parities
      BY <1>1 DEF Opening!Malformed, Parities
    <3>2. line.parity = IF options.parity \in {"odd", "even"}
                        THEN options.parity ELSE "none"
      BY <1>1, <2>5 DEF HasBuilt
    <3>3. CASE platform # "linux"
      <4>1. options.parity \notin {"mark", "space"}
        BY <1>4, <2>1, <3>3 DEF OpenTypes, Opening!Unix, Opening!Sticky
      <4> QED
        BY <1>1, <2>3, <2>4, <3>1, <3>2, <3>3, <4>1, ParityIs DEF Parities
    <3>4. CASE platform = "linux" /\ options.parity = "mark"
      BY <1>1, <2>3, <2>4, <3>4, ParityOf, ParityIs
    <3>5. CASE platform = "linux" /\ options.parity = "space"
      BY <1>1, <2>3, <2>4, <3>5, ParityOf, ParityIs
    <3>6. CASE platform = "linux" /\ options.parity \notin {"mark", "space"}
      <4>1. ~line'.sticky /\ line'.parity = line.parity
        BY <2>3, <2>4, <3>6, ParityOf
      <4> QED
        BY <1>1, <3>1, <3>2, <3>6, <4>1, ParityIs DEF Parities
    <3> QED
      BY <3>3, <3>4, <3>5, <3>6
  <2>6. ASSUME ~disturbed PROVE line'.stopBits = options.stopBits
    BY <1>1, <1>3, <2>1, <2>3, <2>4, <2>6 DEF HasBuilt
  <2>7. ASSUME ~disturbed PROVE HasOptions'
    BY <1>1, <2>3, <2>4, <2>5, <2>6, <2>7 DEF HasOptions, HasBuilt
  <2> QED
    BY <2>4, <2>7
<1>5. CASE ~Opening!Unix
  <2>1. line' = Opening!WindowsConfigured
    BY <1>5 DEF Opening!Configure
  <2>2. /\ line' \in LineSet
        /\ line'.dataBits = options.dataBits
        /\ line'.stopBits = options.stopBits
        /\ line'.cts = options.rtscts /\ line'.rts = line.rts
        /\ line'.xon = options.xon /\ line'.xoff = options.xoff
        /\ line'.hupcl = options.hupcl /\ line'.parity = options.parity
    BY <1>1, <2>1, WindowsSets
  <2>3. Opening!Parity' = options.parity
    BY <1>1, <1>5, <2>2, ParityIs DEF Opening!Unix
  <2> QED
    BY <1>1, <1>2, <1>5, <2>2, <2>3 DEF HasOptions, HasBuilt
<1> QED
  BY <1>4, <1>5

LEMMA ConfigureKeeps ==
  ASSUME OpenInv, Opening!Configure
  PROVE  OpenInv'
<1> USE DEF OpenInv
<1>1. /\ pc = "configure" /\ pc' = "rate"
      /\ UNCHANGED <<platform, options, saved, handles, exclusive, disturbed>>
  BY DEF Opening!Configure
<1>2. OpenTypes'
  BY <1>1, ConfigureSets DEF OpenTypes
<1>3. Place'
  BY <1>1, PlaceGoesOn DEF Ends, BothSteps
<1>4. HandlesAt'
  <2>1. Opening!Unix' = Opening!Unix
    BY <1>1 DEF Opening!Unix
  <2> QED
    BY <1>1, <2>1 DEF HandlesAt, Ends, BothSteps
<1>5. Keeping'
  BY <1>1 DEF Keeping, Ends
<1>6. SetSoFar' /\ RateKnown'
  BY <1>1, ConfigureSets DEF SetSoFar, RateKnown
<1> QED
  BY <1>2, <1>3, <1>4, <1>5, <1>6

LEMMA SameOpen ==
  ASSUME OpenInv, UNCHANGED <<pc, openingVars>>
  PROVE  OpenInv'
<1> USE DEF openingVars
<1>1. HasOptions' = HasOptions
  BY Zenon DEF HasOptions, Opening!Unix, Opening!Parity
<1>2. Place'
  BY AcceptedKept DEF OpenInv, Place, Opening!Unix
<1>3. HandlesAt' /\ Keeping' /\ RateKnown' /\ OpenTypes'
  BY DEF OpenInv, HandlesAt, Keeping, RateKnown, OpenTypes, Opening!Unix
<1>4. SetSoFar'
  BY <1>1 DEF OpenInv, SetSoFar, HasBuilt
<1> QED
  BY <1>2, <1>3, <1>4 DEF OpenInv

LEMMA OpeningKeeps ==
  ASSUME OpenInv, Opening!NextOpening
  PROVE  OpenInv'
<1>1. CASE Opening!Check \/ Opening!Fails
  BY <1>1, CheckKeeps, FailsKeeps
<1>2. CASE Opening!OpenTty \/ Opening!OpenCom \/ Opening!RestoreState
  BY <1>2, TtyKeeps, ComKeeps, RestoreKeeps
<1>3. CASE \/ Opening!SetNonblocking \/ Opening!RegisterTty
           \/ Opening!SaveState \/ Opening!Reopen \/ Opening!SetTimeouts
           \/ Opening!CloneHandle \/ Opening!RegisterPipe
  BY <1>3, StepsAre, StepsKeep
<1>4. CASE Opening!Configure \/ Opening!FinishOpen
  BY <1>4, ConfigureKeeps, FinishKeeps
<1>5. CASE Opening!GetBaudRate \/ \E rate \in Rates : Opening!Update(rate)
  BY <1>5, GetKeeps, UpdateKeeps
<1>6. CASE Opening!OtherProgram
  BY <1>6, OtherKeeps
<1>7. CASE Opening!Over
  BY <1>7, SameOpen DEF Opening!Over, Opening!openVars, openingVars
<1> QED
  BY <1>1, <1>2, <1>3, <1>4, <1>5, <1>6, <1>7 DEF Opening!NextOpening

(* settings.rs, platform.rs and the open of each platform: an open port    *)
(* has the settings that were asked for and exactly its handles, an open   *)
(* that fails leaves none; for any options and lines, and any operations.  *)
THEOREM OpensExactly == Spec => []OpeningExact
<1> DEFINE I == kind = "open" => OpenInv
<1>1. Init => I
  BY OpenInit DEF Init
<1>2. I /\ [Next]_vars => I'
  <2> SUFFICES ASSUME I, [Next]_vars, kind' = "open" PROVE OpenInv'
    OBVIOUS
  <2>1. CASE Open
    BY <2>1, OpeningKeeps DEF Open
  <2>2. CASE List
    BY <2>2 DEF List
  <2>3. CASE UNCHANGED vars
    BY <2>3, SameOpen DEF vars
  <2> QED
    BY <2>1, <2>2, <2>3 DEF Next
<1>3. I => OpeningExact
  BY OpenSuffices DEF OpeningExact
<1> QED
  BY <1>1, <1>2, <1>3, PTL DEF Spec

-----------------------------------------------------------------------------
(* Listing.  Distinct numbers can be put in order: the least one comes     *)
(* first, and the last one takes its place among the others.               *)
Arranges(n, r, p) ==
  /\ p \in [1 .. n -> 1 .. n]
  /\ \A i \in 1 .. n : \E k \in 1 .. n : p[k] = i
  /\ \A i, j \in 1 .. n : i < j => r[p[i]] < r[p[j]]

Distinct(n, r) ==
  r \in [1 .. n -> Nat] /\ \A i, j \in 1 .. n : r[i] = r[j] => i = j

LEMMA LeastOf ==
  ASSUME NEW n \in Nat, NEW r, Distinct(n + 1, r)
  PROVE  \E m \in 1 .. n + 1 : \A i \in 1 .. n + 1 : i # m => r[m] < r[i]
<1> DEFINE T == {r[i] : i \in 1 .. n + 1}
<1>1. T \subseteq Nat /\ r[1] \in T
  BY DEF Distinct
<1> HIDE DEF T
<1>2. PICK x \in T : \A y \in T : ~(<<y, x>> \in Less)
  BY <1>1, LessIsWellFounded, WFMin
<1>3. PICK m \in 1 .. n + 1 : r[m] = x
  BY DEF T
<1>4. ASSUME NEW i \in 1 .. n + 1, i # m PROVE r[m] < r[i]
  <2>1. r[i] \in T /\ r[i] \in Nat /\ r[m] \in Nat /\ r[i] # r[m]
    BY <1>4 DEF T, Distinct
  <2>2. ~(r[i] < r[m])
    BY <1>2, <1>3, <2>1 DEF Less
  <2> QED
    BY <2>1, <2>2
<1> QED
  BY <1>4

LEMMA ArrangeNext ==
  ASSUME NEW n \in Nat, NEW r, Distinct(n + 1, r),
         \A q : Distinct(n, q) => \E p : Arranges(n, q, p)
  PROVE  \E p : Arranges(n + 1, r, p)
<1>1. PICK m \in 1 .. n + 1 : \A i \in 1 .. n + 1 : i # m => r[m] < r[i]
  BY LeastOf
<1> DEFINE back(i) == IF i = m THEN n + 1 ELSE i
           q == [i \in 1 .. n |-> r[back(i)]]
<1>2. \A i \in 1 .. n : back(i) \in 1 .. n + 1 /\ back(i) # m
  BY <1>1
<1>3. \A i, j \in 1 .. n : back(i) = back(j) => i = j
  BY <1>1
<1>4. \A i \in 1 .. n + 1 : i # m => \E k \in 1 .. n : back(k) = i
  <2> SUFFICES ASSUME NEW i \in 1 .. n + 1, i # m
               PROVE  \E k \in 1 .. n : back(k) = i
    OBVIOUS
  <2>1. CASE i = n + 1
    <3>1. m \in 1 .. n /\ back(m) = i
      BY <2>1
    <3> QED
      BY <3>1
  <2>2. CASE i # n + 1
    <3>1. i \in 1 .. n /\ back(i) = i
      BY <2>2
    <3> QED
      BY <3>1
  <2> QED
    BY <2>1, <2>2
<1> HIDE DEF back
<1>5. Distinct(n, q)
  BY <1>2, <1>3 DEF Distinct
<1>6. \A i \in 1 .. n : q[i] = r[back(i)]
  OBVIOUS
<1> HIDE DEF q
<1>7. PICK o : Arranges(n, q, o)
  BY <1>5
<1> DEFINE p == [k \in 1 .. n + 1 |-> IF k = 1 THEN m ELSE back(o[k - 1])]
<1>8. \A k \in 1 .. n + 1 : k # 1 => k - 1 \in 1 .. n /\ o[k - 1] \in 1 .. n
  BY <1>7 DEF Arranges
<1>9. p \in [1 .. n + 1 -> 1 .. n + 1]
  BY <1>2, <1>8
<1>10. p[1] = m /\ \A k \in 1 .. n : p[k + 1] = back(o[k])
  OBVIOUS
<1> HIDE DEF p
<1>11. ASSUME NEW i \in 1 .. n + 1 PROVE \E k \in 1 .. n + 1 : p[k] = i
  <2>1. CASE i = m
    BY <1>10, <2>1
  <2>2. CASE i # m
    <3>1. PICK l \in 1 .. n : back(l) = i
      BY <1>4, <2>2
    <3>2. PICK k \in 1 .. n : o[k] = l
      BY <1>7 DEF Arranges
    <3>3. k + 1 \in 1 .. n + 1 /\ p[k + 1] = i
      BY <1>10, <3>1, <3>2
    <3> QED
      BY <3>3
  <2> QED
    BY <2>1, <2>2
<1>12. ASSUME NEW i \in 1 .. n + 1, NEW j \in 1 .. n + 1, i < j
       PROVE  r[p[i]] < r[p[j]]
  <2>1. PICK l \in 1 .. n : j = l + 1
    <3>1. j - 1 \in 1 .. n /\ j = (j - 1) + 1
      BY <1>12
    <3> QED
      BY <3>1
  <2>2. p[j] = back(o[l]) /\ o[l] \in 1 .. n
    BY <1>7, <1>10, <2>1 DEF Arranges
  <2>3. CASE i = 1
    BY <1>1, <1>2, <1>10, <2>2, <2>3
  <2>4. CASE i # 1
    <3>1. PICK k \in 1 .. n : i = k + 1
      <4>1. i - 1 \in 1 .. n /\ i = (i - 1) + 1
        BY <2>4
      <4> QED
        BY <4>1
    <3>2. p[i] = back(o[k]) /\ o[k] \in 1 .. n /\ k < l
      BY <1>7, <1>10, <1>12, <2>1, <3>1 DEF Arranges
    <3>3. q[o[k]] < q[o[l]]
      BY <1>7, <3>2 DEF Arranges
    <3> QED
      BY <1>6, <2>2, <3>2, <3>3
  <2> QED
    BY <2>3, <2>4
<1>13. Arranges(n + 1, r, p)
  BY <1>9, <1>11, <1>12 DEF Arranges
<1> QED
  BY <1>13

LEMMA Arrangement ==
  ASSUME NEW n \in Nat, NEW r, Distinct(n, r)
  PROVE  \E p : Arranges(n, r, p)
<1> DEFINE S == {k \in Nat : \A q : Distinct(k, q) => \E p : Arranges(k, q, p)}
<1>1. 0 \in S
  <2>1. ASSUME NEW q, Distinct(0, q) PROVE Arranges(0, q, q)
    BY <2>1 DEF Distinct, Arranges
  <2> QED
    BY <2>1
<1>2. \A k \in Nat : k \in S => k + 1 \in S
  BY ArrangeNext
<1> HIDE DEF S
<1>3. n \in S
  BY <1>1, <1>2, SetInduction
<1> QED
  BY <1>3 DEF S

(* Sorted has the same elements in the order of their paths.               *)
Paths == {Order[k] : k \in DOMAIN Order}

Nameable(n, infos) ==
  /\ DOMAIN infos = 1 .. n
  /\ \A i \in 1 .. n : infos[i].path \in Paths
  /\ \A i, j \in 1 .. n : infos[i].path = infos[j].path => i = j

LEMMA RankIs ==
  ASSUME NEW path \in Paths
  PROVE  Listing!Rank(path) \in Nat /\ Order[Listing!Rank(path)] = path
<1>1. \E k \in DOMAIN Order : Order[k] = path
  BY DEF Paths
<1>2. Listing!Rank(path) \in DOMAIN Order /\ Order[Listing!Rank(path)] = path
  BY <1>1 DEF Listing!Rank
<1> QED
  BY <1>2, ListingAssumption

LEMMA SortedIs ==
  ASSUME NEW n \in Nat, NEW infos, Nameable(n, infos)
  PROVE  \E p \in [1 .. n -> 1 .. n] :
           /\ \A i \in 1 .. n : \E k \in 1 .. n : p[k] = i
           /\ Listing!Sorted(infos) = [i \in 1 .. n |-> infos[p[i]]]
           /\ Listing!Ascending(Listing!Sorted(infos))
<1> DEFINE r == [i \in 1 .. n |-> Listing!Rank(infos[i].path)]
<1>1. Distinct(n, r)
  <2>1. r \in [1 .. n -> Nat]
    BY RankIs DEF Nameable
  <2>2. ASSUME NEW i \in 1 .. n, NEW j \in 1 .. n, r[i] = r[j] PROVE i = j
    <3>1. Order[r[i]] = infos[i].path /\ Order[r[j]] = infos[j].path
      BY RankIs DEF Nameable
    <3> HIDE DEF r
    <3> QED
      BY <2>2, <3>1 DEF Nameable
  <2> QED
    BY <2>1, <2>2 DEF Distinct
<1>2. PICK o : Arranges(n, r, o)
  <2> HIDE DEF r
  <2> QED
    BY <1>1, Arrangement
<1> DEFINE P(p) == /\ p \in Surjection(DOMAIN infos, DOMAIN infos)
                   /\ Listing!Ascending(Listing!Reordered(infos, p))
           c == CHOOSE p \in Surjection(DOMAIN infos, DOMAIN infos) :
                  Listing!Ascending(Listing!Reordered(infos, p))
<1>3. P(o)
  <2>1. o \in Surjection(1 .. n, 1 .. n)
    BY <1>2 DEF Arranges, Surjection
  <2>2. Listing!Ascending(Listing!Reordered(infos, o))
    BY <1>2 DEF Arranges, Nameable, Listing!Ascending, Listing!Reordered
  <2> QED
    BY <2>1, <2>2 DEF Nameable
<1>4. P(c)
  BY <1>3
<1>5. c \in [1 .. n -> 1 .. n] /\ \A i \in 1 .. n : \E k \in 1 .. n : c[k] = i
  BY <1>4 DEF Surjection, Nameable
<1>6. Listing!Sorted(infos) = Listing!Reordered(infos, c)
  BY DEF Listing!Sorted, Surjection, Listing!Surjection
<1>7. Listing!Reordered(infos, c) = [i \in 1 .. n |-> infos[c[i]]]
  BY DEF Listing!Reordered, Nameable
<1> HIDE DEF c
<1> QED
  BY <1>4, <1>5, <1>6, <1>7

-----------------------------------------------------------------------------
(* Where the enrichment is, and what it looks at there.                    *)
AtDevice == {"probe", "read", "ids", "apply"}
Scanning == {"class", "device"} \cup AtDevice
Strings == {"manufacturer", "location", "friendly"}

Position ==
  /\ system \in Systems
  /\ pc \in {"enumerate", "done", "failed"} \cup Scanning
  /\ class \in Nat \ {0} /\ index \in Nat \ {0}
  /\ pc \in AtDevice \cup {"device"} => class \in DOMAIN Classes
  /\ pc \in AtDevice => index \in DOMAIN Classes[class]
  /\ pc \in {"probe", "read"} => field \in Properties

(* Every value of the registry was heard of.                               *)
Registered ==
  /\ DOMAIN registry = Listing!Slots
  /\ \A s \in Listing!Slots :
       /\ IsValue(registry[s])
       /\ <<s[1], s[2], s[3], Listing!Said(registry[s])>> \in held

(* A port of Windows: its strings are whole, and its identity is that of   *)
(* one device, in the letters of the crate or in capitals.                 *)
Formed(port) ==
  /\ DOMAIN port = {"path", "pnpId", "vendorId", "productId", "serialNumber",
                    "strings"}
  /\ DOMAIN port.strings = Strings
  /\ port.vendorId \in Text \cup {None} /\ port.productId \in Text \cup {None}
  /\ port.pnpId \in IdSet \cup {None}

Whole(port) ==
  \A f \in Strings :
    \/ port.strings[f] = Listing!Fallback(port.path).strings[f]
    \/ /\ port.strings[f] # None
       /\ \E d \in Listing!Devices(port.path) :
            <<d[1], d[2], f, port.strings[f]>> \in held

Capitals(id) ==
  <<Listing!Capitalized(id[1]), Listing!Capitalized(id[2]), id[3]>>

Identity(port) == <<port.vendorId, port.productId, port.serialNumber>>

Shown(port) ==
  /\ Identity(port) = Capitals(Identity(port))
  /\ \E id \in Listing!Identities(port.path) : Identity(port) = Capitals(id)

Identified(port) ==
  Identity(port) \in Listing!Identities(port.path) \/ Shown(port)

Own(port) ==
  LET own == Listing!UsbIdentity(port.pnpId)
  IN  own # None => /\ port.vendorId = Listing!Capitalized(own.vendor)
                    /\ port.productId = Listing!Capitalized(own.product)

Told(port) == Formed(port) /\ Whole(port) /\ Identified(port) /\ Own(port)

Described ==
  /\ system.os = "windows"
  /\ DOMAIN result = DOMAIN system.ports
  /\ \A i \in DOMAIN result :
       result[i].path = system.ports[i].path /\ Told(result[i])

(* An entry of the result, and all of it.                                 *)
Located(port) ==
  \E i \in DOMAIN system.ports :
    /\ system.ports[i].path = port.path
    /\ system.ports[i].iokit = port.strings.location

Entry(port) ==
  /\ Whole(port)
  /\ IF system.os = "windows" THEN Shown(port) /\ Own(port)
     ELSE Identity(port) \in Listing!Identities(port.path)
  /\ system.os = "macos" => Located(port)

EntriesExact ==
  /\ \A i \in DOMAIN result : Entry(result[i])
  /\ Len(result) = Len(system.ports) /\ Listing!Ascending(result)
  /\ \A i \in DOMAIN system.ports : \E j \in DOMAIN result :
       result[j].path = system.ports[i].path

(* What is known of the device that is looked at.                          *)
Noting(m, c, i) ==
  /\ DOMAIN m = {"pnpId", "parentId", "strings"} /\ DOMAIN m.strings = Strings
  /\ m.pnpId \in {None, Classes[c][i].pnpId}
  /\ m.parentId \in {None, Classes[c][i].parentId}
  /\ \A f \in Strings :
       m.strings[f] = None \/ <<c, i, f, m.strings[f]>> \in held

Noted == Noting(metadata, class, index)

Selected ==
  /\ target \in DOMAIN result
  /\ <<class, index>> \in Listing!Devices(result[target].path)

ListInv ==
  /\ Position /\ Registered
  /\ pc \in {"enumerate", "failed"} => result = <<>>
  /\ pc \in Scanning => Described
  /\ pc \in AtDevice => Noted
  /\ pc \in {"ids", "apply"} \/ (pc \in {"probe", "read"} /\ field # "name")
       => Selected
  /\ pc = "done" => EntriesExact

(* Capitals have no other capital.                                         *)
LEMMA CapitalsStay ==
  ASSUME NEW s \in Text \cup {None}
  PROVE  /\ Listing!Capitalized(s) \in Text \cup {None}
         /\ Listing!Capitalized(Listing!Capitalized(s)) = Listing!Capitalized(s)
<1>1. ASSUME s \in Text
      PROVE  /\ Listing!Folded(s) \in Text
             /\ Listing!Folded(Listing!Folded(s)) = Listing!Folded(s)
  <2>1. s \in [1 .. Len(s) -> DOMAIN Capital] /\ Len(s) \in Nat
    BY <1>1 DEF Text
  <2>2. \A l \in DOMAIN Capital :
          Capital[l] \in DOMAIN Capital /\ Capital[Capital[l]] = Capital[l]
    BY ListingAssumption
  <2> DEFINE t == Listing!Folded(s)
  <2>3. t = [i \in 1 .. Len(s) |-> Capital[s[i]]]
    BY <2>1 DEF Listing!Folded
  <2>4. t \in [1 .. Len(s) -> DOMAIN Capital]
    BY <2>1, <2>2, <2>3
  <2>5. t \in Seq(DOMAIN Capital)
    BY <2>1, <2>4, SeqDef
  <2>6. Listing!Folded(t) = [i \in 1 .. Len(s) |-> Capital[t[i]]]
    BY <2>4 DEF Listing!Folded
  <2>7. Listing!Folded(t) = t
    BY <2>1, <2>2, <2>3, <2>6
  <2> QED
    BY <2>5, <2>7 DEF Text
<1> QED
  BY <1>1 DEF Listing!Capitalized

(* What applying the metadata of a device does to each field.              *)
LEMMA AppliedIs ==
  ASSUME NEW m, NEW info, Formed(info), DOMAIN m.strings = Strings
  PROVE  LET port == Listing!Applied(m, info)
             usb == Listing!UsbIdentity(m.pnpId)
             parent == Listing!UsbIdentity(m.parentId)
         IN  /\ DOMAIN port = DOMAIN info /\ DOMAIN port.strings = Strings
             /\ port.path = info.path
             /\ \A f \in Strings :
                  port.strings[f] =
                    Listing!Prefer(m.strings[f], info.strings[f])
             /\ port.pnpId = Listing!Prefer(m.pnpId, info.pnpId)
             /\ usb = None =>
                  /\ port.vendorId = Listing!Capitalized(info.vendorId)
                  /\ port.productId = Listing!Capitalized(info.productId)
                  /\ port.serialNumber = info.serialNumber
             /\ usb # None =>
                  /\ port.vendorId = Listing!Capitalized(usb.vendor)
                  /\ port.productId = Listing!Capitalized(usb.product)
                  /\ port.serialNumber =
                       IF Listing!TrustsParent(usb, parent)
                       THEN parent.serial ELSE usb.serial
<1> DEFINE usb == Listing!UsbIdentity(m.pnpId)
           parent == Listing!UsbIdentity(m.parentId)
           named == [info EXCEPT
                       !.strings = [f \in DOMAIN @ |->
                                      Listing!Prefer(m.strings[f], @[f])],
                       !.pnpId = Listing!Prefer(m.pnpId, @)]
           known == IF usb = None THEN named
                    ELSE [named EXCEPT
                            !.vendorId = usb.vendor, !.productId = usb.product,
                            !.serialNumber = IF Listing!TrustsParent(usb, parent)
                                             THEN parent.serial ELSE usb.serial]
           port == [known EXCEPT !.vendorId = Listing!Capitalized(@),
                                 !.productId = Listing!Capitalized(@)]
<1>1. Listing!Applied(m, info) = port
  BY DEF Listing!Applied
<1>2. /\ DOMAIN named = DOMAIN info
      /\ named.strings = [f \in Strings |->
                            Listing!Prefer(m.strings[f], info.strings[f])]
      /\ named.pnpId = Listing!Prefer(m.pnpId, info.pnpId)
      /\ named.path = info.path
      /\ named.vendorId = info.vendorId /\ named.productId = info.productId
      /\ named.serialNumber = info.serialNumber
  BY DEF Formed
<1> HIDE DEF named, usb, parent
<1>3. /\ DOMAIN known = DOMAIN info /\ known.strings = named.strings
      /\ known.pnpId = named.pnpId /\ known.path = named.path
      /\ usb = None => /\ known.vendorId = named.vendorId
                       /\ known.productId = named.productId
                       /\ known.serialNumber = named.serialNumber
      /\ usb # None => /\ known.vendorId = usb.vendor
                       /\ known.productId = usb.product
                       /\ known.serialNumber =
                            IF Listing!TrustsParent(usb, parent)
                            THEN parent.serial ELSE usb.serial
  BY <1>2 DEF Formed
<1> HIDE DEF known
<1>4. /\ DOMAIN port = DOMAIN info /\ port.strings = known.strings
      /\ port.pnpId = known.pnpId /\ port.path = known.path
      /\ port.vendorId = Listing!Capitalized(known.vendorId)
      /\ port.productId = Listing!Capitalized(known.productId)
      /\ port.serialNumber = known.serialNumber
  BY <1>3 DEF Formed
<1> HIDE DEF port
<1> QED
  BY <1>1, <1>2, <1>3, <1>4 DEF usb, parent

(* usb_identity reads texts.                                               *)
LEMMA IdentityIs ==
  ASSUME NEW id \in IdSet \cup {None}, Listing!UsbIdentity(id) # None
  PROVE  /\ id # None /\ id \in IdSet
         /\ Listing!UsbIdentity(id).vendor = id.vendor /\ id.vendor \in Text
         /\ Listing!UsbIdentity(id).product = id.product /\ id.product \in Text
BY DEF Listing!UsbIdentity, IdSet

LEMMA AppliedForms ==
  ASSUME NEW m, NEW info, Formed(info), DOMAIN m.strings = Strings,
         m.pnpId \in IdSet \cup {None}
  PROVE  Formed(Listing!Applied(m, info))
<1> DEFINE port == Listing!Applied(m, info)
           usb == Listing!UsbIdentity(m.pnpId)
<1>1. /\ DOMAIN port = DOMAIN info /\ DOMAIN port.strings = Strings
      /\ port.pnpId = Listing!Prefer(m.pnpId, info.pnpId)
      /\ usb = None =>
           /\ port.vendorId = Listing!Capitalized(info.vendorId)
           /\ port.productId = Listing!Capitalized(info.productId)
      /\ usb # None =>
           /\ port.vendorId = Listing!Capitalized(usb.vendor)
           /\ port.productId = Listing!Capitalized(usb.product)
  BY AppliedIs
<1>2. usb # None => usb.vendor \in Text /\ usb.product \in Text
  BY IdentityIs
<1>3. /\ port.vendorId \in Text \cup {None}
      /\ port.productId \in Text \cup {None}
  <2> HIDE DEF port, usb
  <2>1. CASE usb = None
    BY <1>1, <2>1, CapitalsStay DEF Formed
  <2>2. CASE usb # None
    BY <1>1, <1>2, <2>2, CapitalsStay
  <2> QED
    BY <2>1, <2>2
<1>4. port.pnpId \in IdSet \cup {None}
  BY <1>1 DEF Listing!Prefer, Formed
<1> QED
  BY <1>1, <1>3, <1>4 DEF Formed

(* The metadata of no device, or of one that has the name of the port.     *)
Fitting(m, path) ==
  m = Listing!NoMetadata \/
  \E d \in Listing!Devices(path) :
    /\ d[1] \in DOMAIN Classes /\ d[2] \in DOMAIN Classes[d[1]]
    /\ Noting(m, d[1], d[2])

LEMMA NoMetadataIs ==
  /\ DOMAIN Listing!NoMetadata.strings = Strings
  /\ Listing!NoMetadata.pnpId = None /\ Listing!NoMetadata.parentId = None
  /\ \A f \in Strings : Listing!NoMetadata.strings[f] = None
<1>1. Listing!Range(Listing!Fields) = Strings
  BY DEF Listing!Range, Listing!Fields, Strings
<1> QED
  BY <1>1 DEF Listing!NoMetadata

LEMMA FittingIs ==
  ASSUME NEW m, NEW path, Fitting(m, path)
  PROVE  /\ DOMAIN m.strings = Strings
         /\ m.pnpId \in IdSet \cup {None} /\ m.parentId \in IdSet \cup {None}
<1>1. CASE m = Listing!NoMetadata
  BY <1>1, NoMetadataIs
<1>2. CASE m # Listing!NoMetadata
  BY <1>2, ListingAssumption DEF Fitting, Noting
<1> QED
  BY <1>1, <1>2

LEMMA AppliedWhole ==
  ASSUME NEW m, NEW info, Formed(info), Whole(info), Fitting(m, info.path)
  PROVE  Whole(Listing!Applied(m, info))
<1> DEFINE port == Listing!Applied(m, info)
<1>1. /\ port.path = info.path
      /\ \A f \in Strings :
           port.strings[f] = Listing!Prefer(m.strings[f], info.strings[f])
  BY AppliedIs, FittingIs
<1>2. ASSUME NEW f \in Strings, m.strings[f] # None
      PROVE  \E d \in Listing!Devices(info.path) :
               <<d[1], d[2], f, m.strings[f]>> \in held
  <2>1. PICK d \in Listing!Devices(info.path) : Noting(m, d[1], d[2])
    BY <1>2, NoMetadataIs DEF Fitting
  <2> QED
    BY <1>2, <2>1 DEF Noting
<1> HIDE DEF port
<1>3. ASSUME NEW f \in Strings
      PROVE  \/ port.strings[f] = Listing!Fallback(port.path).strings[f]
             \/ /\ port.strings[f] # None
                /\ \E d \in Listing!Devices(port.path) :
                     <<d[1], d[2], f, port.strings[f]>> \in held
  <2>1. CASE m.strings[f] = None
    <3>1. port.strings[f] = info.strings[f]
      BY <1>1, <2>1 DEF Listing!Prefer
    <3> QED
      BY <1>1, <3>1 DEF Whole
  <2>2. CASE m.strings[f] # None
    <3>1. port.strings[f] = m.strings[f]
      BY <1>1, <2>2 DEF Listing!Prefer
    <3> QED
      BY <1>1, <1>2, <2>2, <3>1
  <2> QED
    BY <2>1, <2>2
<1> QED
  BY <1>3 DEF Whole, port

LEMMA AppliedOwn ==
  ASSUME NEW m, NEW info, Formed(info), Own(info), Fitting(m, info.path)
  PROVE  Own(Listing!Applied(m, info))
<1> DEFINE port == Listing!Applied(m, info)
           usb == Listing!UsbIdentity(m.pnpId)
<1>1. /\ port.pnpId = Listing!Prefer(m.pnpId, info.pnpId)
      /\ usb = None =>
           /\ port.vendorId = Listing!Capitalized(info.vendorId)
           /\ port.productId = Listing!Capitalized(info.productId)
      /\ usb # None =>
           /\ port.vendorId = Listing!Capitalized(usb.vendor)
           /\ port.productId = Listing!Capitalized(usb.product)
  BY AppliedIs, FittingIs
<1> HIDE DEF port
<1>2. CASE m.pnpId = None
  <2>1. usb = None /\ port.pnpId = info.pnpId
    BY <1>1, <1>2 DEF Listing!UsbIdentity, Listing!Prefer
  <2> DEFINE own == Listing!UsbIdentity(info.pnpId)
  <2>2. ASSUME own # None
        PROVE  /\ port.vendorId = Listing!Capitalized(own.vendor)
               /\ port.productId = Listing!Capitalized(own.product)
    <3>1. own.vendor \in Text /\ own.product \in Text
      BY <2>2, IdentityIs DEF Formed
    <3>2. /\ info.vendorId = Listing!Capitalized(own.vendor)
          /\ info.productId = Listing!Capitalized(own.product)
      BY <2>2 DEF Own
    <3> HIDE DEF own, usb
    <3> QED
      BY <1>1, <2>1, <3>1, <3>2, CapitalsStay
  <2> QED
    BY <2>1, <2>2 DEF Own, port
<1>3. CASE m.pnpId # None
  <2>1. port.pnpId = m.pnpId
    BY <1>1, <1>3 DEF Listing!Prefer
  <2> QED
    BY <1>1, <2>1 DEF Own, port
<1> QED
  BY <1>2, <1>3

(* The identity that metadata give is that of one device.                  *)
LEMMA DeviceIdentity ==
  ASSUME NEW m, NEW path, Fitting(m, path),
         Listing!UsbIdentity(m.pnpId) # None
  PROVE  LET usb == Listing!UsbIdentity(m.pnpId)
             parent == Listing!UsbIdentity(m.parentId)
         IN  <<usb.vendor, usb.product,
               IF Listing!TrustsParent(usb, parent)
               THEN parent.serial ELSE usb.serial>> \in Listing!Identities(path)
<1> DEFINE usb == Listing!UsbIdentity(m.pnpId)
           parent == Listing!UsbIdentity(m.parentId)
           serial == IF Listing!TrustsParent(usb, parent)
                     THEN parent.serial ELSE usb.serial
           serials(e) == {Listing!UsbIdentity(id).serial : id \in
                            {id \in {e.pnpId, e.parentId} :
                               /\ Listing!UsbIdentity(id) # None
                               /\ Listing!SameLetters(id.vendor, e.pnpId.vendor)
                               /\ Listing!SameLetters(id.product,
                                                      e.pnpId.product)}}
           ids == {Classes[d[1]][d[2]] : d \in Listing!Devices(path)}
           usable == {d \in ids : Listing!UsbIdentity(d.pnpId) # None}
<1>1. m.pnpId \in IdSet \cup {None} /\ m.parentId \in IdSet \cup {None}
  BY FittingIs
<1>2. m.pnpId # None /\ usb.vendor = m.pnpId.vendor
      /\ usb.product = m.pnpId.product
  BY <1>1, IdentityIs
<1>3. PICK d \in Listing!Devices(path) : Noting(m, d[1], d[2])
  BY <1>2, NoMetadataIs DEF Fitting
<1> DEFINE e == Classes[d[1]][d[2]]
<1>4. m.pnpId = e.pnpId /\ m.parentId \in {None, e.parentId}
  BY <1>2, <1>3 DEF Noting
<1>5. e \in usable
  BY <1>4
<1>6. serial \in serials(e)
  <2>1. CASE Listing!TrustsParent(usb, parent)
    <3>1. /\ parent # None /\ Listing!SameLetters(parent.vendor, usb.vendor)
          /\ Listing!SameLetters(parent.product, usb.product)
      BY <2>1 DEF Listing!TrustsParent
    <3>2. /\ m.parentId # None /\ parent.vendor = m.parentId.vendor
          /\ parent.product = m.parentId.product
      BY <1>1, <3>1, IdentityIs
    <3>3. m.parentId = e.parentId
      BY <1>4, <3>2
    <3>4. serial = Listing!UsbIdentity(e.parentId).serial
      BY <2>1, <3>3
    <3>5. e.parentId \in {id \in {e.pnpId, e.parentId} :
                            /\ Listing!UsbIdentity(id) # None
                            /\ Listing!SameLetters(id.vendor, e.pnpId.vendor)
                            /\ Listing!SameLetters(id.product, e.pnpId.product)}
      <4> HIDE DEF usb, parent, e
      <4> QED
        BY <1>2, <1>4, <3>1, <3>2, <3>3 DEF usb, parent
    <3> QED
      BY <3>4, <3>5
  <2>2. CASE ~Listing!TrustsParent(usb, parent)
    <3>1. serial = Listing!UsbIdentity(e.pnpId).serial
      BY <1>4, <2>2
    <3>2. e.pnpId \in {id \in {e.pnpId, e.parentId} :
                         /\ Listing!UsbIdentity(id) # None
                         /\ Listing!SameLetters(id.vendor, e.pnpId.vendor)
                         /\ Listing!SameLetters(id.product, e.pnpId.product)}
      <4> HIDE DEF e
      <4> QED
        BY <1>4 DEF Listing!SameLetters
    <3> QED
      BY <3>1, <3>2
  <2> QED
    BY <2>1, <2>2
<1>7. <<usb.vendor, usb.product, serial>> \in
        {e.pnpId.vendor} \X {e.pnpId.product} \X serials(e)
  <2> HIDE DEF serial, serials, e, usb
  <2> QED
    BY <1>2, <1>4, <1>6
<1>8. (UNION {{f.pnpId.vendor} \X {f.pnpId.product} \X serials(f) : f \in usable})
        \subseteq Listing!Identities(path)
  BY DEF Listing!Identities
<1> HIDE DEF serials, usable, e, serial, usb
<1>9. <<usb.vendor, usb.product, serial>> \in Listing!Identities(path)
  BY <1>5, <1>7, <1>8
<1> QED
  BY <1>9 DEF serial, usb

LEMMA AppliedShown ==
  ASSUME NEW m, NEW info, Formed(info), Identified(info), Fitting(m, info.path)
  PROVE  Shown(Listing!Applied(m, info))
<1> DEFINE port == Listing!Applied(m, info)
           usb == Listing!UsbIdentity(m.pnpId)
           parent == Listing!UsbIdentity(m.parentId)
           serial == IF Listing!TrustsParent(usb, parent)
                     THEN parent.serial ELSE usb.serial
<1>1. /\ port.path = info.path
      /\ usb = None => /\ port.vendorId = Listing!Capitalized(info.vendorId)
                       /\ port.productId = Listing!Capitalized(info.productId)
                       /\ port.serialNumber = info.serialNumber
      /\ usb # None => /\ port.vendorId = Listing!Capitalized(usb.vendor)
                       /\ port.productId = Listing!Capitalized(usb.product)
                       /\ port.serialNumber = serial
  BY AppliedIs, FittingIs
<1>2. usb # None => /\ usb.vendor \in Text /\ usb.product \in Text
                    /\ <<usb.vendor, usb.product, serial>> \in
                         Listing!Identities(info.path)
  BY FittingIs, IdentityIs, DeviceIdentity
<1> HIDE DEF port, usb, serial
<1>3. CASE usb = None
  <2>1. Identity(port) = Capitals(Identity(info))
    BY <1>1, <1>3 DEF Identity, Capitals
  <2>2. Identity(port) = Capitals(Identity(port))
    <3>1. Capitals(Identity(info)) = Capitals(Capitals(Identity(info)))
      BY CapitalsStay DEF Identity, Capitals, Formed
    <3> QED
      BY <2>1, <3>1
  <2>3. CASE Identity(info) \in Listing!Identities(info.path)
    BY <1>1, <2>1, <2>2, <2>3 DEF Shown, port
  <2>4. CASE Shown(info)
    BY <1>1, <2>1, <2>2, <2>4 DEF Shown, port
  <2> QED
    BY <2>3, <2>4 DEF Identified
<1>4. CASE usb # None
  <2> DEFINE id == <<usb.vendor, usb.product, serial>>
  <2>1. Identity(port) = Capitals(id)
    BY <1>1, <1>4 DEF Identity, Capitals
  <2>2. Capitals(id) = Capitals(Capitals(id))
    BY <1>2, <1>4, CapitalsStay DEF Capitals
  <2>3. id \in Listing!Identities(port.path)
    BY <1>1, <1>2, <1>4
  <2> HIDE DEF id
  <2> QED
    BY <2>1, <2>2, <2>3 DEF Shown, port
<1> QED
  BY <1>3, <1>4

LEMMA AppliedTold ==
  ASSUME NEW m, NEW info, Told(info), Fitting(m, info.path)
  PROVE  LET port == Listing!Applied(m, info)
         IN  Told(port) /\ Shown(port) /\ port.path = info.path
BY FittingIs, AppliedIs, AppliedForms, AppliedWhole, AppliedOwn, AppliedShown
  DEF Told, Identified

(* The ports of the crate, and what is told of them before the devices.    *)
LEMMA PortsAre ==
  ASSUME system \in Systems
  PROVE  /\ system.ports \in Seq(PortSet)
         /\ \A i, j \in DOMAIN system.ports :
              system.ports[i].path = system.ports[j].path => i = j
         /\ system.os # "linux" => system.byId = <<>>
BY ListingAssumption

LEMMA FallbackIs ==
  ASSUME system \in Systems, NEW i \in DOMAIN system.ports
  PROVE  Listing!Fallback(system.ports[i].path) = Listing!Info(system.ports[i])
<1> DEFINE port == system.ports[i]
           infos == {Listing!Info(system.ports[j]) : j \in DOMAIN system.ports}
<1>1. \A j \in DOMAIN system.ports :
        Listing!Info(system.ports[j]).path = system.ports[j].path
  BY DEF Listing!Info
<1>2. \A info \in infos : info.path = port.path => info = Listing!Info(port)
  BY <1>1, PortsAre
<1>3. Listing!Info(port) \in infos /\ Listing!Info(port).path = port.path
  BY <1>1
<1>4. Listing!Fallback(port.path) = CHOOSE info \in infos : info.path = port.path
  BY DEF Listing!Fallback
<1> HIDE DEF infos, port
<1>5. Listing!Fallback(port.path) = Listing!Info(port)
  BY <1>2, <1>3, <1>4
<1> QED
  BY <1>5 DEF port

LEMMA InfoIdentity ==
  ASSUME system \in Systems, NEW i \in DOMAIN system.ports
  PROVE  Identity(Listing!Info(system.ports[i])) \in
           Listing!Identities(system.ports[i].path)
<1> DEFINE f == Listing!Fallback(system.ports[i].path)
<1>1. {<<f.vendorId, f.productId, f.serialNumber>>} \subseteq
        Listing!Identities(system.ports[i].path)
  BY DEF Listing!Identities
<1>2. f = Listing!Info(system.ports[i])
  BY FallbackIs
<1> HIDE DEF f
<1> QED
  BY <1>1, <1>2 DEF Identity

LEMMA InfoTold ==
  ASSUME system \in Systems, system.os = "windows",
         NEW i \in DOMAIN system.ports
  PROVE  /\ Told(Listing!Info(system.ports[i]))
         /\ Listing!Info(system.ports[i]).path = system.ports[i].path
<1> DEFINE port == system.ports[i]
           info == Listing!Info(port)
<1>1. port \in PortSet
  BY PortsAre
<1>2. Listing!PortId(port.path) = None
  BY PortsAre DEF Listing!PortId
<1>3. /\ info.path = port.path /\ info.pnpId = None
      /\ info.vendorId = port.vendorId /\ info.productId = port.productId
      /\ DOMAIN info = {"path", "pnpId", "vendorId", "productId",
                        "serialNumber", "strings"}
      /\ DOMAIN info.strings = Strings
  BY <1>2 DEF Listing!Info, Strings
<1>4. info = Listing!Fallback(port.path)
  BY FallbackIs
<1>5. Identified(info)
  BY <1>3, InfoIdentity DEF Identified
<1> HIDE DEF info, port
<1>6. Formed(info)
  BY <1>1, <1>3 DEF Formed, PortSet
<1>7. Whole(info)
  BY <1>3, <1>4 DEF Whole
<1>8. Own(info)
  BY <1>3 DEF Own, Listing!UsbIdentity
<1> QED
  BY <1>3, <1>5, <1>6, <1>7, <1>8 DEF Told, info, port

(* What is heard of the registry only adds to what may be told of a port.  *)
LEMMA DevicesGrow ==
  ASSUME held \subseteq held', NEW path
  PROVE  Listing!Devices(path) \subseteq Listing!Devices(path)'
BY DEF Listing!Devices, Listing!SameLetters, Listing!Folded

LEMMA FallbackStays ==
  ASSUME system' = system, NEW path
  PROVE  Listing!Fallback(path)' = Listing!Fallback(path)
BY DEF Listing!Fallback, Listing!Info, Listing!PortId, Listing!LocationId,
       Listing!CrateLocation, Listing!Padded

LEMMA IdentitiesGrow ==
  ASSUME system' = system, held \subseteq held', NEW path
  PROVE  Listing!Identities(path) \subseteq Listing!Identities(path)'
<1> DEFINE serials(e) == {Listing!UsbIdentity(id).serial : id \in
                            {id \in {e.pnpId, e.parentId} :
                               /\ Listing!UsbIdentity(id) # None
                               /\ Listing!SameLetters(id.vendor, e.pnpId.vendor)
                               /\ Listing!SameLetters(id.product,
                                                      e.pnpId.product)}}
           three(f) == <<f.vendorId, f.productId, f.serialNumber>>
           shown(devices) ==
             UNION {{d.pnpId.vendor} \X {d.pnpId.product} \X serials(d) :
                      d \in {d \in {Classes[d[1]][d[2]] : d \in devices} :
                               Listing!UsbIdentity(d.pnpId) # None}}
<1>1. \A S, T : S \subseteq T => shown(S) \subseteq shown(T)
  <2> HIDE DEF serials
  <2> QED
    OBVIOUS
<1>2. Listing!Identities(path) =
        {three(Listing!Fallback(path))} \cup shown(Listing!Devices(path))
  BY DEF Listing!Identities
<1>3. Listing!Identities(path)' =
        {three(Listing!Fallback(path)')} \cup shown(Listing!Devices(path)')
  BY DEF Listing!Identities, Listing!UsbIdentity, Listing!Serial,
         Listing!Channel, Listing!SameLetters, Listing!Folded
<1> HIDE DEF shown, three
<1> QED
  BY <1>1, <1>2, <1>3, DevicesGrow, FallbackStays

LEMMA ToldStays ==
  ASSUME system' = system, held \subseteq held', NEW port, Told(port)
  PROVE  Told(port)'
<1>1. Formed(port)'
  BY DEF Told, Formed
<1>2. Whole(port)'
  BY DevicesGrow, FallbackStays DEF Told, Whole
<1>3. Shown(port) => Shown(port)'
  BY IdentitiesGrow DEF Shown, Identity, Capitals, Listing!Capitalized,
                        Listing!Folded
<1>4. Identified(port)'
  BY <1>3, IdentitiesGrow DEF Told, Identified, Identity
<1>5. Own(port)'
  BY DEF Told, Own, Listing!UsbIdentity, Listing!Serial, Listing!Channel,
         Listing!Capitalized, Listing!Folded
<1> QED
  BY <1>1, <1>2, <1>4, <1>5 DEF Told

TwoDigits(c, a, b) == c \in 0 .. 255 /\ c \div 16 = a /\ c % 16 = b

LEMMA DigitsOf ==
  ASSUME NEW a \in 0 .. 15, NEW b \in 0 .. 15
  PROVE  TwoDigits(16 * a + b, a, b)
<1> DEFINE c == 16 * a + b
<1>1. c \div 16 = a
  OBVIOUS
<1>2. c % 16 = b
  OBVIOUS
<1>3. c \in 0 .. 255
  OBVIOUS
<1> QED
  BY <1>1, <1>2, <1>3 DEF TwoDigits

LEMMA HalfOf ==
  ASSUME NEW n \in Nat
  PROVE  (2 * n) \div 2 = n
OBVIOUS

LEMMA TailIs ==
  ASSUME NEW S, NEW s, NEW k \in Nat, k >= 2, \A i \in 3 .. k : s[i] \in S
  PROVE  /\ SubSeq(s, 3, k) \in Seq(S) /\ Len(SubSeq(s, 3, k)) = k - 2
         /\ \A i \in 1 .. k - 2 : SubSeq(s, 3, k)[i] = s[i + 2]
<1> DEFINE t == SubSeq(s, 3, k)
<1>1. /\ t \in Seq(S) /\ Len(t) = IF 3 <= k THEN k - 3 + 1 ELSE 0
      /\ \A i \in 1 .. k - 3 + 1 : t[i] = s[3 + i - 1]
  BY SubSeqProperties
<1> HIDE DEF t
<1>2. Len(t) = k - 2
  BY <1>1
<1>3. ASSUME NEW i \in 1 .. k - 2 PROVE t[i] = s[i + 2]
  <2>1. i \in 1 .. k - 3 + 1 /\ 3 + i - 1 = i + 2
    OBVIOUS
  <2> QED
    BY <1>1, <2>1
<1> QED
  BY <1>1, <1>2, <1>3 DEF t

LEMMA JoinIs ==
  ASSUME NEW S, NEW h \in Seq(S), NEW t \in Seq(S), Len(h) = 2, Len(t) = 6
  PROVE  /\ h \o t \in [1 .. 8 -> S]
         /\ \A i \in 1 .. 8 : (h \o t)[i] = IF i <= 2 THEN h[i] ELSE t[i - 2]
<1> DEFINE s == h \o t
<1>1. /\ s \in Seq(S) /\ Len(s) = Len(h) + Len(t)
      /\ \A i \in 1 .. Len(h) + Len(t) :
           s[i] = IF i <= Len(h) THEN h[i] ELSE t[i - Len(h)]
  BY ConcatProperties
<1> HIDE DEF s
<1>2. Len(s) = 8
  BY <1>1
<1>3. s \in [1 .. Len(s) -> S]
  BY <1>1, LenProperties
<1>4. \A i \in 1 .. 8 : s[i] = IF i <= 2 THEN h[i] ELSE t[i - 2]
  BY <1>1
<1> QED
  BY <1>2, <1>3, <1>4 DEF s

(* The digits of IOKit come back from the location of the crate.           *)
LEMMA LocationIs ==
  ASSUME NEW digits \in [1 .. 8 -> 0 .. 15]
  PROVE  Listing!LocationId(Listing!CrateLocation(digits)) = digits
<1> DEFINE Fits(k) == /\ k = 2 \/ digits[k] # 0
                      /\ \A j \in k + 1 .. 8 : digits[j] = 0
           last == CHOOSE k \in 2 .. 8 : Fits(k)
           location == Listing!CrateLocation(digits)
<1>1. \E k \in 2 .. 8 : Fits(k)
  <2>1. Fits(8) \/ Fits(7) \/ Fits(6) \/ Fits(5) \/ Fits(4) \/ Fits(3) \/ Fits(2)
    OBVIOUS
  <2> QED
    BY <2>1
<1>2. last \in 2 .. 8 /\ Fits(last)
  BY <1>1
<1>3. location = [bus |-> 16 * digits[1] + digits[2],
                  ports |-> SubSeq(digits, 3, last)]
  BY DEF Listing!CrateLocation
<1> HIDE DEF last, location
<1> DEFINE ports == SubSeq(digits, 3, last)
<1>4. /\ ports \in Seq(0 .. 15) /\ Len(ports) = last - 2
      /\ \A i \in 1 .. last - 2 : ports[i] = digits[i + 2]
  <2>1. \A i \in 3 .. last : digits[i] \in 0 .. 15
    BY <1>2
  <2>2. last \in Nat /\ last >= 2
    BY <1>2
  <2> QED
    BY <2>1, <2>2, TailIs
<1> HIDE DEF ports
<1>5. /\ location.bus \in 0 .. 255
      /\ location.bus \div 16 = digits[1] /\ location.bus % 16 = digits[2]
  <2>1. digits[1] \in 0 .. 15 /\ digits[2] \in 0 .. 15
    OBVIOUS
  <2>2. TwoDigits(16 * digits[1] + digits[2], digits[1], digits[2])
    BY <2>1, DigitsOf, Zenon
  <2>3. location.bus = 16 * digits[1] + digits[2]
    BY <1>3
  <2>4. TwoDigits(location.bus, digits[1], digits[2])
    BY <2>2, <2>3, Zenon
  <2> QED
    BY <2>4, Zenon DEF TwoDigits
<1>6. Listing!Padded(ports) = [i \in 1 .. 6 |-> digits[i + 2]]
  <2>1. ASSUME NEW i \in 1 .. 6
        PROVE  (IF i <= Len(ports) THEN ports[i] ELSE 0) = digits[i + 2]
    BY <1>2, <1>4
  <2> QED
    BY <2>1 DEF Listing!Padded
<1>7. Listing!LocationId(location) =
        <<digits[1], digits[2]>> \o [i \in 1 .. 6 |-> digits[i + 2]]
  <2>1. location.ports = ports
    BY <1>3 DEF ports
  <2>3. ~(\/ location.bus > 255 \/ Len(location.ports) > 6
          \/ \E i \in DOMAIN location.ports : location.ports[i] > 15)
    <3>1. ~(location.bus > 255)
      BY <1>5
    <3>2. ~(Len(ports) > 6)
      BY <1>2, <1>4
    <3>3. \A i \in DOMAIN ports : ports[i] \in 0 .. 15
      BY <1>4
    <3>4. \A i \in DOMAIN ports : ~(ports[i] > 15)
      BY <3>3
    <3> QED
      BY <2>1, <3>1, <3>2, <3>4
  <2>4. Listing!LocationId(location) =
          <<location.bus \div 16, location.bus % 16>> \o
            Listing!Padded(location.ports)
    BY <2>3, Zenon DEF Listing!LocationId
  <2> QED
    BY <1>5, <1>6, <2>1, <2>4, Zenon
<1>8. <<digits[1], digits[2]>> \o [i \in 1 .. 6 |-> digits[i + 2]] = digits
  <2> DEFINE t == [i \in 1 .. 6 |-> digits[i + 2]]
             h == <<digits[1], digits[2]>>
             s == h \o t
  <2>1. t \in Seq(0 .. 15) /\ Len(t) = 6
    <3>1. 6 \in Nat /\ t \in [1 .. 6 -> 0 .. 15]
      OBVIOUS
    <3>2. t \in Seq(0 .. 15)
      BY <3>1, SeqDef
    <3> QED
      BY <3>1, <3>2
  <2>2. \A i \in 1 .. 6 : t[i] = digits[i + 2]
    OBVIOUS
  <2>3. /\ h \in Seq(0 .. 15) /\ Len(h) = 2
        /\ h[1] = digits[1] /\ h[2] = digits[2]
    OBVIOUS
  <2> HIDE DEF t, h
  <2>4. /\ s \in [1 .. 8 -> 0 .. 15]
        /\ \A i \in 1 .. 8 : s[i] = IF i <= 2 THEN h[i] ELSE t[i - 2]
    BY <2>1, <2>3, JoinIs
  <2> HIDE DEF s
  <2>5. \A i \in 1 .. 8 : s[i] = digits[i]
    <3>1. ASSUME NEW i \in 3 .. 8 PROVE s[i] = digits[i]
      <4>1. i - 2 \in 1 .. 6 /\ (i - 2) + 2 = i
        OBVIOUS
      <4> QED
        BY <2>2, <2>4, <4>1
    <3>2. s[1] = digits[1] /\ s[2] = digits[2]
      BY <2>3, <2>4
    <3> QED
      BY <3>1, <3>2
  <2>6. s = digits
    BY <2>4, <2>5
  <2> QED
    BY <2>6 DEF s, t, h
<1> QED
  BY <1>7, <1>8 DEF location

(* A value that is read as a whole says what it is.                        *)
LEMMA ReadSays ==
  ASSUME NEW v, IsValue(v), v # None, Listing!IsString(v), Listing!Complete(v)
  PROVE  Listing!WideString(Listing!Content(v)) = Listing!Said(v)
<1>1. /\ v.text \in Text /\ v.kind = "sz" /\ v.size % 2 = 0
      /\ v.size = 2 * Len(v.text) /\ v.size <= room
  BY DEF IsValue, Listing!IsString, Listing!Complete, Listing!WithinBuffer
<1>2. Len(v.text) \in Nat
  BY <1>1 DEF Text
<1>3. v.size \div 2 = Len(v.text)
  BY <1>1, <1>2, HalfOf
<1>4. Listing!Content(v) = SubSeq(v.text, 1, Len(v.text))
  BY <1>1, <1>3 DEF Listing!Content
<1>5. SubSeq(v.text, 1, Len(v.text)) = v.text
  <2>1. v.text \in Seq(DOMAIN Capital)
    BY <1>1 DEF Text
  <2> QED
    BY <2>1, SubSeqFull
<1> QED
  BY <1>1, <1>4, <1>5 DEF Listing!Said

(* A list whose entries are right stays so in the order of its paths.      *)
Named(infos) ==
  /\ DOMAIN infos = DOMAIN system.ports
  /\ \A i \in DOMAIN infos : infos[i].path = system.ports[i].path

LEMMA EntryStays ==
  ASSUME system' = system, held' = held, NEW port, Entry(port)
  PROVE  Entry(port)'
<1>1. held \subseteq held'
  OBVIOUS
<1>2. Whole(port)'
  BY <1>1, DevicesGrow, FallbackStays DEF Entry, Whole
<1>3. Shown(port) => Shown(port)'
  BY <1>1, IdentitiesGrow DEF Shown, Identity, Capitals, Listing!Capitalized,
                              Listing!Folded
<1>4. Own(port) => Own(port)'
  BY DEF Own, Listing!UsbIdentity, Listing!Serial, Listing!Channel,
         Listing!Capitalized, Listing!Folded
<1>5. Identity(port) \in Listing!Identities(port.path) =>
        (Identity(port) \in Listing!Identities(port.path))'
  BY <1>1, IdentitiesGrow DEF Identity
<1>6. Located(port) => Located(port)'
  BY DEF Located
<1> QED
  BY <1>2, <1>3, <1>4, <1>5, <1>6 DEF Entry

(* That the entries are right is what the properties say of them.          *)
LEMMA EntriesSuffice ==
  EntriesExact => Listing!StringsWhole /\ Listing!ListingExact
<1> SUFFICES ASSUME EntriesExact
             PROVE  Listing!StringsWhole /\ Listing!ListingExact
  OBVIOUS
<1>1. Listing!StringsWhole
  <2>1. Listing!Range(Listing!Fields) = Strings
    BY DEF Listing!Range, Listing!Fields, Strings
  <2> QED
    BY <2>1 DEF EntriesExact, Entry, Whole, Listing!StringsWhole
<1>2. ASSUME NEW i \in DOMAIN result
      PROVE  LET port == result[i]
                 own == Listing!UsbIdentity(port.pnpId)
                 shown(id) == IF system.os # "windows" THEN id
                              ELSE <<Listing!Capitalized(id[1]),
                                     Listing!Capitalized(id[2]), id[3]>>
             IN  /\ <<port.vendorId, port.productId, port.serialNumber>> \in
                      {shown(id) : id \in Listing!Identities(port.path)}
                 /\ system.os = "windows" /\ own # None =>
                      /\ port.vendorId = Listing!Capitalized(own.vendor)
                      /\ port.productId = Listing!Capitalized(own.product)
                 /\ system.os = "macos" => \E p \in Listing!Range(system.ports) :
                      p.path = port.path /\ p.iokit = port.strings.location
  <2>1. Entry(result[i])
    BY DEF EntriesExact
  <2> DEFINE port == result[i]
  <2>2. CASE system.os = "windows"
    <3>1. /\ \E id \in Listing!Identities(port.path) :
               Identity(port) = Capitals(id)
          /\ Own(port)
      BY <2>1, <2>2 DEF Entry, Shown
    <3> QED
      BY <2>2, <3>1 DEF Own, Identity, Capitals
  <2>3. CASE system.os # "windows"
    <3>1. Identity(port) \in Listing!Identities(port.path)
      BY <2>1, <2>3 DEF Entry
    <3>2. system.os = "macos" => \E p \in Listing!Range(system.ports) :
            p.path = port.path /\ p.iokit = port.strings.location
      BY <2>1 DEF Entry, Located, Listing!Range
    <3> QED
      BY <2>3, <3>1, <3>2 DEF Identity
  <2> QED
    BY <2>2, <2>3
<1> QED
  BY <1>1, <1>2 DEF EntriesExact, Listing!ListingExact

LEMMA SortedExact ==
  ASSUME system \in Systems, system' = system, held' = held,
         NEW infos, Named(infos), \A i \in DOMAIN infos : Entry(infos[i]),
         result' = Listing!Sorted(infos)
  PROVE  EntriesExact'
<1> DEFINE n == Len(system.ports)
<1>1. n \in Nat /\ DOMAIN system.ports = 1 .. n
  BY PortsAre
<1>2. Nameable(n, infos)
  <2>1. \A i \in 1 .. n : system.ports[i].path \in Paths
    <3>1. \A i \in DOMAIN system.ports : system.ports[i] \in PortSet
      BY PortsAre
    <3> QED
      BY <1>1, <3>1 DEF PortSet, Paths
  <2> QED
    BY <1>1, <2>1, PortsAre DEF Named, Nameable
<1> HIDE DEF n
<1>3. PICK p \in [1 .. n -> 1 .. n] :
        /\ \A i \in 1 .. n : \E k \in 1 .. n : p[k] = i
        /\ result' = [i \in 1 .. n |-> infos[p[i]]]
        /\ Listing!Ascending(result')
  <2>1. PICK p \in [1 .. n -> 1 .. n] :
          /\ \A i \in 1 .. n : \E k \in 1 .. n : p[k] = i
          /\ Listing!Sorted(infos) = [i \in 1 .. n |-> infos[p[i]]]
          /\ Listing!Ascending(Listing!Sorted(infos))
    BY <1>1, <1>2, SortedIs, Zenon
  <2> QED
    BY <2>1, Zenon
<1>4. /\ DOMAIN infos = 1 .. n
      /\ \A i \in 1 .. n : infos[i].path = system.ports[i].path
  BY <1>1 DEF Named
<1>5. \A i \in DOMAIN result' : Entry(result[i])'
  <2> SUFFICES ASSUME NEW i \in 1 .. n PROVE Entry(result[i])'
    BY <1>3
  <2>1. result'[i] = infos[p[i]] /\ p[i] \in 1 .. n
    BY <1>3
  <2> DEFINE port == infos[p[i]]
  <2>2. Entry(port)
    BY <1>4, <2>1
  <2>3. \A r : Entry(r) => Entry(r)'
    BY EntryStays
  <2> QED
    BY <2>1, <2>2, <2>3
<1>6. Len(result') = Len(system'.ports)
  <2>1. Len(result') = n
    BY <1>1, <1>3
  <2> QED
    BY <2>1 DEF n
<1>7. Listing!Ascending(result)'
  BY <1>3 DEF Listing!Ascending, Listing!Rank
<1>8. \A i \in DOMAIN system'.ports : \E j \in DOMAIN result' :
        result'[j].path = system'.ports[i].path
  <2> SUFFICES ASSUME NEW i \in 1 .. n
               PROVE  \E j \in 1 .. n : result'[j].path = system.ports[i].path
    BY <1>1, <1>3
  <2>1. PICK k \in 1 .. n : p[k] = i
    BY <1>3
  <2>2. result'[k] = infos[i]
    BY <1>3, <2>1
  <2> QED
    BY <1>4, <2>2
<1> QED
  BY <1>5, <1>6, <1>7, <1>8 DEF EntriesExact

-----------------------------------------------------------------------------
(* The steps of a listing.                                                 *)
LEMMA SlotsAre ==
  /\ \A s \in Listing!Slots :
       /\ s[1] \in DOMAIN Classes /\ s[2] \in DOMAIN Classes[s[1]]
       /\ s[3] \in Properties /\ s = <<s[1], s[2], s[3]>>
  /\ \A c \in DOMAIN Classes : \A i \in DOMAIN Classes[c] :
       \A f \in Properties : <<c, i, f>> \in Listing!Slots
<1> DEFINE of(c) == {c} \X (DOMAIN Classes[c]) \X Properties
<1>1. {"name"} \cup Listing!Range(Listing!Fields) = Properties
  BY DEF Listing!Range, Listing!Fields, Properties
<1>2. Listing!Slots = UNION {of(c) : c \in DOMAIN Classes}
  BY <1>1 DEF Listing!Slots
<1>3. \A c : \A s \in of(c) :
        /\ s[1] = c /\ s[2] \in DOMAIN Classes[c] /\ s[3] \in Properties
        /\ s = <<s[1], s[2], s[3]>>
  OBVIOUS
<1>4. \A c : \A i \in DOMAIN Classes[c] : \A f \in Properties :
        <<c, i, f>> \in of(c)
  OBVIOUS
<1> HIDE DEF of
<1> QED
  BY <1>2, <1>3, <1>4

LEMMA ListInit == Listing!InitListing => ListInv
<1> SUFFICES ASSUME Listing!InitListing PROVE ListInv
  OBVIOUS
<1>1. Position
  BY DEF Listing!InitListing, Position, Scanning, AtDevice
<1>2. Registered
  <2>1. /\ registry = [s \in Listing!Slots |-> Classes[s[1]][s[2]].values[s[3]]]
        /\ held = {<<s[1], s[2], s[3], Listing!Said(registry[s])>> :
                     s \in Listing!Slots}
    BY DEF Listing!InitListing
  <2>2. \A s \in Listing!Slots : IsValue(registry[s])
    BY <2>1, SlotsAre, ListingAssumption
  <2>3. \A s \in Listing!Slots :
          <<s[1], s[2], s[3], Listing!Said(registry[s])>> \in held
    BY <2>1
  <2> QED
    BY <2>1, <2>2, <2>3 DEF Registered
<1>3. pc = "enumerate" /\ result = <<>>
  BY DEF Listing!InitListing
<1> QED
  BY <1>1, <1>2, <1>3 DEF ListInv, Scanning, AtDevice

LEMMA RegisteredStays ==
  ASSUME Registered, registry' = registry, held' = held
  PROVE  Registered'
<1>1. Listing!Slots' = Listing!Slots
  BY DEF Listing!Slots, Listing!Fields
<1>2. \A v : (Listing!Said(v))' = Listing!Said(v)
  BY DEF Listing!Said, Listing!WideString
<1>3. \A v : IsValue(v)' = IsValue(v)
  BY DEF IsValue, Text
<1> QED
  BY <1>1, <1>2, <1>3 DEF Registered

LEMMA DescribedStays ==
  ASSUME Described, system' = system, result' = result, held \subseteq held'
  PROVE  Described'
<1>1. \A port : Told(port) => Told(port)'
  BY ToldStays
<1>2. \A i \in DOMAIN result : Told(result[i])'
  <2> SUFFICES ASSUME NEW i \in DOMAIN result PROVE Told(result[i])'
    OBVIOUS
  <2>1. Told(result[i])
    BY DEF Described
  <2> DEFINE port == result[i]
  <2>2. Told(port)'
    BY <1>1, <2>1
  <2> QED
    BY <2>2
<1> QED
  BY <1>2 DEF Described

LEMMA NotedStays ==
  ASSUME Noted, metadata' = metadata, class' = class, index' = index,
         held \subseteq held'
  PROVE  Noted'
BY DEF Noted, Noting

LEMMA SelectedStays ==
  ASSUME Selected, target' = target, result' = result, class' = class,
         index' = index, held \subseteq held'
  PROVE  Selected'
<1> DEFINE path == result[target].path
<1>1. Listing!Devices(path) \subseteq Listing!Devices(path)'
  BY DevicesGrow
<1> QED
  BY <1>1 DEF Selected

LEMMA EnumerateKeeps ==
  ASSUME ListInv, Listing!Enumerate
  PROVE  ListInv'
<1> DEFINE infos == [i \in DOMAIN system.ports |-> Listing!Info(system.ports[i])]
<1>1. /\ pc = "enumerate" /\ result = <<>>
      /\ UNCHANGED <<system, class, index, field, room, target, metadata,
                     registry, held, changes>>
  BY DEF ListInv, Listing!Enumerate
<1>2. \/ pc' = "failed" /\ result' = result
      \/ system.os = "windows" /\ pc' = "class" /\ result' = infos
      \/ /\ ~(system.os = "windows" /\ infos # <<>>)
         /\ pc' = "done" /\ result' = Listing!Sorted(infos)
  BY DEF Listing!Enumerate
<1>3. Position /\ Registered /\ system \in Systems
  BY DEF ListInv, Position
<1>4. Registered'
  BY <1>1, <1>3, RegisteredStays
<1>5. Position'
  <2>1. pc' \in {"failed", "class", "done"}
    BY <1>2
  <2> QED
    BY <1>1, <1>3, <2>1 DEF Position, Scanning, AtDevice
<1>6. CASE pc' = "failed" /\ result' = result
  BY <1>1, <1>4, <1>5, <1>6 DEF ListInv, Scanning, AtDevice
<1>7. CASE system.os = "windows" /\ pc' = "class" /\ result' = infos
  <2>1. \A i \in DOMAIN infos : infos[i] = Listing!Info(system.ports[i])
    OBVIOUS
  <2>2. \A port : Told(port) => Told(port)'
    BY <1>1, ToldStays
  <2>3. \A i \in DOMAIN result' :
          result'[i].path = system.ports[i].path /\ Told(result[i])'
    <3> SUFFICES ASSUME NEW i \in DOMAIN system.ports
                 PROVE  result'[i].path = system.ports[i].path /\ Told(result[i])'
      BY <1>7
    <3>1. PICK r : /\ r = Listing!Info(system.ports[i]) /\ Told(r)
                   /\ r.path = system.ports[i].path
      BY <1>3, <1>7, InfoTold
    <3>2. result'[i] = r
      BY <1>7, <3>1
    <3>3. Told(r)'
      BY <2>2, <3>1
    <3> QED
      BY <3>1, <3>2, <3>3
  <2>4. DOMAIN result' = DOMAIN system.ports
    BY <1>7
  <2>5. Described'
    BY <1>1, <1>7, <2>3, <2>4 DEF Described
  <2> QED
    BY <1>4, <1>5, <1>7, <2>5 DEF ListInv, Scanning, AtDevice
<1>8. CASE /\ ~(system.os = "windows" /\ infos # <<>>)
           /\ pc' = "done" /\ result' = Listing!Sorted(infos)
  <2>1. Named(infos)
    BY DEF Named, Listing!Info
  <2>2. ASSUME NEW i \in DOMAIN infos PROVE Entry(infos[i])
    <3> DEFINE port == system.ports[i]
               info == Listing!Info(port)
    <3>1. infos[i] = info /\ i \in DOMAIN system.ports
      OBVIOUS
    <3>2. system.os # "windows"
      <4>1. infos # <<>>
        BY <2>2
      <4> QED
        BY <1>8, <4>1
    <3>3. info.path = port.path
      BY DEF Listing!Info
    <3>4. Listing!Fallback(port.path) = info
      BY <1>3, <3>1, FallbackIs
    <3>5. Identity(info) \in Listing!Identities(port.path)
      BY <1>3, <3>1, InfoIdentity
    <3>6. ASSUME system.os = "macos" PROVE Located(info)
      <4>1. port.iokit \in [1 .. 8 -> 0 .. 15] \cup {None}
        <5>1. port \in PortSet
          BY <1>3, PortsAre
        <5> QED
          BY <5>1 DEF PortSet
      <4>2. info.strings.location =
              IF port.iokit = None THEN None
              ELSE Listing!LocationId(Listing!CrateLocation(port.iokit))
        BY <3>6 DEF Listing!Info
      <4>3. info.strings.location = port.iokit
        BY <4>1, <4>2, LocationIs
      <4> QED
        BY <3>1, <3>3, <4>3 DEF Located
    <3> HIDE DEF info
    <3>7. Whole(info)
      BY <3>3, <3>4 DEF Whole
    <3> QED
      BY <3>1, <3>2, <3>3, <3>5, <3>6, <3>7 DEF Entry
  <2> HIDE DEF infos
  <2>3. EntriesExact'
    BY <1>1, <1>3, <1>8, <2>1, <2>2, SortedExact
  <2> QED
    BY <1>4, <1>5, <1>8, <2>3 DEF ListInv, Scanning, AtDevice
<1> QED
  BY <1>2, <1>6, <1>7, <1>8

LEMMA NextClassKeeps ==
  ASSUME ListInv, Listing!NextClass
  PROVE  ListInv'
<1>1. /\ pc = "class" /\ class <= Len(Classes) /\ index' = 1
      /\ \/ pc' = "device" /\ class' = class
         \/ pc' = "class" /\ class' = class + 1
      /\ UNCHANGED <<system, result, field, room, target, metadata, registry,
                     held, changes>>
  BY DEF Listing!NextClass
<1>2. Position /\ Registered /\ Described
  BY <1>1 DEF ListInv, Scanning
<1>3. Registered' /\ Described'
  BY <1>1, <1>2, RegisteredStays, DescribedStays
<1>4. Position'
  <2>1. class \in DOMAIN Classes
    BY <1>1, <1>2, ListingAssumption DEF Position, IsSeq
  <2> QED
    BY <1>1, <1>2, <2>1 DEF Position, Scanning, AtDevice
<1> QED
  BY <1>1, <1>3, <1>4 DEF ListInv, Scanning, AtDevice

LEMMA NextDeviceKeeps ==
  ASSUME ListInv, Listing!NextDevice
  PROVE  ListInv'
<1>1. /\ pc = "device" /\ metadata' = Listing!NoMetadata
      /\ \/ /\ index <= Len(Classes[class]) /\ pc' = "probe"
            /\ field' = "name" /\ class' = class
         \/ pc' = "class" /\ class' = class + 1
      /\ UNCHANGED <<system, result, index, room, target, registry, held,
                     changes>>
  BY DEF Listing!NextDevice
<1>2. Position /\ Registered /\ Described
  BY <1>1 DEF ListInv, Scanning
<1>3. Registered' /\ Described'
  BY <1>1, <1>2, RegisteredStays, DescribedStays
<1>4. Position'
  <2>1. index <= Len(Classes[class]) => index \in DOMAIN Classes[class]
    BY <1>1, <1>2, ListingAssumption DEF Position, IsSeq
  <2> QED
    BY <1>1, <1>2, <2>1 DEF Position, Scanning, AtDevice, Properties
<1>5. Noted'
  BY <1>1, NoMetadataIs DEF Noted, Noting, Listing!NoMetadata
<1> QED
  BY <1>1, <1>3, <1>4, <1>5 DEF ListInv, Scanning, AtDevice

LEMMA FieldsAre ==
  /\ Listing!Fields[1] = "manufacturer"
  /\ Listing!Last(Listing!Fields) = "friendly"
  /\ field \in Strings /\ field # "friendly" =>
       Listing!FieldAfter \in {"location", "friendly"}
<1>1. Listing!Fields = <<"manufacturer", "location", "friendly">>
  BY DEF Listing!Fields
<1>2. Listing!Last(Listing!Fields) = "friendly"
  BY <1>1 DEF Listing!Last
<1>3. ASSUME field \in {"manufacturer", "location"}
      PROVE  Listing!FieldAfter \in {"location", "friendly"}
  <2> DEFINE c == CHOOSE i \in DOMAIN Listing!Fields : Listing!Fields[i] = field
  <2>1. \E i \in DOMAIN Listing!Fields : Listing!Fields[i] = field
    BY <1>1, <1>3
  <2>2. c \in 1 .. 3 /\ Listing!Fields[c] = field
    BY <1>1, <2>1
  <2> HIDE DEF c
  <2>3. c \in {1, 2}
    BY <1>1, <1>3, <2>2
  <2>4. Listing!FieldAfter = Listing!Fields[1 + c]
    BY <1>3 DEF Listing!FieldAfter, c
  <2> QED
    BY <1>1, <2>3, <2>4
<1> QED
  BY <1>1, <1>2, <1>3 DEF Strings

(* The first port with a name.                                             *)
LEMMA FirstFound ==
  ASSUME Described, Position, NEW string, Listing!Found(string) # {}
  PROVE  LET i == CHOOSE i \in Listing!Found(string) :
                    \A j \in Listing!Found(string) : i <= j
         IN  i \in DOMAIN result /\ Listing!SameLetters(result[i].path, string)
<1> DEFINE S == Listing!Found(string)
<1>1. S \subseteq Nat
  BY PortsAre DEF Listing!Found, Described, Position
<1>2. \A i \in S : i \in DOMAIN result /\ Listing!SameLetters(result[i].path, string)
  BY DEF Listing!Found
<1> HIDE DEF S
<1>3. PICK i \in S : \A j \in S : ~(<<j, i>> \in Less)
  <2>1. S # {}
    BY DEF S
  <2> QED
    BY <1>1, <2>1, LessIsWellFounded, WFMin
<1>4. \A j \in S : i <= j
  <2> SUFFICES ASSUME NEW j \in S PROVE i <= j
    OBVIOUS
  <2>1. i \in Nat /\ j \in Nat
    BY <1>1
  <2>2. ~(j < i)
    BY <1>3, <2>1 DEF Less
  <2> QED
    BY <2>1, <2>2
<1> QED
  BY <1>2, <1>3, <1>4 DEF S

LEMMA GotKeeps ==
  ASSUME ListInv, pc \in {"probe", "read"}, NEW string,
         string = None \/ <<class, index, field, string>> \in held,
         Listing!Got(string),
         UNCHANGED <<system, result, class, registry, held, changes>>
  PROVE  ListInv'
<1>1. /\ Position /\ Registered /\ Described /\ Noted
      /\ field # "name" => Selected
  BY DEF ListInv, Scanning, AtDevice
<1>2. Registered' /\ Described'
  BY <1>1, RegisteredStays, DescribedStays
<1>3. /\ class \in DOMAIN Classes /\ index \in DOMAIN Classes[class]
      /\ field \in Properties /\ index \in Nat \ {0}
  BY <1>1 DEF Position, AtDevice
<1>4. CASE field = "name"
  <2>1. /\ \/ /\ string # None /\ Listing!Found(string) # {}
              /\ pc' = "ids" /\ index' = index
              /\ target' = CHOOSE i \in Listing!Found(string) :
                             \A j \in Listing!Found(string) : i <= j
           \/ index' = index + 1 /\ pc' = "device"
        /\ UNCHANGED <<field, metadata>>
    BY <1>4 DEF Listing!Got, Listing!SkipDevice
  <2>2. Position'
    BY <1>1, <1>3, <2>1 DEF Position, Scanning, AtDevice
  <2>3. CASE pc' = "device"
    BY <1>2, <2>2, <2>3 DEF ListInv, Scanning, AtDevice
  <2>4. CASE pc' # "device"
    <3>1. /\ string # None /\ Listing!Found(string) # {}
          /\ pc' = "ids" /\ index' = index
      BY <2>1, <2>4
    <3>2. target' \in DOMAIN result /\
          Listing!SameLetters(result[target'].path, string)
      BY <1>1, <2>1, <2>4, FirstFound
    <3>3. Noted'
      BY <1>1, <2>1, <3>1, NotedStays
    <3>4. <<class, index>> \in Listing!Devices(result[target'].path)
      <4> DEFINE h == <<class, index, "name", string>>
      <4>1. /\ h \in held /\ h[3] = "name" /\ h[4] # None
            /\ Listing!SameLetters(h[4], result[target'].path)
        BY <1>4, <3>1, <3>2 DEF Listing!SameLetters
      <4>2. <<class, index>> = <<h[1], h[2]>>
        OBVIOUS
      <4> HIDE DEF h
      <4> QED
        BY <4>1, <4>2 DEF Listing!Devices
    <3>5. Selected'
      <4>1. PICK t : t = target'
        OBVIOUS
      <4>2. PICK path : path = result[t].path
        OBVIOUS
      <4>3. <<class, index>> \in Listing!Devices(path)'
        BY <3>4, <4>1, <4>2, DevicesGrow
      <4> QED
        BY <3>1, <3>2, <4>1, <4>2, <4>3 DEF Selected
    <3> QED
      BY <1>2, <2>2, <3>1, <3>3, <3>5 DEF ListInv, Scanning, AtDevice
  <2> QED
    BY <2>3, <2>4
<1>5. CASE field # "name"
  <2>1. /\ metadata' = [metadata EXCEPT !.strings[field] = string]
        /\ \/ field = Listing!Last(Listing!Fields) /\ pc' = "apply" /\ field' = field
           \/ /\ field # Listing!Last(Listing!Fields)
              /\ pc' = "probe" /\ field' = Listing!FieldAfter
        /\ UNCHANGED <<index, target>>
    BY <1>5 DEF Listing!Got
  <2>2. field \in Strings
    BY <1>3, <1>5 DEF Properties, Strings
  <2>3. \/ pc' = "apply"
        \/ pc' = "probe" /\ field' \in {"location", "friendly"}
    BY <2>1, <2>2, FieldsAre
  <2>4. Position'
    BY <1>1, <1>3, <2>1, <2>3 DEF Position, Scanning, AtDevice, Properties
  <2>5. Selected'
    BY <1>1, <1>5, <2>1, SelectedStays
  <2>6. Noted'
    <3>1. /\ DOMAIN metadata = {"pnpId", "parentId", "strings"}
          /\ DOMAIN metadata.strings = Strings
          /\ metadata.pnpId \in {None, Classes[class][index].pnpId}
          /\ metadata.parentId \in {None, Classes[class][index].parentId}
          /\ \A f \in Strings :
               \/ metadata.strings[f] = None
               \/ <<class, index, f, metadata.strings[f]>> \in held
      BY <1>1 DEF Noted, Noting
    <3>2. /\ DOMAIN metadata' = DOMAIN metadata
          /\ metadata'.pnpId = metadata.pnpId
          /\ metadata'.parentId = metadata.parentId
          /\ metadata'.strings = [metadata.strings EXCEPT ![field] = string]
      BY <2>1, <3>1
    <3>3. \A f \in Strings : metadata'.strings[f] =
            IF f = field THEN string ELSE metadata.strings[f]
      BY <3>1, <3>2
    <3>4. DOMAIN metadata'.strings = Strings
      BY <3>1, <3>2
    <3> QED
      BY <2>1, <3>1, <3>2, <3>3, <3>4 DEF Noted, Noting
  <2> QED
    BY <1>2, <2>3, <2>4, <2>5, <2>6 DEF ListInv, Scanning, AtDevice
<1> QED
  BY <1>4, <1>5

LEMMA ValueIs ==
  ASSUME ListInv, pc \in {"probe", "read"}
  PROVE  /\ <<class, index, field>> \in Listing!Slots
         /\ Listing!Value = registry[<<class, index, field>>]
         /\ IsValue(Listing!Value)
         /\ <<class, index, field, Listing!Said(Listing!Value)>> \in held
<1> DEFINE s == <<class, index, field>>
<1>1. Position /\ Registered
  BY DEF ListInv
<1>2. s \in Listing!Slots
  BY <1>1, SlotsAre DEF Position, AtDevice
<1>3. s[1] = class /\ s[2] = index /\ s[3] = field
  OBVIOUS
<1>4. IsValue(registry[s]) /\
      <<s[1], s[2], s[3], Listing!Said(registry[s])>> \in held
  <2> HIDE DEF s
  <2> QED
    BY <1>1, <1>2 DEF Registered
<1>5. Listing!Value = registry[s]
  BY DEF Listing!Value
<1> HIDE DEF s
<1> QED
  BY <1>2, <1>3, <1>4, <1>5 DEF s

LEMMA ProbeKeeps ==
  ASSUME ListInv, Listing!Probe
  PROVE  ListInv'
<1>1. /\ pc = "probe"
      /\ UNCHANGED <<system, result, class, registry, held, changes>>
      /\ \/ pc' = "read" /\ UNCHANGED <<index, field, target, metadata>>
         \/ Listing!Got(None)
  BY DEF Listing!Probe
<1>2. CASE Listing!Got(None)
  BY <1>1, <1>2, GotKeeps
<1>3. CASE pc' = "read" /\ UNCHANGED <<index, field, target, metadata>>
  <2>1. /\ Position /\ Registered /\ Described /\ Noted
        /\ field # "name" => Selected
    BY <1>1 DEF ListInv, Scanning, AtDevice
  <2>2. Registered' /\ Described' /\ Noted' /\ (field # "name" => Selected')
    BY <1>1, <1>3, <2>1, RegisteredStays, DescribedStays, NotedStays,
       SelectedStays
  <2>3. Position'
    BY <1>1, <1>3, <2>1 DEF Position, Scanning, AtDevice
  <2> QED
    BY <1>3, <2>2, <2>3 DEF ListInv, Scanning, AtDevice
<1> QED
  BY <1>1, <1>2, <1>3

LEMMA ReadKeeps ==
  ASSUME ListInv, Listing!ReadValue
  PROVE  ListInv'
<1>1. /\ pc = "read"
      /\ UNCHANGED <<system, result, class, registry, held, changes>>
  BY DEF Listing!ReadValue
<1> DEFINE v == Listing!Value
<1>2. PICK read \in {FALSE} \cup {v # None} :
        Listing!Got(IF read /\ Listing!IsString(v) /\ Listing!Complete(v)
                    THEN Listing!WideString(Listing!Content(v)) ELSE None)
  BY DEF Listing!ReadValue
<1>3. CASE read /\ Listing!IsString(v) /\ Listing!Complete(v)
  <2>1. v # None
    BY <1>2, <1>3
  <2>2. Listing!WideString(Listing!Content(v)) = Listing!Said(v)
    BY <1>1, <1>3, <2>1, ValueIs, ReadSays
  <2>3. Listing!Got(Listing!Said(v))
    BY <1>2, <1>3, <2>2
  <2> QED
    BY <1>1, <2>3, ValueIs, GotKeeps
<1>4. CASE ~(read /\ Listing!IsString(v) /\ Listing!Complete(v))
  <2>1. Listing!Got(None)
    BY <1>2, <1>4
  <2> QED
    BY <1>1, <2>1, GotKeeps
<1> QED
  BY <1>3, <1>4

LEMMA IdsKeeps ==
  ASSUME ListInv, Listing!ReadIds
  PROVE  ListInv'
<1>1. /\ pc = "ids" /\ pc' = "probe" /\ field' = Listing!Fields[1]
      /\ UNCHANGED <<system, result, class, index, room, target, registry,
                     held, changes>>
  BY DEF Listing!ReadIds
<1>2. PICK pnpId \in {None, Classes[class][index].pnpId},
           parentId \in {None, Classes[class][index].parentId} :
        metadata' = [metadata EXCEPT !.pnpId = pnpId, !.parentId = parentId]
  BY DEF Listing!ReadIds
<1>3. Position /\ Registered /\ Described /\ Noted /\ Selected
  BY <1>1 DEF ListInv, Scanning, AtDevice
<1>4. Registered' /\ Described' /\ Selected'
  BY <1>1, <1>3, RegisteredStays, DescribedStays, SelectedStays
<1>5. Position'
  BY <1>1, <1>3, FieldsAre DEF Position, Scanning, AtDevice, Properties
<1>6. Noted'
  BY <1>1, <1>2, <1>3 DEF Noted, Noting
<1> QED
  BY <1>1, <1>4, <1>5, <1>6 DEF ListInv, Scanning, AtDevice

LEMMA ApplyKeeps ==
  ASSUME ListInv, Listing!Apply
  PROVE  ListInv'
<1>1. /\ pc = "apply" /\ pc' = "device" /\ index' = index + 1
      /\ result' = [result EXCEPT
                      ![target] = Listing!Applied(metadata, result[target])]
      /\ UNCHANGED <<system, class, field, room, target, metadata, registry,
                     held, changes>>
  BY DEF Listing!Apply, Listing!SkipDevice
<1>2. Position /\ Registered /\ Described /\ Noted /\ Selected
  BY <1>1 DEF ListInv, Scanning, AtDevice
<1>3. Registered'
  BY <1>1, <1>2, RegisteredStays
<1>4. Position'
  BY <1>1, <1>2 DEF Position, Scanning, AtDevice
<1>5. PICK info : info = result[target]
  OBVIOUS
<1>6. Fitting(metadata, info.path)
  <2> DEFINE d == <<class, index>>
  <2>1. d[1] = class /\ d[2] = index /\ d \in Listing!Devices(info.path)
    BY <1>2, <1>5 DEF Selected
  <2>2. class \in DOMAIN Classes /\ index \in DOMAIN Classes[class]
    BY <1>1, <1>2 DEF Position, AtDevice
  <2>3. Noting(metadata, class, index)
    BY <1>2 DEF Noted
  <2> HIDE DEF d
  <2> QED
    BY <2>1, <2>2, <2>3 DEF Fitting
<1>7. PICK port : port = Listing!Applied(metadata, info)
  OBVIOUS
<1>8. Told(port) /\ port.path = info.path
  <2>1. Told(info)
    BY <1>2, <1>5 DEF Described, Selected
  <2> QED
    BY <1>6, <1>7, <2>1, AppliedTold
<1>9. \A r : Told(r) => Told(r)'
  BY <1>1, ToldStays
<1>10. Described'
  <2>1. ASSUME NEW i \in DOMAIN result
        PROVE  result'[i].path = system.ports[i].path /\ Told(result[i])'
    <3>1. CASE i = target
      <4>1. result'[i] = port
        BY <1>1, <1>5, <1>7, <2>1, <3>1
      <4>2. port.path = system.ports[i].path
        BY <1>2, <1>5, <1>8, <3>1 DEF Described, Selected
      <4>3. Told(port)'
        BY <1>8, <1>9
      <4> QED
        BY <4>1, <4>2, <4>3
    <3>2. CASE i # target
      <4>1. PICK r : r = result[i]
        OBVIOUS
      <4>2. result'[i] = r
        BY <1>1, <2>1, <3>2, <4>1
      <4>3. Told(r) /\ r.path = system.ports[i].path
        BY <1>2, <2>1, <4>1 DEF Described
      <4>4. Told(r)'
        BY <1>9, <4>3
      <4> QED
        BY <4>2, <4>3, <4>4
    <3> QED
      BY <3>1, <3>2
  <2>2. DOMAIN result' = DOMAIN result
    BY <1>1
  <2> QED
    BY <1>1, <1>2, <2>1, <2>2 DEF Described
<1> QED
  BY <1>1, <1>3, <1>4, <1>10 DEF ListInv, Scanning, AtDevice

LEMMA EnrichedKeeps ==
  ASSUME ListInv, Listing!Finish
  PROVE  ListInv'
<1> DEFINE infos == [i \in DOMAIN result |->
                       Listing!Applied(Listing!NoMetadata, result[i])]
<1>1. /\ pc = "class" /\ pc' = "done" /\ result' = Listing!Sorted(infos)
      /\ UNCHANGED <<system, class, index, field, room, target, metadata,
                     registry, held, changes>>
  BY DEF Listing!Finish
<1>2. Position /\ Registered /\ Described
  BY <1>1 DEF ListInv, Scanning
<1>3. Registered'
  BY <1>1, <1>2, RegisteredStays
<1>4. Position'
  BY <1>1, <1>2 DEF Position, Scanning, AtDevice
<1>5. ASSUME NEW i \in DOMAIN result
      PROVE  infos[i].path = system.ports[i].path /\ Entry(infos[i])
  <2>1. Told(result[i]) /\ result[i].path = system.ports[i].path
    BY <1>2 DEF Described
  <2>2. Fitting(Listing!NoMetadata, result[i].path)
    BY DEF Fitting
  <2>3. PICK port : port = Listing!Applied(Listing!NoMetadata, result[i])
    OBVIOUS
  <2>4. Told(port) /\ Shown(port) /\ port.path = result[i].path
    BY <2>1, <2>2, <2>3, AppliedTold
  <2>5. Entry(port)
    BY <1>2, <2>4 DEF Entry, Told, Described
  <2> QED
    BY <2>1, <2>3, <2>4, <2>5
<1>6. Named(infos) /\ \A i \in DOMAIN infos : Entry(infos[i])
  BY <1>2, <1>5 DEF Named, Described
<1> HIDE DEF infos
<1>7. EntriesExact'
  BY <1>1, <1>2, <1>6, SortedExact DEF Position
<1> QED
  BY <1>1, <1>3, <1>4, <1>7 DEF ListInv, Scanning, AtDevice

LEMMA ChangeKeeps ==
  ASSUME ListInv, Listing!Change
  PROVE  ListInv'
<1> DEFINE s == <<class, index, field>>
<1>1. /\ pc \in {"probe", "read"} /\ changes' = changes + 1
      /\ UNCHANGED <<system, pc, result, class, index, field, room, target,
                     metadata>>
  BY DEF Listing!Change
<1>2. PICK v \in Values[field] :
        /\ registry' = [registry EXCEPT ![s] = v]
        /\ held' = held \cup {<<class, index, field, Listing!Said(v)>>}
  BY DEF Listing!Change
<1>3. /\ Position /\ Registered /\ Described /\ Noted
      /\ field # "name" => Selected
  BY <1>1 DEF ListInv, Scanning, AtDevice
<1>4. held \subseteq held'
  BY <1>2
<1>5. Described' /\ Noted' /\ (field # "name" => Selected')
  BY <1>1, <1>3, <1>4, DescribedStays, NotedStays, SelectedStays
<1>6. Position'
  BY <1>1, <1>3 DEF Position
<1>7. Registered'
  <2>1. IsValue(v)
    BY <1>1, <1>2, <1>3, ListingAssumption DEF Position
  <2>2. s[1] = class /\ s[2] = index /\ s[3] = field
    OBVIOUS
  <2> HIDE DEF s
  <2>3. Listing!Slots' = Listing!Slots
    BY DEF Listing!Slots, Listing!Fields
  <2>4. \A w : (Listing!Said(w))' = Listing!Said(w)
    BY DEF Listing!Said, Listing!WideString
  <2>5. DOMAIN registry' = Listing!Slots
    BY <1>2, <1>3 DEF Registered
  <2>6. ASSUME NEW t \in Listing!Slots
        PROVE  /\ IsValue(registry'[t])
               /\ <<t[1], t[2], t[3], Listing!Said(registry'[t])>> \in held'
    <3>1. CASE t = s
      <4>1. registry'[t] = v
        BY <1>2, <1>3, <3>1 DEF Registered
      <4> QED
        BY <1>2, <2>1, <2>2, <3>1, <4>1
    <3>2. CASE t # s
      <4>1. registry'[t] = registry[t]
        BY <1>2, <1>3, <3>2 DEF Registered
      <4> QED
        BY <1>3, <1>4, <4>1 DEF Registered
    <3> QED
      BY <3>1, <3>2
  <2>7. \A w : IsValue(w)' = IsValue(w)
    BY DEF IsValue, Text
  <2> QED
    BY <2>3, <2>4, <2>5, <2>6, <2>7 DEF Registered
<1> QED
  BY <1>1, <1>5, <1>6, <1>7 DEF ListInv, Scanning, AtDevice

(* Nothing of a listing changes.                                           *)
LEMMA SameListing ==
  ASSUME ListInv, pc' = pc, UNCHANGED listingVars
  PROVE  ListInv'
<1>1. /\ held \subseteq held' /\ held' = held /\ system' = system
      /\ result' = result /\ registry' = registry /\ metadata' = metadata
      /\ class' = class /\ index' = index /\ field' = field /\ target' = target
  BY DEF listingVars
<1>2. Position' /\ Registered'
  BY <1>1, RegisteredStays DEF ListInv, Position
<1>3. /\ pc \in Scanning => Described'
      /\ pc \in AtDevice => Noted'
      /\ Selected => Selected'
  BY <1>1, DescribedStays, NotedStays, SelectedStays DEF ListInv
<1>4. ASSUME EntriesExact
      PROVE  EntriesExact'
  <2>1. \A r : Entry(r) => Entry(r)'
    BY <1>1, EntryStays
  <2>2. ASSUME NEW i \in DOMAIN result PROVE Entry(result[i])'
    <3>1. PICK r : r = result[i]
      OBVIOUS
    <3>2. Entry(r)'
      BY <1>4, <2>1, <2>2, <3>1 DEF EntriesExact
    <3> QED
      BY <1>1, <3>1, <3>2
  <2>3. Listing!Ascending(result)'
    <3>1. PICK r : r = result
      OBVIOUS
    <3>2. Listing!Ascending(r)
      BY <1>4, <3>1 DEF EntriesExact
    <3>3. Listing!Ascending(r)'
      BY <3>2 DEF Listing!Ascending, Listing!Rank
    <3> QED
      BY <1>1, <3>1, <3>3
  <2> QED
    BY <1>1, <1>4, <2>2, <2>3 DEF EntriesExact
<1> QED
  BY <1>1, <1>2, <1>3, <1>4 DEF ListInv, Scanning, AtDevice

LEMMA ListingKeeps ==
  ASSUME ListInv, Listing!NextListing
  PROVE  ListInv'
<1>1. CASE Listing!Enumerate
  BY <1>1, EnumerateKeeps
<1>2. CASE Listing!NextClass
  BY <1>2, NextClassKeeps
<1>3. CASE Listing!NextDevice
  BY <1>3, NextDeviceKeeps
<1>4. CASE Listing!Probe
  BY <1>4, ProbeKeeps
<1>5. CASE Listing!ReadValue
  BY <1>5, ReadKeeps
<1>6. CASE Listing!ReadIds
  BY <1>6, IdsKeeps
<1>7. CASE Listing!Apply
  BY <1>7, ApplyKeeps
<1>8. CASE Listing!Finish
  BY <1>8, EnrichedKeeps
<1>9. CASE Listing!Change
  BY <1>9, ChangeKeeps
<1>10. CASE Listing!Listed
  <2>1. pc' = pc /\ UNCHANGED listingVars
    BY <1>10 DEF Listing!Listed, Listing!listVars, listingVars
  <2> QED
    BY <2>1, SameListing
<1> QED
  BY <1>1, <1>2, <1>3, <1>4, <1>5, <1>6, <1>7, <1>8, <1>9, <1>10
  DEF Listing!NextListing

LEMMA ListSuffices ==
  ListInv => Listing!StringsWhole /\ Listing!ListingExact
<1> SUFFICES ASSUME ListInv PROVE Listing!StringsWhole /\ Listing!ListingExact
  OBVIOUS
<1>1. Listing!Range(Listing!Fields) = Strings
  BY DEF Listing!Range, Listing!Fields, Strings
<1>2. CASE pc = "done"
  BY <1>2, EntriesSuffice DEF ListInv
<1>3. CASE pc # "done"
  <2>1. \A i \in DOMAIN result : Whole(result[i])
    <3>1. pc \in {"enumerate", "failed"} \/ pc \in Scanning
      BY <1>3 DEF ListInv, Position
    <3> QED
      BY <3>1 DEF ListInv, Described, Told
  <2> QED
    BY <1>1, <1>3, <2>1 DEF Listing!StringsWhole, Listing!ListingExact, Whole
<1> QED
  BY <1>2, <1>3

(* A listing has exactly the ports of the crate, in order, whatever fails  *)
(* after them and whatever drivers change meanwhile: with strings that are *)
(* whole, and the identity of one device (ListTask, Metadata::apply).      *)
THEOREM ListsExactly == Spec => []ListingExact
<1> DEFINE I == kind = "list" => ListInv
<1>1. Init => I
  BY ListInit DEF Init
<1>2. I /\ [Next]_vars => I'
  <2> SUFFICES ASSUME I, [Next]_vars, kind' = "list" PROVE ListInv'
    OBVIOUS
  <2>1. CASE Open
    BY <2>1 DEF Open
  <2>2. CASE List
    BY <2>2, ListingKeeps DEF List
  <2>3. CASE UNCHANGED vars
    <3>1. kind' = kind /\ pc' = pc /\ UNCHANGED listingVars
      BY <2>3 DEF vars
    <3> QED
      BY <2>3, <3>1, SameListing
  <2> QED
    BY <2>1, <2>2, <2>3 DEF Next
<1>3. I => ListingExact
  BY ListSuffices DEF ListingExact
<1> QED
  BY <1>1, <1>2, <1>3, PTL DEF Spec
=============================================================================
