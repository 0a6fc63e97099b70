----------------------------- MODULE PortListing -----------------------------
(***************************************************************************)
(* list_ports: what the serialport crate enumerates, with the ids of       *)
(* /dev/serial/by-id on Linux, the location of IOKit on macOS, and the     *)
(* metadata of SetupAPI on Windows.  There, the strings of the registry    *)
(* are read in two calls each, while drivers change them; every lookup may *)
(* fail.  A string is a sequence of letters, "nul" its terminator.  An id  *)
(* is a record of what it tells, wellFormed whether usb_identity reads it. *)
(***************************************************************************)
EXTENDS Naturals, Sequences, SequencesExt

CONSTANTS
  Systems,     \* what the crate, IOKit and /dev/serial/by-id can say
  Classes,     \* the device classes on Windows: sequences of devices
  Values,      \* values that a registry property may get
  Order,       \* all paths in order
  Capital,     \* the capital of every letter
  MaxSize,     \* the limit on a registry string in bytes, 64 KiB
  MaxChanges,  \* bound: changes of the registry
  None

VARIABLES
  system, pc,
  result,      \* the PortInfo of every port
  class,
  index,       \* the device of the class that is looked at
  field,       \* the property that is read
  room,        \* the size of the buffer for it
  target,      \* the port that the device is found to be
  metadata,
  registry,    \* the values of <<class, index, field>>
  held,        \* history: all strings <<class, index, field, string>>
  changes

listVars == <<system, pc, result, class, index, field, room, target, metadata,
              registry, held, changes>>

(* The properties in the order in which they are read.                     *)
Fields == <<"manufacturer", "location", "friendly">>

NoMetadata == [pnpId |-> None, parentId |-> None,
               strings |-> [f \in Range(Fields) |-> None]]

Slots == UNION {{c} \X (DOMAIN Classes[c]) \X ({"name"} \cup Range(Fields)) :
                  c \in DOMAIN Classes}

(* wide_string: up to the terminator, or None.                             *)
WideString(text) ==
  LET ends == {i \in DOMAIN text : text[i] = "nul"}
      length == IF ends = {} THEN Len(text)
                ELSE (CHOOSE i \in ends : \A j \in ends : i <= j) - 1
  IN  IF length = 0 THEN None ELSE SubSeq(text, 1, length)

(* What a property says to a reader that sees all of it at once.           *)
Said(v) == IF v = None THEN None
           ELSE IF v.kind = "sz" /\ v.size % 2 = 0 THEN WideString(v.text)
           ELSE None

InitListing ==
  /\ system \in Systems /\ pc = "enumerate" /\ result = <<>>
  /\ class = 1 /\ index = 1 /\ field = "name" /\ room = 0 /\ target = 0
  /\ metadata = NoMetadata /\ changes = 0
  /\ registry = [s \in Slots |-> Classes[s[1]][s[2]].values[s[3]]]
  /\ held = {<<s[1], s[2], s[3], Said(registry[s])>> : s \in Slots}

Folded(s) == [i \in DOMAIN s |-> Capital[s[i]]]
SameLetters(s, t) == Folded(s) = Folded(t)
Capitalized(s) == IF s = None THEN None ELSE Folded(s)

-----------------------------------------------------------------------------
(* platform::port_ids: entries come in the order of their names, and the   *)
(* first one that leads to a path is its id.                               *)
PortId(path) ==
  LET to == {i \in DOMAIN system.byId : system.byId[i].path = path}
  IN  IF to = {} THEN None
      ELSE system.byId[CHOOSE i \in to : \A j \in to : i <= j].name

(* What the crate makes of the eight hexadecimal digits that IOKit has for *)
(* a location: a byte for the bus, and ports without trailing zeros.       *)
CrateLocation(digits) ==
  LET last == CHOOSE k \in 2 .. 8 : /\ k = 2 \/ digits[k] # 0
                                    /\ \A j \in k + 1 .. 8 : digits[j] = 0
  IN  [bus |-> 16 * digits[1] + digits[2], ports |-> SubSeq(digits, 3, last)]

(* macos_list: the digits again.                                           *)
Unpadded(ports) == ports

Padded(ports) ==
  [i \in 1 .. 6 |-> IF i <= Len(ports) THEN ports[i] ELSE 0]

LocationId(location) ==
  IF \/ location.bus > 255 \/ Len(location.ports) > 6
     \/ \E i \in DOMAIN location.ports : location.ports[i] > 15
  THEN None
  ELSE <<location.bus \div 16, location.bus % 16>> \o Padded(location.ports)

(* What ListTask::compute makes of a port of the crate.                    *)
Info(port) ==
  [path |-> port.path, pnpId |-> PortId(port.path),
   vendorId |-> port.vendorId, productId |-> port.productId,
   serialNumber |-> port.serialNumber,
   strings |-> [manufacturer |-> port.manufacturer,
                location |-> IF system.os # "macos" \/ port.iokit = None
                             THEN None ELSE LocationId(CrateLocation(port.iokit)),
                friendly |-> IF system.os = "windows" THEN port.product
                             ELSE None]]

Rank(path) == CHOOSE i \in DOMAIN Order : Order[i] = path

Ascending(infos) ==
  \A i, j \in DOMAIN infos :
    i < j => Rank(infos[i].path) < Rank(infos[j].path)

Reordered(infos, p) == [i \in DOMAIN infos |-> infos[p[i]]]

Sorted(infos) ==
  Reordered(infos, CHOOSE p \in Surjection(DOMAIN infos, DOMAIN infos) :
                     Ascending(Reordered(infos, p)))

Enumerate ==
  /\ pc = "enumerate"
  /\ \/ pc' = "failed" /\ result' = result
     \/ LET infos == [i \in DOMAIN system.ports |-> Info(system.ports[i])]
        IN  IF system.os = "windows" /\ infos # <<>>
            THEN pc' = "class" /\ result' = infos
            ELSE pc' = "done" /\ result' = Sorted(infos)
  /\ UNCHANGED <<system, class, index, field, room, target, metadata, registry,
                 held, changes>>

-----------------------------------------------------------------------------
(* enrich: the devices of each class, one after the other.                 *)
NextClass ==
  /\ pc = "class" /\ class <= Len(Classes)
  /\ index' = 1
  /\ \/ pc' = "device" /\ class' = class
     \/ pc' = "class" /\ class' = class + 1
  /\ UNCHANGED <<system, result, field, room, target, metadata, registry, held,
                 changes>>

NextDevice ==
  /\ pc = "device"
  /\ IF index <= Len(Classes[class])
     THEN pc' = "probe" /\ field' = "name" /\ class' = class
     ELSE pc' = "class" /\ class' = class + 1 /\ field' = field
  /\ metadata' = NoMetadata
  /\ UNCHANGED <<system, result, index, room, target, registry, held, changes>>

Value == registry[<<class, index, field>>]

SkipDevice == index' = index + 1 /\ pc' = "device"

FieldAfter ==
  IF field = "name" THEN Fields[1]
  ELSE Fields[1 + CHOOSE i \in DOMAIN Fields : Fields[i] = field]

Found(string) == {i \in DOMAIN result : SameLetters(result[i].path, string)}

(* A string was read, or None: the name selects the port.                  *)
Got(string) ==
  IF field = "name"
  THEN /\ IF string # None /\ Found(string) # {}
          THEN /\ pc' = "ids" /\ index' = index
               /\ target' = CHOOSE i \in Found(string) :
                              \A j \in Found(string) : i <= j
          ELSE SkipDevice /\ target' = target
       /\ UNCHANGED <<field, metadata>>
  ELSE /\ metadata' = [metadata EXCEPT !.strings[field] = string]
       /\ IF field = Last(Fields) THEN pc' = "apply" /\ field' = field
          ELSE pc' = "probe" /\ field' = FieldAfter
       /\ UNCHANGED <<index, target>>

(* registry_string: the first call asks for the size.                      *)
Probe ==
  /\ pc = "probe"
  /\ \E size \in {0} \cup (IF Value = None THEN {} ELSE {Value.size}) :
       /\ room' = size
       /\ IF size > 0 /\ size <= MaxSize /\ size % 2 = 0
          THEN pc' = "read" /\ UNCHANGED <<index, field, target, metadata>>
          ELSE Got(None)
  /\ UNCHANGED <<system, result, class, registry, held, changes>>

(* The second call reads; when the value has become larger, it fails or    *)
(* says so.                                                                *)
WithinBuffer(v) == v.size <= room

Truncated(v) == TRUE

Complete(v) == WithinBuffer(v)

AnyKind(v) == TRUE

IsString(v) == v.kind = "sz" /\ v.size % 2 = 0

Content(v) == SubSeq(v.text, 1, IF v.size <= room THEN v.size \div 2
                                ELSE room \div 2)

ReadValue ==
  /\ pc = "read"
  /\ \E read \in {FALSE} \cup {Value # None} :
       Got(IF read /\ IsString(Value) /\ Complete(Value)
           THEN WideString(Content(Value)) ELSE None)
  /\ UNCHANGED <<system, result, class, room, registry, held, changes>>

(* The id of the device and that of its parent.                            *)
ReadIds ==
  /\ pc = "ids"
  /\ \E pnpId \in {None, Classes[class][index].pnpId},
        parentId \in {None, Classes[class][index].parentId} :
       metadata' = [metadata EXCEPT !.pnpId = pnpId, !.parentId = parentId]
  /\ pc' = "probe" /\ field' = Fields[1]
  /\ UNCHANGED <<system, result, class, index, room, target, registry, held,
                 changes>>

-----------------------------------------------------------------------------
(* usb_identity: the vendor, product and serial number in an id.  An FTDI  *)
(* channel puts an A behind the serial number.                             *)
Channel(serial) ==
  IF Len(serial) > 1 /\ Last(serial) = "A" THEN Front(serial) ELSE serial

Serial(id) == IF id.bus = "ftdi" THEN Channel(id.channel) ELSE id.instance

UsbIdentity(id) ==
  IF \/ id = None
     \/ id.bus \notin {"usb", "ftdi"} \/ ~id.wellFormed \/ Serial(id) = <<>>
  THEN None
  ELSE [vendor |-> id.vendor, product |-> id.product, serial |-> Serial(id),
        useParent |-> id.bus = "ftdi" \/ id.interface]

AnyParent(usb, parent) == parent # None /\ usb.useParent

TrustsParent(usb, parent) ==
  /\ parent # None /\ usb.useParent
  /\ SameLetters(parent.vendor, usb.vendor)
  /\ SameLetters(parent.product, usb.product)

(* Metadata::apply.                                                        *)
Overwritten(new, old) == new

Prefer(new, old) == IF new = None THEN old ELSE new

Applied(m, info) ==
  LET usb == UsbIdentity(m.pnpId)
      parent == UsbIdentity(m.parentId)
      named == [info EXCEPT
                  !.strings = [f \in DOMAIN @ |-> Prefer(m.strings[f], @[f])],
                  !.pnpId = Prefer(m.pnpId, @)]
      known == IF usb = None THEN named
               ELSE [named EXCEPT
                       !.vendorId = usb.vendor, !.productId = usb.product,
                       !.serialNumber = IF TrustsParent(usb, parent)
                                        THEN parent.serial ELSE usb.serial]
  IN  [known EXCEPT !.vendorId = Capitalized(@), !.productId = Capitalized(@)]

Apply ==
  /\ pc = "apply"
  /\ result' = [result EXCEPT ![target] = Applied(metadata, @)]
  /\ SkipDevice
  /\ UNCHANGED <<system, class, field, room, target, metadata, registry, held,
                 changes>>

(* Ports that no device was found for are spelled alike.                   *)
Finish ==
  /\ pc = "class" /\ class > Len(Classes)
  /\ result' = Sorted([i \in DOMAIN result |-> Applied(NoMetadata, result[i])])
  /\ pc' = "done"
  /\ UNCHANGED <<system, class, index, field, room, target, metadata, registry,
                 held, changes>>

(* A driver changes the property that is looked up next, at any time.      *)
Change ==
  /\ changes < MaxChanges /\ pc \in {"probe", "read"}
  /\ \E v \in Values[field] :
       /\ v # Value
       /\ registry' = [registry EXCEPT ![<<class, index, field>>] = v]
       /\ held' = held \cup {<<class, index, field, Said(v)>>}
  /\ changes' = changes + 1
  /\ UNCHANGED <<system, pc, result, class, index, field, room, target,
                 metadata>>

Listed == pc \in {"done", "failed"} /\ UNCHANGED listVars

NextListing ==
  \/ Enumerate \/ NextClass \/ NextDevice \/ Probe \/ ReadValue \/ ReadIds
  \/ Apply \/ Finish \/ Change \/ Listed
-----------------------------------------------------------------------------
(* What the crate says of a path, and the devices that were its port.      *)
Fallback(path) ==
  LET infos == {Info(system.ports[i]) : i \in DOMAIN system.ports}
  IN  CHOOSE info \in infos : info.path = path

Devices(path) ==
  {<<h[1], h[2]>> : h \in {h \in held : /\ h[3] = "name" /\ h[4] # None
                                        /\ SameLetters(h[4], path)}}

(* Each string of a port is one that a registry property of a device with  *)
(* the name of the port held as a whole, never cut or mixed when it grew   *)
(* between the two calls that read it, or that of the crate, which no      *)
(* lookup that fails may delete.                                           *)
StringsWhole ==
  \A i \in DOMAIN result : \A f \in Range(Fields) :
    LET port == result[i]
        former == Fallback(port.path).strings[f]
    IN  \/ port.strings[f] = former
        \/ /\ port.strings[f] # None
           /\ \E d \in Devices(port.path) :
                <<d[1], d[2], f, port.strings[f]>> \in held

(* The identities that may be shown for a port: that of the crate, or that *)
(* of one device of its name, with the serial number of its parent only if *)
(* the parent is the same product.                                         *)
Identities(path) ==
  LET f == Fallback(path)
      ids == {Classes[d[1]][d[2]] : d \in Devices(path)}
      usable == {d \in ids : UsbIdentity(d.pnpId) # None}
      serials(d) == {UsbIdentity(e).serial : e \in
                       {e \in {d.pnpId, d.parentId} :
                          /\ UsbIdentity(e) # None
                          /\ SameLetters(e.vendor, d.pnpId.vendor)
                          /\ SameLetters(e.product, d.pnpId.product)}}
  IN  {<<f.vendorId, f.productId, f.serialNumber>>} \cup
      UNION {{d.pnpId.vendor} \X {d.pnpId.product} \X serials(d) : d \in usable}

(* The result has exactly the ports of the crate in order, whatever fails  *)
(* after them; on Windows with ids in capitals, and the vendor, product    *)
(* and serial number of one and the same device, namely that of the id, if *)
(* it is one of USB; on macOS with the location that IOKit has.            *)
ListingExact ==
  pc = "done" =>
    /\ Len(result) = Len(system.ports) /\ Ascending(result)
    /\ \A i \in DOMAIN system.ports : \E j \in DOMAIN result :
         result[j].path = system.ports[i].path
    /\ \A i \in DOMAIN result :
         LET port == result[i]
             own == UsbIdentity(port.pnpId)
             shown(id) == IF system.os # "windows" THEN id
                          ELSE <<Capitalized(id[1]), Capitalized(id[2]), id[3]>>
         IN  /\ <<port.vendorId, port.productId, port.serialNumber>> \in
                  {shown(id) : id \in Identities(port.path)}
             /\ system.os = "windows" /\ own # None =>
                  /\ port.vendorId = Capitalized(own.vendor)
                  /\ port.productId = Capitalized(own.product)
             /\ system.os = "macos" => \E p \in Range(system.ports) :
                  p.path = port.path /\ p.iokit = port.strings.location
=============================================================================
