------------------------------ MODULE Platform ------------------------------
(***************************************************************************)
(* What the addon does outside a session: opening a device, and listing    *)
(* devices.  Neither depends on the other: kind says which one a behavior  *)
(* is about, and the variables of the other keep a fixed value.            *)
(***************************************************************************)
EXTENDS Naturals, Sequences

CONSTANTS
  Platforms, Options, Lines, Rates, MaxOps,                \* of PortOpening
  Systems, Classes, Values, Order, Capital, MaxSize, MaxChanges, None

(* Options and settings have values, whatever they are, and the platforms  *)
(* are those that have an implementation.                                  *)
Parities == {"none", "odd", "even", "mark", "space"}

LineSet ==
  [dataBits : Nat, stopBits : Nat, parity : Parities, sticky : BOOLEAN,
   cts : BOOLEAN, rts : BOOLEAN, xon : BOOLEAN, xoff : BOOLEAN,
   xany : BOOLEAN, hupcl : BOOLEAN, rate : Nat]

OptionSet ==
  [path : STRING, baudRate : Nat, dataBits : Nat, stopBits : Nat,
   parity : STRING, lock : BOOLEAN, rtscts : BOOLEAN, xon : BOOLEAN,
   xoff : BOOLEAN, xany : BOOLEAN, hupcl : BOOLEAN]

ASSUME OpeningAssumption ==
  /\ Platforms \subseteq {"linux", "macos", "windows"}
  /\ Options \subseteq OptionSet /\ Lines \subseteq LineSet
  /\ Rates \subseteq Nat /\ MaxOps \in Nat

(* Every path can be ordered, no two ports of a system have the same path, *)
(* and only Linux has /dev/serial/by-id.  IOKit has eight hexadecimal      *)
(* digits for a location.  Capitals have no other capital, and the size of *)
(* a string in the registry is that of its text, if it is even.            *)
Text == Seq(DOMAIN Capital)

PortSet ==
  [path : {Order[k] : k \in DOMAIN Order},
   vendorId : Text \cup {None}, productId : Text \cup {None},
   serialNumber : Text \cup {None}, manufacturer : Text \cup {None},
   product : Text \cup {None}, iokit : [1 .. 8 -> 0 .. 15] \cup {None}]

IdSet ==
  [bus : STRING, wellFormed : BOOLEAN, vendor : Text, product : Text,
   channel : Text, instance : Text, interface : BOOLEAN]

IsValue(v) ==
  \/ v = None
  \/ /\ v.size \in Nat /\ v.text \in Text
     /\ v.kind = "sz" /\ v.size % 2 = 0 => v.size = 2 * Len(v.text)

Properties == {"name", "manufacturer", "location", "friendly"}

IsSeq(s) == Len(s) \in Nat /\ DOMAIN s = 1 .. Len(s)

ASSUME ListingAssumption ==
  /\ DOMAIN Order \subseteq Nat
  /\ \A s \in Systems :
       /\ s.ports \in Seq(PortSet)
       /\ \A i, j \in DOMAIN s.ports :
            s.ports[i].path = s.ports[j].path => i = j
       /\ s.os # "linux" => s.byId = <<>>
  /\ \A l \in DOMAIN Capital :
       Capital[l] \in DOMAIN Capital /\ Capital[Capital[l]] = Capital[l]
  /\ IsSeq(Classes) /\ \A c \in DOMAIN Classes : IsSeq(Classes[c])
  /\ \A c \in DOMAIN Classes : \A i \in DOMAIN Classes[c] :
       /\ Classes[c][i].pnpId \in IdSet
       /\ Classes[c][i].parentId \in IdSet \cup {None}
       /\ \A p \in Properties : IsValue(Classes[c][i].values[p])
  /\ \A p \in Properties : \A v \in Values[p] : IsValue(v)
  /\ MaxSize \in Nat /\ MaxChanges \in Nat

VARIABLES
  kind, pc,
  platform, options, iossiospeed, line, saved, stored, handles, exclusive,
  disturbed, baudRate, reported, ops,
  system, result, class, index, field, room, target, metadata, registry, held,
  changes

openingVars == <<platform, options, iossiospeed, line, saved, stored, handles,
                 exclusive, disturbed, baudRate, reported, ops>>
listingVars == <<system, result, class, index, field, room, target, metadata,
                 registry, held, changes>>
vars == <<kind, pc, openingVars, listingVars>>

Opening == INSTANCE PortOpening
Listing == INSTANCE PortListing

NoOpening ==
  /\ platform = None /\ options = None /\ iossiospeed = FALSE /\ line = None
  /\ saved = None /\ stored = 0 /\ handles = {} /\ exclusive = FALSE
  /\ disturbed = FALSE /\ baudRate = 0 /\ reported = 0 /\ ops = 0

NoListing ==
  /\ system = None /\ result = <<>> /\ class = 0 /\ index = 0 /\ field = None
  /\ room = 0 /\ target = 0 /\ metadata = None /\ registry = None
  /\ held = {} /\ changes = 0

Init ==
  \/ kind = "open" /\ Opening!InitOpening /\ NoListing
  \/ kind = "list" /\ Listing!InitListing /\ NoOpening

Open == kind = "open" /\ Opening!NextOpening /\ UNCHANGED <<kind, listingVars>>
List == kind = "list" /\ Listing!NextListing /\ UNCHANGED <<kind, openingVars>>

Next == Open \/ List

Spec == Init /\ [][Next]_vars

-----------------------------------------------------------------------------
(* An open port has the settings that were asked for and acknowledged, and *)
(* exactly its handles; an open that fails leaves none (settings.rs).      *)
OpeningExact == kind = "open" => Opening!SettingsExact /\ Opening!HandlesExact

(* A listing has the ports of the crate, each with the identity of one     *)
(* device and with strings that are whole; none is lost (ListTask).        *)
ListingExact == kind = "list" => Listing!StringsWhole /\ Listing!ListingExact
=============================================================================
