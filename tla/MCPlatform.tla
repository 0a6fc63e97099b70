----------------------------- MODULE MCPlatform -----------------------------
(* A device to open on each platform, and two ports, C1 and C10, in the    *)
(* listings of each: on Windows three devices, two of them called c1.      *)
EXTENDS Platform
MCOptions ==
  {[path |-> p, baudRate |-> b, dataBits |-> d, stopBits |-> s, parity |-> y,
    lock |-> l, rtscts |-> r, xon |-> x, xoff |-> f, xany |-> ~f,
    hupcl |-> f = x] :
      p \in {"device", "invalid"}, b \in {0, 3}, d \in {4, 8}, s \in 2 .. 4,
      y \in {"none", "odd", "mark", "space"}, l, r, x, f \in BOOLEAN}
MCLines ==
  {[dataBits |-> 7, stopBits |-> s, parity |-> "even", sticky |-> c,
    cts |-> c, rts |-> ~c, xon |-> c, xoff |-> c, xany |-> c, hupcl |-> c,
    rate |-> 2] : s \in {2, 4}, c \in BOOLEAN}

C1 == <<"C", "1">>
C10 == <<"C", "1", "0">>
MCOrder == <<C1, C10>>

Port(path) ==
  [path |-> path, vendorId |-> None, productId |-> None, serialNumber |-> None,
   manufacturer |-> None, product |-> None, iokit |-> None]
Usb(path, iokit) ==
  [path |-> path, vendorId |-> <<"a">>, productId |-> <<"c">>,
   serialNumber |-> <<"1">>, manufacturer |-> <<"0">>, product |-> <<"1">>,
   iokit |-> iokit]
Ports == <<Usb(C10, None), Port(C1)>>
MCSystems ==
  {[os |-> "linux", ports |-> Ports,
    byId |-> <<[name |-> 1, path |-> C1], [name |-> 2, path |-> C1]>>],
   [os |-> "macos", byId |-> <<>>,
    ports |-> <<Usb(C10, <<1, 4, 3, 2, 0, 0, 0, 0>>),
                Usb(C1, <<1, 2, 0, 3, 0, 0, 0, 0>>)>>],
   [os |-> "windows", ports |-> <<>>, byId |-> <<>>],
   [os |-> "windows", ports |-> Ports, byId |-> <<>>]}

Sz(text) == [kind |-> "sz", size |-> 2 * Len(text), text |-> text]
Id(bus, vendor, serial) ==
  [bus |-> bus, wellFormed |-> bus # "other", vendor |-> vendor,
   product |-> <<"c">>, channel |-> serial, instance |-> serial,
   interface |-> FALSE]
Device(name, pnpId, parentId) ==
  [pnpId |-> pnpId, parentId |-> parentId,
   values |-> [name |-> name, manufacturer |-> Sz(<<"a", "nul">>),
               location |-> None, friendly |-> None]]
MCClasses ==
  <<<<Device(Sz(<<"c", "1", "nul">>), Id("ftdi", <<"a">>, <<"1", "A">>),
             Id("usb", <<"A">>, <<"0">>)),
      Device(Sz(<<"c", "1", "nul">>),
             [Id("usb", <<"0">>, <<"1">>) EXCEPT !.interface = TRUE],
             Id("usb", <<"a">>, <<"0">>))>>,
    <<Device(None, Id("other", <<"a">>, <<"1">>), None)>>>>
MCValues ==
  [name |-> {None, Sz(C10), Sz(<<"c", "1", "nul", "0">>)},
   manufacturer |-> {None, Sz(<<"a", "c", "0", "nul">>),
                     [Sz(<<"c", "c">>) EXCEPT !.kind = "multi"],
                     [Sz(<<"0", "1">>) EXCEPT !.size = 3]},
   location |-> {Sz(<<"1", "1">>), Sz(<<"1", "1", "1", "1", "1">>)},
   friendly |-> {Sz(<<"1">>)}]
MCCapital ==
  [l \in {"a", "c", "A", "C", "0", "1", "nul"} |->
     CASE l = "a" -> "A" [] l = "c" -> "C" [] OTHER -> l]
=============================================================================
