----------------------------- MODULE MCDevices -----------------------------
(* Designs of up to three devices, in all arrangements of names that begin  *)
(* with one another, and of what they are.                                   *)
EXTENDS Devices

MCNames == UNION {[1..n -> {1, 2}] : n \in 1..3}
Few == {<<1>>, <<1, 1>>, <<1, 2>>, <<2, 1>>, <<1, 2, 1>>, <<2>>}

Kind(nbytes, req, ro, typecode) ==
  [nbytes |-> nbytes, req |-> req, ro |-> ro, typecode |-> typecode]

\* A register, a read-only block with a named register, two Ethernet cores at
\* requested offsets.
MCKinds == {Kind(6, NoReq, FALSE, 0), Kind(8, NoReq, TRUE, 0),
            Kind(12, 0, FALSE, 1), Kind(12, 12, FALSE, 1)}

Regs(name, k) ==
  IF k.ro THEN {[name |-> Append(name, 3), offset |-> 4, nbytes |-> 4, ro |-> TRUE]} ELSE {}

Device(name, k) ==
  [name |-> name, nbytes |-> k.nbytes, req |-> k.req, ro |-> k.ro,
   typecode |-> k.typecode, regs |-> Regs(name, k)]

OfNames(ns) == {{Device(n, f[n]) : n \in ns} : f \in [ns -> MCKinds]}

\* Two devices do not ask for the same offset.
Apart(ds) == \A d, e \in ds : d # e /\ d.req # NoReq => d.req # e.req

MCDesigns ==
  {ds \in UNION {OfNames(ns) : ns \in {s \in SUBSET Few : Cardinality(s) \in 0..3}} : Apart(ds)}

PairDesigns == {ds \in OfNames({<<1>>, <<2>>}) : Apart(ds)}
=============================================================================
