---------------------------- MODULE AddressMapping ----------------------------
(* Slices of an address (inc/address.h, inc/extent.h) and the extents by which *)
(* the memory controller takes an address apart (DRAM_ADDRESS_MAPPING). A      *)
(* slice is cut, cast and moved as the simulator does it; next to it the model *)
(* keeps the whole address it stands for.                                      *)
EXTENDS Integers, Sequences, FiniteSetsExt, Bitwise

CONSTANTS
  ADDR_BITS,         \* width of an address
  BLOCK_BYTES,
  AddressValues,     \* the addresses a slice starts from
  Extents,           \* <<upper, lower>> given to slice() and to the casts
  Deltas,            \* what is added to a slice
  Geometries,        \* parameters of DRAM_ADDRESS_MAPPING
  MaxAddressSteps

(* swizzle_bits never returns when its segments are of no bits. *)
ASSUME SegmentsAssumption == \A g \in Geometries : g.bankgroups * g.banks > 1

VARIABLES
  view,      \* the slice: [upper, lower, value]
  whole,     \* the address the slice stands for
  geometry,
  addressSteps
addressVars == <<view, whole, geometry, addressSteps>>

Lowest(x, y) == IF x < y THEN x ELSE y
Most(x, y) == IF x < y THEN y ELSE x

-------------------------------------------------------------------------------
Extent(up, low) == [upper |-> up, lower |-> low]
Width(ext) == ext.upper - ext.lower

Within(ext, sub) ==
  Extent(ext.lower + Lowest(sub.upper, Width(ext)), ext.lower + Lowest(sub.lower, Width(ext)))

Hull(l, r) == Extent(Most(l.upper, r.upper), Lowest(l.lower, r.lower))

(* The value of one extent in the place it has in another. *)
Translated(v, from, to) ==
  IF from.lower <= to.lower THEN v \div 2^(to.lower - from.lower) ELSE v * 2^(from.lower - to.lower)

(* Bits up to low of v, up excluded. *)
Masked(v, up, low) == (v \div 2^low) % 2^(up - low)

SliceOf(ext, v) == [upper |-> ext.upper, lower |-> ext.lower, value |-> Masked(v, Width(ext), 0)]

(* The bits of s that ext selects, zero where s has none. *)
Cast(ext, s) ==
  [upper |-> ext.upper, lower |-> ext.lower,
   value |-> Masked(s.value * 2^s.lower, ext.upper, ext.lower)]

Sub(s, sub) == SliceOf(Within(s, sub), s.value \div 2^sub.lower)

SliceUpper(s, low) == Sub(s, Extent(ADDR_BITS, low))
SliceLower(s, up) == Sub(s, Extent(up, 0))

Moved(s, delta) == SliceOf(s, s.value + delta)

(* Slices of different extents are not compared: std::invalid_argument. *)
Comparable(s, t) == s.upper = t.upper /\ s.lower = t.lower

(* offset() throws std::overflow_error when the distance is no difference_type. *)
Distance(base, other) == other.value - base.value
DistanceFits(base, other) ==
  LET d == Distance(base, other)
  IN  Comparable(base, other) /\ d < 2^(ADDR_BITS - 1) /\ -d < 2^(ADDR_BITS - 1)

(* The bits of lower within [up, low) and those of upper elsewhere. *)
SpliceBits(upper, lower, up, low) ==
  upper + (Masked(lower, up, low) - Masked(upper, up, low)) * 2^low

Splice(l, r) ==
  LET all == Hull(l, r)
  IN  SliceOf(all, SpliceBits(Translated(l.value, l, all), Translated(r.value, r, all),
                              r.upper - all.lower, r.lower - all.lower))

-------------------------------------------------------------------------------
RECURSIVE lg2(_)
lg2(n) == IF n <= 1 THEN 0 ELSE 1 + lg2(n \div 2)

Fields == <<"offset", "channel", "bankgroup", "bank", "column", "rank", "row">>

FieldBits(g) ==
  [offset |-> lg2(g.channel_width * g.prefetch_size), channel |-> lg2(g.channels),
   bankgroup |-> lg2(g.bankgroups), bank |-> lg2(g.banks),
   column |-> lg2(g.columns \div g.prefetch_size), rank |-> lg2(g.ranks), row |-> lg2(g.rows)]

(* Field i lies directly above the fields before it. *)
Slicer(g) ==
  LET bits == FieldBits(g)
      lowest(i) == MapThenSumSet(LAMBDA j : bits[Fields[j]], 1 .. i - 1)
  IN  [f \in DOMAIN bits |->
         LET i == CHOOSE k \in 1 .. 7 : Fields[k] = f
         IN  Extent(lowest(i) + bits[f], lowest(i))]

BitSize(g) == Slicer(g)["row"].upper

(* What the extents have room for. *)
Sizes(g) ==
  LET bits == FieldBits(g)
  IN  [rows |-> 2^bits.row, columns |-> g.prefetch_size * 2^bits.column, ranks |-> 2^bits.rank,
       bankgroups |-> 2^bits.bankgroup, banks |-> 2^bits.bank, channels |-> 2^bits.channel]

(* The assertions of the constructor. *)
Mappable(g) ==
  /\ g.prefetch_size # 0
  /\ (g.channel_width * g.prefetch_size) % BLOCK_BYTES = 0
  /\ \A size \in DOMAIN Sizes(g) : Sizes(g)[size] = g[size]

Raw(g, f, a) == Cast(Slicer(g)[f], a).value

(* The row is cut into segments; bits [from, from + width) of each are folded in. *)
Swizzle_WholeSegment(g, a, segment, from, field, width) ==   \* mutant
  LET row == Cast(Slicer(g)["row"], a)
      cuts == {k * segment : k \in 0 .. row.upper \div segment - 1}
  IN  FoldSet(LAMBDA k, v : v ^^ Sub(row, Extent(k + segment, k)).value, field, cuts)
Swizzle(g, a, segment, from, field, width) ==
  LET row == Cast(Slicer(g)["row"], a)
      cuts == {k * segment : k \in 0 .. row.upper \div segment - 1}
  IN  FoldSet(LAMBDA k, v : v ^^ Sub(Sub(row, Extent(k + segment, k)), Extent(from + width, from)).value,
              field, cuts)

Coordinates(g, a) ==
  LET bits == FieldBits(g)
      both == bits.bankgroup + bits.bank
  IN  [channel   |-> Swizzle(g, a, 1, 0, Raw(g, "channel", a), bits.channel),
       rank      |-> Raw(g, "rank", a),
       bankgroup |-> Swizzle(g, a, both, 0, Raw(g, "bankgroup", a), bits.bankgroup),
       bank      |-> Swizzle(g, a, both, bits.bankgroup, Raw(g, "bank", a), bits.bank),
       row       |-> Raw(g, "row", a),
       column    |-> Raw(g, "column", a)]

(* The bank_request of a channel that serves the coordinates. *)
BankIndex(g, c) == (c.rank * g.bankgroups + c.bankgroup) * g.banks + c.bank

IsCollision(g, a, b) ==
  SliceUpper(a, FieldBits(g).offset).value = SliceUpper(b, FieldBits(g).offset).value

-------------------------------------------------------------------------------
Address(v) == SliceOf(Extent(ADDR_BITS, 0), v)

AddressInit ==
  /\ whole \in AddressValues
  /\ view = Address(whole)
  /\ geometry \in {g \in Geometries : Mappable(g)}
  /\ addressSteps = 0

(* The part of v that the extent of s covers. *)
Covered(s, v) == Masked(v, s.upper, s.lower) * 2^s.lower

CutSlice(sub) ==
  /\ view' = Sub(view, sub)
  /\ UNCHANGED whole

CastSlice(ext) ==
  /\ view' = Cast(ext, view)
  /\ whole' = Covered(view, whole)

MoveSlice(delta) ==
  /\ view' = Moved(view, delta)
  /\ whole' = (whole + delta * 2^view.lower) % 2^ADDR_BITS

JoinHalves(at) ==
  /\ view' = Splice(SliceUpper(view, at), SliceLower(view, at))
  /\ UNCHANGED whole

AddressNext ==
  /\ addressSteps < MaxAddressSteps
  /\ addressSteps' = addressSteps + 1
  /\ UNCHANGED geometry
  /\ \/ \E e \in Extents : CutSlice(Extent(e[1], e[2])) \/ CastSlice(Extent(e[1], e[2]))
     \/ \E d \in Deltas : MoveSlice(d)
     \/ \E at \in 0 .. Width(view) : JoinHalves(at)

-------------------------------------------------------------------------------
Below(g) == 0 .. 2^BitSize(g) - 1
InBounds(g, c) ==
  /\ c.channel < g.channels /\ c.rank < g.ranks /\ c.bankgroup < g.bankgroups
  /\ c.bank < g.banks /\ BankIndex(g, c) < g.ranks * g.banks * g.bankgroups
  /\ c.row < g.rows /\ c.column * g.prefetch_size < g.columns

(* However an address has been cut, cast, moved and joined, the slice holds    *)
(* the bits of its extent of the address it stands for (address.h), and the    *)
(* distance between two slices leads from one to the other. And no two blocks  *)
(* of the memory share a channel, rank, bank, row and column                   *)
(* (dram_controller.cc: the folding of row bits into the other fields is one   *)
(* to one), so requests that is_collision keeps apart are never merged.        *)
AddressesKeepTheirBits ==
  /\ view.value * 2^view.lower = Covered(view, whole)
  /\ \A v \in {0, 1, 2^Width(view) - 1} :
       LET other == SliceOf(view, v)
       IN  DistanceFits(view, other) => Moved(view, Distance(view, other)) = other
  /\ (Width(view) = ADDR_BITS /\ whole \in Below(geometry)) =>
       LET here == Coordinates(geometry, view)
       IN  /\ InBounds(geometry, here)
           /\ \A b \in Below(geometry) :
                (Coordinates(geometry, Address(b)) = here) <=> IsCollision(geometry, view, Address(b))
===============================================================================
