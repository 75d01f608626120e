---------------------------- MODULE AddressSpace ----------------------------
(***************************************************************************)
(* The guest address space (src/src/x86sim/addrspace.cpp): a sparse set of *)
(* mapped pages and, apart from it, one shadow bit map for each of read,   *)
(* write, execute and dirty.  The module has no state of its own: an       *)
(* address space is a record and every member function an operator on it,  *)
(* because a system call performs several of them in a row.                *)
(*                                                                         *)
(* Addresses count units of which a page has PageSize, so that unaligned   *)
(* addresses and lengths exist.  Top stands for 2^64.  The shadow maps     *)
(* index the page number modulo NumPages, which stands for the 48 bits the *)
(* code keeps of an address.                                               *)
(***************************************************************************)
EXTENDS Integers, FiniteSets, Functions

CONSTANTS PageSize,    \* units in a page (kPageSize)
          NumPages,    \* pages below 2^48 (address_space_size)
          TotalPages   \* pages below 2^64

ASSUME AddressAssumption ==
  /\ PageSize \in Nat \ {0}
  /\ NumPages \in Nat \ {0}
  /\ TotalPages \in Nat
  /\ TotalPages > NumPages

Top == TotalPages * PageSize

(* The function f, and g where f has no value; the function f with v at x. *)
Override(f, g) == [x \in DOMAIN f \cup DOMAIN g |-> IF x \in DOMAIN f THEN f[x] ELSE g[x]]

With(f, x, v) == [z \in DOMAIN f \cup {x} |-> IF z = x THEN v ELSE f[z]]

PageOf(a) == a \div PageSize

page_floor(a) == a - (a % PageSize)

RoundDown(v) == page_floor(v)

(* page_ceil returns nothing when the sum wraps; Ceilable is that test. *)
Ceilable(v) == v <= Top - PageSize

page_ceil(v) == page_floor(v + PageSize - 1)

range_overflows(start, size) == size # 0 /\ start > Top - size

page_aligned(a) == a % PageSize = 0

(* The pages from the one of address lo up to but not including hi. *)
PagesOf(lo, hi) == {p \in 0 .. TotalPages - 1 : PageOf(lo) <= p /\ p * PageSize < hi}

(* The units of a set of pages. *)
UnitsOf(ps) == UNION {p * PageSize .. (p + 1) * PageSize - 1 : p \in ps}

(* AddressSpace(): mapped_mem_ and the four shadow maps are empty. *)
EmptySpace == [mem |-> [a \in {} |-> 0],
               readmap |-> {}, writemap |-> {}, execmap |-> {}, dirtymap |-> {}]

MappedPages(s) == {PageOf(a) : a \in DOMAIN s.mem}

(* The shadow maps are indexed by the low 48 bits of the address. *)
pageid(p) == p % NumPages

protection_at(s, p) == (IF pageid(p) \in s.readmap THEN {"r"} ELSE {})
                   \cup (IF pageid(p) \in s.writemap THEN {"w"} ELSE {})
                   \cup (IF pageid(p) \in s.execmap THEN {"x"} ELSE {})

(* make_accessible and make_inaccessible of one shadow map. *)
Shadow(bits, ps, on) == LET ids == {pageid(p) : p \in ps}
                        IN  IF on THEN bits \cup ids ELSE bits \ ids

setattr(s, ps, prot) ==
  [s EXCEPT !.readmap = Shadow(@, ps, "r" \in prot),
            !.writemap = Shadow(@, ps, "w" \in prot),
            !.execmap = Shadow(@, ps, "x" \in prot)]

(* insert_or_assign of a fresh zeroed page: what was mapped there is gone. *)
FreshPages(s, ps) == [s EXCEPT !.mem = Override([a \in UnitsOf(ps) |-> 0], @)]

(* map_or_throw rounds the start down and the size up, separately. *)
MapPages(start, size) == PagesOf(page_floor(start), page_floor(start) + page_ceil(size))

map_or_throw(s, start, size, prot) ==
  setattr(FreshPages(s, MapPages(start, size)), MapPages(start, size), prot)

(* map() that runs out of memory after the first k pages: those are        *)
(* replaced, but neither setattr nor the invalidation is reached.          *)
MapBadAlloc(s, start, k) ==
  FreshPages(s, PagesOf(page_floor(start), page_floor(start) + k * PageSize))

(* unmap() and protect() round the start down before they add the size. *)
SpanPages(start, size) == PagesOf(page_floor(start), page_ceil(page_floor(start) + size))

UnmapKeepsAttributes(s, start, size) ==
  IF size = 0 \/ range_overflows(start, size) \/ ~Ceilable(page_floor(start) + size)
    THEN s
    ELSE [s EXCEPT !.mem = Restrict(@, DOMAIN @ \ UnitsOf(SpanPages(start, size)))]

unmap(s, start, size) ==
  IF size = 0 \/ range_overflows(start, size) \/ ~Ceilable(page_floor(start) + size)
    THEN s
    ELSE setattr([s EXCEPT !.mem = Restrict(@, DOMAIN @ \ UnitsOf(SpanPages(start, size)))],
                 SpanPages(start, size), {})

ProtectError(s, start, size) ==
  IF size = 0 THEN "zero_size"
  ELSE IF \/ range_overflows(start, size)
          \/ ~Ceilable(page_floor(start) + size)
          \/ ~(SpanPages(start, size) \subseteq MappedPages(s)) THEN "unmapped_address"
  ELSE "none"

protect(s, start, size, prot) == setattr(s, SpanPages(start, size), prot)

(* read() and write() look at mapped_mem_ only, not at the protection. *)
AccessError(s, start, n) ==
  IF n = 0 THEN "zero_size"
  ELSE IF range_overflows(start, n) \/ ~(start .. start + n - 1 \subseteq DOMAIN s.mem)
    THEN "unmapped_address"
  ELSE "none"

(* write() copies page after page and stops at the first unmapped one.  It *)
(* neither sets the dirty bit nor invalidates decoded code.                *)
Written(s, start, n) ==
  IF n = 0 \/ range_overflows(start, n) THEN {}
  ELSE {a \in start .. start + n - 1 : start .. a \subseteq DOMAIN s.mem}

write(s, start, n, v) == [s EXCEPT !.mem = Override([a \in Written(s, start, n) |-> v], @)]

FirstPageOnly(s, start, block) ==
  [s EXCEPT !.mem = Override([a \in Written(s, start, PageSize) |-> block[a - start]], @)]

(* write() of a copied block rather than of one value. *)
WriteBlock(s, start, block) ==
  [s EXCEPT !.mem = Override([a \in Written(s, start, Cardinality(DOMAIN block)) |->
                                block[a - start]], @)]

check(s, p, prot) == prot = {} \/ (p < NumPages /\ prot \subseteq protection_at(s, p))

setdirty(s, ps) == [s EXCEPT !.dirtymap = @ \cup {pageid(p) : p \in ps}]

cleardirty(s, ps) == [s EXCEPT !.dirtymap = @ \ {pageid(p) : p \in ps}]

(* invalidate_decoded_code(): the pages whose blocks map(), unmap() and    *)
(* protect() drop from the machine's cache, and clean.                     *)
InvalidatedPages(start, size) ==
  IF size = 0 THEN {} ELSE PagesOf(page_floor(start), start + size)
=============================================================================
