--------------------------- MODULE LinuxHostProofs ---------------------------
(***************************************************************************)
(* What a guest process under the Linux front end may rely on, for every   *)
(* program, every number of descriptors and pages, and every answer of the *)
(* host: its descriptors, the counts of its transfers, its memory, and the *)
(* program and stack it finds when it starts.                              *)
(***************************************************************************)
EXTENDS LinuxHost, FiniteSetTheorems, WellFoundedInduction, TLAPS

-----------------------------------------------------------------------------
\* Operators on tables.

\* The lowest of a set of numbers is one of them.
LEMMA LowestIn ==
  ASSUME NEW S \in SUBSET Nat, S # {}
  PROVE  Lowest(S) \in S
<1> DEFINE R == OpToRel(<, Nat)
<1>1. PICK c \in S : \A d \in S : ~(<<d, c>> \in R)
  <2> HIDE DEF R
  <2> QED
    BY WFMin, NatLessThanWellFounded DEF R
<1>2. ASSUME NEW d \in S PROVE c <= d
  <2>1. c \in Nat /\ d \in Nat
    OBVIOUS
  <2>2. d < c => <<d, c>> \in R
    BY <2>1 DEF OpToRel
  <2> HIDE DEF R
  <2>3. ~(d < c)
    BY <1>1, <2>2
  <2> QED
    BY <2>1, <2>3
<1> QED
  BY <1>2 DEF Lowest

-----------------------------------------------------------------------------
\* The descriptor table and the open host descriptors.

\* A table t owns the host descriptors of open: one guest descriptor each.
Owns(t, open) ==
  /\ \A a, b \in DOMAIN t : t[a] = t[b] => a = b
  /\ \A a \in DOMAIN t : t[a] \in DOMAIN open
  /\ \A h \in DOMAIN open : \E a \in DOMAIN t : t[a] = h

\* The pipe map names write ends and the read ends of the same pipe.
Names(map, open) ==
  \A w \in DOMAIN map :
    /\ w \in DOMAIN open /\ map[w] \in DOMAIN open
    /\ open[w].kind = "write_end"
    /\ open[map[w]] = [kind |-> "read_end", pipe |-> open[w].pipe]

LEMMA OwnsFree ==
  ASSUME NEW t, NEW open, Owns(t, open), NEW g, g \notin DOMAIN t,
         NEW h, h \notin DOMAIN open, NEW what
  PROVE  Owns(With(t, g, h), With(open, h, what))
<1> DEFINE u == With(t, g, h)
           o == With(open, h, what)
<1>1. DOMAIN u = DOMAIN t \cup {g} /\ u[g] = h /\ \A z \in DOMAIN t : u[z] = t[z]
  BY DEF With
<1>2. DOMAIN o = DOMAIN open \cup {h}
  BY DEF With
<1> HIDE DEF u, o
<1>3. \A a, b \in DOMAIN u : u[a] = u[b] => a = b
  BY <1>1 DEF Owns
<1>4. \A a \in DOMAIN u : u[a] \in DOMAIN o
  BY <1>1, <1>2 DEF Owns
<1>5. ASSUME NEW k \in DOMAIN o PROVE \E a \in DOMAIN u : u[a] = k
  BY <1>1, <1>2 DEF Owns
<1>6. Owns(u, o)
  BY <1>3, <1>4, <1>5 DEF Owns
<1> QED
  BY <1>6 DEF u, o

LEMMA OwnsReplaced ==
  ASSUME NEW t, NEW open, Owns(t, open), NEW g \in DOMAIN t,
         NEW h, h \notin DOMAIN open, NEW what
  PROVE  Owns(With(t, g, h), Without(With(open, h, what), t[g]))
<1> DEFINE u == With(t, g, h)
           o == Without(With(open, h, what), t[g])
<1>1. DOMAIN u = DOMAIN t /\ u[g] = h /\ \A z \in DOMAIN t \ {g} : u[z] = t[z]
  BY DEF With
<1>2. DOMAIN o = (DOMAIN open \cup {h}) \ {t[g]}
  BY DEF With, Without, Restrict
<1>3. t[g] # h
  BY DEF Owns
<1> HIDE DEF u, o
<1>4. \A a, b \in DOMAIN u : u[a] = u[b] => a = b
  BY <1>1 DEF Owns
<1>5. ASSUME NEW a \in DOMAIN u PROVE u[a] \in DOMAIN o
  <2>1. CASE a = g
    BY <1>1, <1>2, <1>3, <2>1
  <2>2. CASE a # g
    BY <1>1, <1>2, <2>2 DEF Owns
  <2> QED
    BY <2>1, <2>2
<1>6. ASSUME NEW k \in DOMAIN o PROVE \E a \in DOMAIN u : u[a] = k
  <2>1. CASE k = h
    BY <1>1, <2>1
  <2>2. CASE k # h
    <3>1. k \in DOMAIN open /\ k # t[g]
      BY <1>2, <2>2
    <3>2. PICK a \in DOMAIN t : t[a] = k
      BY <3>1 DEF Owns
    <3> QED
      BY <3>1, <3>2, <1>1
  <2> QED
    BY <2>1, <2>2
<1>7. Owns(u, o)
  BY <1>4, <1>5, <1>6 DEF Owns
<1> QED
  BY <1>7 DEF u, o

LEMMA OwnsClosed ==
  ASSUME NEW t, NEW open, Owns(t, open), NEW g \in DOMAIN t
  PROVE  Owns(Without(t, g), Without(open, t[g]))
<1> DEFINE u == Without(t, g)
           o == Without(open, t[g])
<1>1. DOMAIN u = DOMAIN t \ {g} /\ \A z \in DOMAIN t \ {g} : u[z] = t[z]
  BY DEF Without, Restrict
<1>2. DOMAIN o = DOMAIN open \ {t[g]}
  BY DEF Without, Restrict
<1> HIDE DEF u, o
<1>3. \A a, b \in DOMAIN u : u[a] = u[b] => a = b
  BY <1>1 DEF Owns
<1>4. \A a \in DOMAIN u : u[a] \in DOMAIN o
  BY <1>1, <1>2 DEF Owns
<1>5. ASSUME NEW k \in DOMAIN o PROVE \E a \in DOMAIN u : u[a] = k
  <2>1. PICK a \in DOMAIN t : t[a] = k
    BY <1>2 DEF Owns
  <2> QED
    BY <1>1, <1>2, <2>1
<1>6. Owns(u, o)
  BY <1>3, <1>4, <1>5 DEF Owns
<1> QED
  BY <1>6 DEF u, o

\* A host descriptor that was not open changes nothing that the map names.
LEMMA NamesOpened ==
  ASSUME NEW map, NEW open, Names(map, open), NEW h, h \notin DOMAIN open, NEW what
  PROVE  Names(map, With(open, h, what))
  BY DEF Names, With

\* Closing a host descriptor after the map has forgotten it.
LEMMA NamesClosed ==
  ASSUME NEW map, NEW open, Names(map, open), NEW h
  PROVE  Names(forget_fd_wait_state(map, h), Without(open, h))
<1> DEFINE m == forget_fd_wait_state(map, h)
           o == Without(open, h)
<1>1. /\ DOMAIN m = {w \in DOMAIN map : w # h /\ map[w] # h}
      /\ \A w \in DOMAIN m : m[w] = map[w]
  BY DEF forget_fd_wait_state, Restrict
<1>2. DOMAIN o = DOMAIN open \ {h} /\ \A z \in DOMAIN open \ {h} : o[z] = open[z]
  BY DEF Without, Restrict
<1> HIDE DEF m, o
<1>3. ASSUME NEW w \in DOMAIN m
      PROVE  /\ w \in DOMAIN o /\ m[w] \in DOMAIN o
             /\ o[w].kind = "write_end"
             /\ o[m[w]] = [kind |-> "read_end", pipe |-> o[w].pipe]
  <2>1. w \in DOMAIN map /\ w # h /\ map[w] # h /\ m[w] = map[w]
    BY <1>1
  <2>2. /\ w \in DOMAIN open /\ map[w] \in DOMAIN open /\ open[w].kind = "write_end"
        /\ open[map[w]] = [kind |-> "read_end", pipe |-> open[w].pipe]
    BY <2>1 DEF Names
  <2>3. w \in DOMAIN o /\ map[w] \in DOMAIN o /\ o[w] = open[w] /\ o[map[w]] = open[map[w]]
    BY <1>2, <2>1, <2>2
  <2> QED
    BY <2>1, <2>2, <2>3
<1>4. Names(m, o)
  BY <1>3 DEF Names
<1> QED
  BY <1>4 DEF m, o

\* The duplicate of a write end is one of the same pipe.
LEMMA NamesCopied ==
  ASSUME NEW map, NEW open, Names(map, open), NEW old, NEW new \in DOMAIN open,
         new \notin DOMAIN map,
         old \in DOMAIN map => open[new] = open[old]
  PROVE  Names(copy_pipe_write_mapping(map, old, new), open)
<1>1. CASE old \notin DOMAIN map
  BY <1>1 DEF copy_pipe_write_mapping
<1>2. CASE old \in DOMAIN map
  <2> DEFINE m == With(map, new, map[old])
  <2>1. /\ DOMAIN m = DOMAIN map \cup {new} /\ m[new] = map[old]
        /\ \A z \in DOMAIN map : m[z] = map[z]
    BY DEF With
  <2>2. copy_pipe_write_mapping(map, old, new) = m
    BY <1>2 DEF copy_pipe_write_mapping
  <2> HIDE DEF m
  <2>3. Names(m, open)
    BY <1>2, <2>1 DEF Names
  <2> QED
    BY <2>2, <2>3
<1> QED
  BY <1>1, <1>2

LEMMA NamesPipe ==
  ASSUME NEW map, NEW open, Names(map, open), NEW w, w \notin DOMAIN open,
         NEW r, r \notin DOMAIN open, r # w, NEW p
  PROVE  Names(With(map, w, r),
               With(With(open, w, [kind |-> "write_end", pipe |-> p]),
                    r, [kind |-> "read_end", pipe |-> p]))
<1> DEFINE m == With(map, w, r)
           o1 == With(open, w, [kind |-> "write_end", pipe |-> p])
           o == With(o1, r, [kind |-> "read_end", pipe |-> p])
<1>1. DOMAIN m = DOMAIN map \cup {w} /\ m[w] = r /\ \A z \in DOMAIN map \ {w} : m[z] = map[z]
  BY DEF With
<1>2. /\ DOMAIN o1 = DOMAIN open \cup {w} /\ o1[w] = [kind |-> "write_end", pipe |-> p]
      /\ \A z \in DOMAIN open \ {w} : o1[z] = open[z]
  BY DEF With
<1> HIDE DEF m, o1
<1>3. /\ DOMAIN o = DOMAIN o1 \cup {r} /\ o[r] = [kind |-> "read_end", pipe |-> p]
      /\ \A z \in DOMAIN o1 \ {r} : o[z] = o1[z]
  BY DEF With
<1> HIDE DEF o
<1>4. w \notin DOMAIN map
  BY DEF Names
<1>5. ASSUME NEW x \in DOMAIN m
      PROVE  /\ x \in DOMAIN o /\ m[x] \in DOMAIN o
             /\ o[x].kind = "write_end"
             /\ o[m[x]] = [kind |-> "read_end", pipe |-> o[x].pipe]
  <2>1. CASE x = w
    <3>1. m[x] = r /\ r \in DOMAIN o /\ o[r] = [kind |-> "read_end", pipe |-> p]
      BY <1>1, <1>3, <2>1
    <3>2. x \in DOMAIN o /\ o[x] = [kind |-> "write_end", pipe |-> p]
      BY <1>2, <1>3, <2>1
    <3> QED
      BY <3>1, <3>2
  <2>2. CASE x # w
    <3>1. x \in DOMAIN map /\ m[x] = map[x]
      BY <1>1, <2>2
    <3>2. /\ x \in DOMAIN open /\ map[x] \in DOMAIN open /\ open[x].kind = "write_end"
          /\ open[map[x]] = [kind |-> "read_end", pipe |-> open[x].pipe]
      BY <3>1 DEF Names
    <3>3. x \in DOMAIN o /\ map[x] \in DOMAIN o /\ o[x] = open[x] /\ o[map[x]] = open[map[x]]
      BY <1>2, <1>3, <3>2
    <3> QED
      BY <3>1, <3>2, <3>3
  <2> QED
    BY <2>1, <2>2
<1>6. Names(m, o)
  BY <1>5 DEF Names
<1> QED
  BY <1>6 DEF m, o, o1

(***************************************************************************)
(* The descriptor table of the guest, also when it is the standard one     *)
(* because it was never looked at, owns the open host descriptors; the     *)
(* pipe map names open ends.                                               *)
(***************************************************************************)
FdInv ==
  /\ DOMAIN fds \subseteq GuestFd
  /\ DOMAIN host \subseteq HostFd
  /\ Owns(fd_table, host)
  /\ Names(pipe_map, host)

\* The calls that at most look at the table.
FdHeld == fds' \in {fds, fd_table} /\ UNCHANGED <<host, pipe_map>>

LEMMA TableDomain ==
  ASSUME DOMAIN fds \subseteq GuestFd
  PROVE  DOMAIN fd_table \subseteq GuestFd /\ DOMAIN fd_table # {}
<1>1. CASE DOMAIN fds = {}
  <2>1. DOMAIN fd_table = 0 .. 2
    BY <1>1 DEF fd_table, Stdio
  <2>2. 0 \in 0 .. 2
    OBVIOUS
  <2> QED
    BY <2>1, <2>2, DescriptorAssumption
<1>2. CASE DOMAIN fds # {}
  BY <1>2 DEF fd_table
<1> QED
  BY <1>1, <1>2

LEMMA FdHeldInv ==
  ASSUME FdInv, FdHeld
  PROVE  FdInv'
<1>1. fd_table' = fd_table
  BY DEF FdHeld, fd_table, Stdio
<1>2. DOMAIN fds' \subseteq GuestFd
  BY TableDomain DEF FdInv, FdHeld
<1>3. Owns(fd_table, host)' /\ Names(pipe_map, host)'
  BY <1>1 DEF FdInv, FdHeld
<1> QED
  BY <1>2, <1>3 DEF FdInv, FdHeld

\* A table that is not empty is the table that is used next.
LEMMA FdTableNext ==
  ASSUME DOMAIN fds' # {}
  PROVE  fd_table' = fds'
  BY DEF fd_table

LEMMA NextFdFree ==
  /\ HostFree # {} => NextHostFd \in HostFd \ DOMAIN host
  /\ \A m \in Nat : HasGuestFd(m) => NextGuestFd(m) \in GuestFd \ DOMAIN fd_table
<1>1. ASSUME HostFree # {} PROVE NextHostFd \in HostFd \ DOMAIN host
  <2>1. HostFree \in SUBSET Nat
    BY DescriptorAssumption DEF HostFree
  <2> QED
    BY <1>1, <2>1, LowestIn DEF NextHostFd, HostFree
<1>2. ASSUME NEW m \in Nat, HasGuestFd(m)
      PROVE  NextGuestFd(m) \in GuestFd \ DOMAIN fd_table
  <2> DEFINE S == {g \in GuestFd : g >= m} \ DOMAIN fd_table
  <2>1. S \in SUBSET Nat /\ S # {} /\ S \subseteq GuestFd \ DOMAIN fd_table
    BY <1>2, DescriptorAssumption DEF HasGuestFd
  <2>2. NextGuestFd(m) = Lowest(S)
    BY DEF NextGuestFd
  <2> HIDE DEF S
  <2> QED
    BY <2>1, <2>2, LowestIn
<1> QED
  BY <1>1, <1>2

LEMMA InstallInv ==
  ASSUME FdInv, NEW op, NEW new \in HostFd \ DOMAIN host, NEW what,
         NEW g \in GuestFd \ DOMAIN fd_table,
         Install(op, new, what, g, pipe_map)
  PROVE  FdInv'
<1>1. /\ fds' = With(fd_table, g, new) /\ host' = With(host, new, what)
      /\ pipe_map' = pipe_map
  BY DEF Install, CloseReplaced
<1>2. DOMAIN fds' = DOMAIN fd_table \cup {g} /\ DOMAIN host' = DOMAIN host \cup {new}
  BY <1>1 DEF With
<1>3. fd_table' = fds'
  BY <1>2, FdTableNext
<1>4. Owns(fd_table', host')
  BY <1>1, <1>3, OwnsFree DEF FdInv
<1>5. Names(pipe_map', host')
  BY <1>1, NamesOpened DEF FdInv
<1> QED
  BY <1>2, <1>4, <1>5, TableDomain DEF FdInv

LEMMA SysOpenInv ==
  ASSUME FdInv, NEW dir, NEW path, NEW ok, NEW answer, SysOpen(dir, path, ok, answer)
  PROVE  FdInv'
<1>1. CASE FdUnchanged
  BY <1>1, FdHeldInv DEF FdUnchanged, FdHeld
<1>2. CASE ~FdUnchanged
  <2> DEFINE what == [kind |-> "file", pipe |-> 0]
  <2>1. HasGuestFd(0) /\ HostFree # {} /\ Install("open", NextHostFd, what, NextGuestFd(0), pipe_map)
    BY <1>2 DEF SysOpen
  <2> HIDE DEF what
  <2> QED
    BY <2>1, NextFdFree, InstallInv
<1> QED
  BY <1>1, <1>2

LEMMA SysSocketInv ==
  ASSUME FdInv, NEW t, NEW d, NEW answer, SysSocket(t, d, answer)
  PROVE  FdInv'
<1>1. CASE FdUnchanged
  BY <1>1, FdHeldInv DEF FdUnchanged, FdHeld
<1>2. CASE ~FdUnchanged
  <2> DEFINE what == [kind |-> "socket", pipe |-> 0]
  <2>1. HasGuestFd(0) /\ HostFree # {}
        /\ Install("socket", NextHostFd, what, NextGuestFd(0), pipe_map)
    BY <1>2 DEF SysSocket
  <2> HIDE DEF what
  <2> QED
    BY <2>1, NextFdFree, InstallInv
<1> QED
  BY <1>1, <1>2

\* The last descriptor stays open (MayCloseAll): an empty table would be
\* filled with standard descriptors that are closed on the host.
LEMMA SysCloseInv ==
  ASSUME FdInv, ~MayCloseAll, NEW g, NEW answer, SysClose(g, answer)
  PROVE  FdInv'
<1>1. CASE g \notin DOMAIN fd_table
  BY <1>1, FdHeldInv DEF SysClose, FdUnchanged, FdHeld
<1>2. CASE g \in DOMAIN fd_table
  <2>1. /\ DOMAIN fd_table # {g}
        /\ fds' = Without(fd_table, g) /\ host' = Without(host, fd_table[g])
        /\ pipe_map' = forget_fd_wait_state(pipe_map, fd_table[g])
    BY <1>2 DEF SysClose
  <2>2. DOMAIN fds' = DOMAIN fd_table \ {g} /\ DOMAIN host' = DOMAIN host \ {fd_table[g]}
    BY <2>1 DEF Without, Restrict
  <2>3. fd_table' = fds'
    BY <1>2, <2>1, <2>2, FdTableNext
  <2>4. Owns(fd_table', host')
    BY <1>2, <2>1, <2>3, OwnsClosed DEF FdInv
  <2>5. Names(pipe_map', host')
    BY <2>1, NamesClosed DEF FdInv
  <2> QED
    BY <2>2, <2>4, <2>5, TableDomain DEF FdInv
<1> QED
  BY <1>1, <1>2

\* Both ends get free host descriptors and free guest descriptors.
PipeMade(p, r, w, gr, gw) ==
  /\ r \in HostFd \ DOMAIN host /\ w \in HostFd \ DOMAIN host /\ w # r
  /\ gr \in GuestFd \ DOMAIN fd_table /\ gw \in GuestFd \ DOMAIN fd_table /\ gw # gr
  /\ fds' = With(With(fd_table, gw, w), gr, r)
  /\ host' = With(With(host, w, [kind |-> "write_end", pipe |-> p]),
                  r, [kind |-> "read_end", pipe |-> p])
  /\ pipe_map' = With(pipe_map, w, r)

LEMMA PipeEnds ==
  ASSUME NEW address, NEW p, SysPipe(address, p), ~FdUnchanged
  PROVE  \E r, w, gr, gw : PipeMade(p, r, w, gr, gw)
<1> DEFINE G == GuestFd \ DOMAIN fd_table
           r == NextHostFd
           w == Lowest(HostFree \ {r})
           gr == NextGuestFd(0)
           gw == Lowest(GuestFd \ (DOMAIN fd_table \cup {gr}))
<1>1. /\ ~(Cardinality(HostFree) < 2) /\ Cardinality(G) >= 2
      /\ fds' = With(With(fd_table, gw, w), gr, r)
      /\ host' = With(With(host, w, [kind |-> "write_end", pipe |-> p]),
                      r, [kind |-> "read_end", pipe |-> p])
      /\ pipe_map' = With(pipe_map, w, r)
  BY DEF SysPipe
<1>2. HostFree \in SUBSET Nat /\ G \in SUBSET Nat
  BY DescriptorAssumption DEF HostFree
<1>3. ASSUME NEW S, NEW x, S \ {x} = {}, Cardinality(S) >= 2 \/ ~(Cardinality(S) < 2)
      PROVE  FALSE
  <2>1. S = {} \/ S = {x}
    BY <1>3
  <2>2. Cardinality(S) = 0 \/ Cardinality(S) = 1
    BY <2>1, FS_EmptySet, FS_Singleton
  <2> QED
    BY <1>3, <2>2
<1>4. r \in HostFd \ DOMAIN host
  <2>1. HostFree # {}
    BY <1>1, <1>3
  <2> QED
    BY <2>1, NextFdFree
<1>5. w \in HostFd \ DOMAIN host /\ w # r
  <2>1. HostFree \ {r} # {} /\ HostFree \ {r} \in SUBSET Nat
    BY <1>1, <1>2, <1>3
  <2>2. w \in HostFree \ {r}
    BY <2>1, LowestIn
  <2> QED
    BY <2>2 DEF HostFree
<1>6. gr \in GuestFd \ DOMAIN fd_table
  <2>1. G # {}
    BY <1>1, <1>3
  <2>2. HasGuestFd(0)
    <3>1. PICK g \in GuestFd : g \notin DOMAIN fd_table
      BY <2>1
    <3>2. g \in Nat /\ g >= 0
      BY DescriptorAssumption
    <3> QED
      BY <3>1, <3>2 DEF HasGuestFd
  <2> QED
    BY <2>2, NextFdFree
<1>7. gw \in GuestFd \ DOMAIN fd_table /\ gw # gr
  <2>1. G \ {gr} # {} /\ G \ {gr} \in SUBSET Nat
    BY <1>1, <1>2, <1>3
  <2>2. GuestFd \ (DOMAIN fd_table \cup {gr}) = G \ {gr}
    OBVIOUS
  <2>3. gw \in G \ {gr}
    BY <2>1, <2>2, LowestIn
  <2> QED
    BY <2>3
<1> HIDE DEF G, r, w, gr, gw
<1>8. PipeMade(p, r, w, gr, gw)
  BY <1>1, <1>4, <1>5, <1>6, <1>7 DEF PipeMade
<1> QED
  BY <1>8

LEMMA SysPipeInv ==
  ASSUME FdInv, NEW address, NEW p, SysPipe(address, p)
  PROVE  FdInv'
<1>1. CASE FdUnchanged
  BY <1>1, FdHeldInv DEF FdUnchanged, FdHeld
<1>2. CASE ~FdUnchanged
  <2>0. PICK r, w, gr, gw : PipeMade(p, r, w, gr, gw)
    BY <1>2, PipeEnds
  <2>1. /\ fds' = With(With(fd_table, gw, w), gr, r)
        /\ host' = With(With(host, w, [kind |-> "write_end", pipe |-> p]),
                        r, [kind |-> "read_end", pipe |-> p])
        /\ pipe_map' = With(pipe_map, w, r)
    BY <2>0 DEF PipeMade
  <2>2. r \in HostFd \ DOMAIN host /\ w \in HostFd \ DOMAIN host /\ w # r
    BY <2>0 DEF PipeMade
  <2>3. gr \in GuestFd \ DOMAIN fd_table /\ gw \in GuestFd \ DOMAIN fd_table /\ gw # gr
    BY <2>0 DEF PipeMade
  <2>8. /\ DOMAIN fds' = DOMAIN fd_table \cup {gr, gw}
        /\ DOMAIN host' = DOMAIN host \cup {r, w}
    BY <2>1 DEF With
  <2>9. fd_table' = fds'
    BY <2>8, FdTableNext
  <2>10. Owns(fd_table', host')
    <3> DEFINE t == With(fd_table, gw, w)
               o == With(host, w, [kind |-> "write_end", pipe |-> p])
    <3>1. Owns(t, o)
      BY <2>2, <2>3, OwnsFree DEF FdInv
    <3>2. gr \notin DOMAIN t /\ r \notin DOMAIN o
      BY <2>2, <2>3 DEF With
    <3>3. fd_table' = With(t, gr, r) /\ host' = With(o, r, [kind |-> "read_end", pipe |-> p])
      BY <2>1, <2>9
    <3> HIDE DEF t, o
    <3> QED
      BY <3>1, <3>2, <3>3, OwnsFree
  <2>11. Names(pipe_map', host')
    BY <2>1, <2>2, NamesPipe DEF FdInv
  <2> QED
    BY <2>2, <2>3, <2>8, <2>10, <2>11, TableDomain DEF FdInv
<1> QED
  BY <1>1, <1>2

\* The target of a duplicate is free or, for dup2 and dup3, another
\* descriptor, which is closed.
LEMMA DuplicateInv ==
  ASSUME FdInv, HostFree # {}, NEW op, NEW g \in DOMAIN fd_table,
         NEW target \in GuestFd \ {g}, Duplicate(op, g, target)
  PROVE  FdInv'
<1> DEFINE t == fd_table
           h == t[g]
           new == NextHostFd
           what == host[h]
           after == With(host, new, what)
<1>1. /\ Owns(t, host) /\ Names(pipe_map, host) /\ new \in HostFd \ DOMAIN host
      /\ DOMAIN t \subseteq GuestFd /\ DOMAIN host \subseteq HostFd
  BY NextFdFree, TableDomain DEF FdInv
<1>2. fds' = With(t, target, new)
  BY DEF Duplicate
<1>3. DOMAIN fds' = DOMAIN t \cup {target}
  BY <1>2 DEF With
<1>4. fd_table' = fds' /\ DOMAIN fds' \subseteq GuestFd
  BY <1>1, <1>3, FdTableNext
<1>5. Names(pipe_map, after) /\ DOMAIN after = DOMAIN host \cup {new} /\ after[new] = what
      /\ (\A z \in DOMAIN host : after[z] = host[z])
  <2>1. Names(pipe_map, after)
    BY <1>1, NamesOpened
  <2> QED
    BY <1>1, <2>1 DEF With
<1>6. h \in DOMAIN host /\ new \notin DOMAIN pipe_map
  BY <1>1 DEF Owns, Names
<1>7. CASE target \notin DOMAIN t
  <2>1. host' = after /\ pipe_map' = copy_pipe_write_mapping(pipe_map, h, new)
    BY <1>7 DEF Duplicate, CloseReplaced
  <2>2. Owns(fd_table', host')
    BY <1>1, <1>2, <1>4, <1>7, <2>1, OwnsFree
  <2>3. new \in DOMAIN after /\ after[new] = after[h]
    BY <1>5, <1>6
  <2> HIDE DEF after, new, h
  <2>4. Names(pipe_map', host')
    BY <1>5, <1>6, <2>1, <2>3, NamesCopied
  <2> QED
    BY <1>1, <1>4, <1>5, <2>1, <2>2, <2>4 DEF FdInv
<1>8. CASE target \in DOMAIN t
  <2> DEFINE c == t[target]
             open == Without(after, c)
             kept == forget_fd_wait_state(pipe_map, c)
  <2>1. host' = open /\ pipe_map' = copy_pipe_write_mapping(kept, h, new)
    BY <1>8 DEF Duplicate, CloseReplaced
  <2>2. Owns(fd_table', host')
    <3>1. host' = Without(With(host, new, what), t[target])
      BY <2>1
    <3> HIDE DEF what, new, t
    <3> QED
      BY <1>1, <1>2, <1>4, <1>8, <3>1, OwnsReplaced
  <2>3. c \in DOMAIN host /\ c # h /\ c # new
    BY <1>1, <1>8 DEF Owns
  <2>4. DOMAIN open = DOMAIN after \ {c} /\ \A z \in DOMAIN after \ {c} : open[z] = after[z]
    BY DEF Without, Restrict
  <2>5. DOMAIN kept \subseteq DOMAIN pipe_map
    BY DEF forget_fd_wait_state, Restrict
  <2> HIDE DEF after, new, h, c
  <2>6. Names(kept, open)
    BY <1>5, NamesClosed
  <2> HIDE DEF open, kept
  <2>7. new \in DOMAIN open /\ open[new] = open[h] /\ new \notin DOMAIN kept
    BY <1>5, <1>6, <2>3, <2>4, <2>5
  <2>8. Names(pipe_map', host')
    BY <2>1, <2>6, <2>7, NamesCopied
  <2> QED
    BY <1>1, <1>4, <1>5, <2>1, <2>2, <2>4, <2>8 DEF FdInv
<1> QED
  BY <1>7, <1>8

LEMMA DuplicateTarget ==
  ASSUME NEW op, NEW g, NEW arg \in GuestFd, NEW answer,
         op \in {"dup", "dup2", "dup3", "dupfd"}, SysDup(op, g, arg, answer), ~FdUnchanged
  PROVE  /\ g \in DOMAIN fd_table /\ HostFree # {}
         /\ \E target \in GuestFd \ {g} : Duplicate(op, g, target)
<1>1. g \in DOMAIN fd_table /\ HostFree # {} /\ arg \in Nat
  BY DescriptorAssumption DEF SysDup
<1>2. CASE op = "dup"
  <2>1. HasGuestFd(0) /\ Duplicate(op, g, NextGuestFd(0))
    BY <1>2 DEF SysDup
  <2>2. NextGuestFd(0) \in GuestFd \ DOMAIN fd_table
    BY <2>1, NextFdFree
  <2> QED
    BY <1>1, <2>1, <2>2
<1>3. CASE op = "dupfd"
  <2>1. HasGuestFd(arg) /\ Duplicate(op, g, NextGuestFd(arg))
    BY <1>3 DEF SysDup
  <2>2. NextGuestFd(arg) \in GuestFd \ DOMAIN fd_table
    BY <1>1, <2>1, NextFdFree
  <2> QED
    BY <1>1, <2>1, <2>2
<1>4. CASE op \in {"dup2", "dup3"}
  BY <1>1, <1>4 DEF SysDup
<1> QED
  BY <1>2, <1>3, <1>4

LEMMA SysDupInv ==
  ASSUME FdInv, NEW op, NEW g, NEW arg \in GuestFd, NEW answer,
         op \in {"dup", "dup2", "dup3", "dupfd"}, SysDup(op, g, arg, answer)
  PROVE  FdInv'
<1>1. CASE FdUnchanged
  BY <1>1, FdHeldInv DEF FdUnchanged, FdHeld
<1>2. CASE ~FdUnchanged
  BY <1>2, DuplicateTarget, DuplicateInv
<1> QED
  BY <1>1, <1>2

-----------------------------------------------------------------------------
\* The steps that are neither a call that opens or closes descriptors nor a
\* write leave the descriptors and the write loop alone.

\* The step is not the end of a write or pwrite64.
NotWrite == last' = last \/ last'.op \notin {"write", "pwrite"}

\* Nor an mremap.
Other == (last' = last /\ total' = total) \/ last'.op \notin {"write", "pwrite", "mremap"}

Frame == FdHeld /\ io' = io /\ Other

LEMMA OtherNotWrite == Other => NotWrite
  BY DEF Other, NotWrite

LEMMA ReturnsOther ==
  ASSUME NEW op, op \notin {"write", "pwrite", "mremap"}, NEW ret, Returns(op, ret)
  PROVE  Other
  BY DEF Returns, Done, DoneFrom, SyscallReturns, Other

LEMMA WritesGuestOther ==
  ASSUME NEW op, op \notin {"write", "pwrite", "mremap"}, NEW address, NEW n, NEW v, NEW ok,
         WritesGuest(op, address, n, v, ok)
  PROVE  Other
  BY DEF WritesGuest, Done, DoneFrom, SyscallReturns, Other

LEMMA GuestStepFrame ==
  ASSUME GuestStep
  PROVE  Frame
<1>1. Other
  <2>1. ASSUME NEW p, Execute(p) PROVE Other
    <3>1. \/ last' = Done("execute", {p}, IF Fresh(p) THEN 1 ELSE 0)
          \/ last' = Done("execute", {p}, 1) \/ last' = Done("fault", {}, 0)
      BY <2>1 DEF Execute, PageFault
    <3> QED
      BY <3>1 DEF Done, DoneFrom, Other
  <2>2. ASSUME NEW a, GuestStore(a, 2) PROVE Other
    <3>1. last' = Done("store", {PageOf(a)}, 1) \/ last' = Done("fault", {}, 0)
      BY <2>2 DEF GuestStore, PageFault
    <3> QED
      BY <3>1 DEF Done, DoneFrom, Other
  <2>3. ASSUME NEW p, FetchAhead(p) PROVE Other
    BY <2>3 DEF FetchAhead, Other
  <2> QED
    BY <2>1, <2>2, <2>3 DEF GuestStep
<1> QED
  BY <1>1 DEF Frame, FdHeld, fileVars, GuestStep

\* A call on the memory, with whatever arguments.
MemoryStep ==
  \/ \E r : SysBrk(r)
  \/ \E a, flags, prot, answer, loaded : SysMmap(a, flags, prot, answer, loaded)
  \/ \E a, n : SysMunmap(a, n)
  \/ \E a, n, prot : SysMprotect(a, n, prot)
  \/ \E a, m, n, flags, f : SysMremap(a, m, n, flags, f)

LEMMA MemoryCallStep == ASSUME MemoryCall PROVE MemoryStep
<1> USE DEF MemoryStep
<1>1. CASE \E r \in Addresses : Uses("brk") /\ (Canonical(r, 0) \/ ~Ceilable(r)) /\ SysBrk(r)
  BY <1>1
<1>2. CASE \E a \in Addresses, n \in Lengths, prot \in Prots, fixed \in {{}, {"fixed"}} :
             /\ Uses("mmap") /\ Canonical(a, n) /\ RoomFor(as, next_mmap, n)
             /\ fixed = {} => a = Lowest(Addresses)
             /\ \/ SysMmap([address |-> a, length |-> n, offset |-> 0],
                           fixed \cup {"shared", "anonymous"}, prot, "none", 0)
                \/ \E loaded \in 0 .. PageSize, answer \in LoaderAnswers :
                     /\ Uses("file") /\ loaded <= n
                     /\ SysMmap([address |-> a, length |-> n, offset |-> 0],
                                fixed \cup {"private"}, prot, answer, loaded)
  BY <1>2, Zenon
<1>3. ASSUME NEW off, NEW flags, NEW prot,
             SysMmap([address |-> 0, length |-> 1, offset |-> off], flags, prot, "none", 0)
      PROVE  MemoryStep
  BY <1>3, Zenon
<1>4. ASSUME NEW a, NEW n, SysMunmap(a, n) PROVE MemoryStep
  BY <1>4
<1>5. ASSUME NEW a, NEW n, NEW prot, SysMprotect(a, n, prot) PROVE MemoryStep
  BY <1>5
<1>6. ASSUME NEW a, NEW m, NEW n, NEW flags, NEW f, SysMremap(a, m, n, flags, f) PROVE MemoryStep
  BY <1>6
<1> HIDE DEF MemoryStep
<1> QED
  BY <1>1, <1>2, <1>3, <1>4, <1>5, <1>6 DEF MemoryCall

LEMMA MemoryCallFrame ==
  ASSUME MemoryCall
  PROVE  FdHeld /\ io' = io /\ NotWrite
<1>1. ASSUME NEW r, SysBrk(r) PROVE NotWrite
  BY <1>1 DEF SysBrk, SyscallReturns, Done, DoneFrom, NotWrite
<1>2. ASSUME NEW a, NEW flags, NEW prot, NEW answer, NEW loaded,
             SysMmap(a, flags, prot, answer, loaded)
      PROVE  NotWrite
  BY <1>2 DEF SysMmap, SyscallReturns, Done, DoneFrom, NotWrite
<1>3. ASSUME NEW a, NEW n, SysMunmap(a, n) PROVE NotWrite
  BY <1>3 DEF SysMunmap, SyscallReturns, Done, DoneFrom, NotWrite
<1>4. ASSUME NEW a, NEW n, NEW prot, SysMprotect(a, n, prot) PROVE NotWrite
  BY <1>4 DEF SysMprotect, SyscallReturns, Done, DoneFrom, NotWrite
<1>5. ASSUME NEW a, NEW m, NEW n, NEW flags, NEW f, SysMremap(a, m, n, flags, f) PROVE NotWrite
  BY <1>5 DEF SysMremap, MremapMove, SyscallReturns, Done, DoneFrom, NotWrite
<1>6. NotWrite
  BY <1>1, <1>2, <1>3, <1>4, <1>5, MemoryCallStep DEF MemoryStep
<1> QED
  BY <1>6 DEF FdHeld, fileVars, MemoryCall

LEMMA SmallCallFrame ==
  ASSUME SmallCall
  PROVE  Frame
<1>1. ASSUME NEW code, NEW a, SysArchPrctl(code, a) PROVE Other
  BY <1>1, ReturnsOther, WritesGuestOther DEF SysArchPrctl
<1>2. ASSUME SysGetIdentity PROVE Other
  BY <1>2, ReturnsOther DEF SysGetIdentity
<1>3. ASSUME NEW name \in {"set_tid_address", "set_robust_list", "rseq"}, SysThreadSetup(name)
      PROVE  Other
  BY <1>3, ReturnsOther DEF SysThreadSetup
<1>4. ASSUME SysSignals PROVE Other
  BY <1>4, ReturnsOther DEF SysSignals
<1>5. ASSUME NEW name \in {"fork", "wait4"}, SysProcess(name) PROVE Other
  BY <1>5, ReturnsOther DEF SysProcess
<1>6. ASSUME NEW a, SysUname(a) PROVE Other
  BY <1>6, WritesGuestOther DEF SysUname
<1>7. ASSUME NEW a, NEW n, SysGetcwd(a, n, 2) PROVE Other
  BY <1>7, ReturnsOther, WritesGuestOther DEF SysGetcwd
<1>8. ASSUME NEW a, NEW n, SysGetrandom(a, n) PROVE Other
  BY <1>8, ReturnsOther, WritesGuestOther DEF SysGetrandom
<1>9. ASSUME NEW own, NEW res, NEW new, NEW old, SysPrlimit64(own, res, new, old) PROVE Other
  BY <1>9, ReturnsOther, WritesGuestOther
     DEF SysPrlimit64, SyscallReturns, Done, DoneFrom, Other
<1>10. ASSUME NEW a, NEW c, NEW v, NEW t, SysFutex(a, c, v, t) PROVE Other
  BY <1>10, ReturnsOther DEF SysFutex
<1>11. ASSUME SysExit(1) \/ UnsupportedSyscall PROVE Other
  BY <1>11 DEF SysExit, UnsupportedSyscall, SyscallStops, Done, DoneFrom, Other
<1>12. Other
  BY <1>1, <1>2, <1>3, <1>4, <1>5, <1>6, <1>7, <1>8, <1>9, <1>10, <1>11 DEF SmallCall
<1> QED
  BY <1>12 DEF Frame, FdHeld, fileVars, SmallCall

LEMMA FileCallFrame ==
  ASSUME FileCall
  PROVE  Frame
<1> USE DEF Frame
<1>0. ASSUME FdUnchanged PROVE FdHeld /\ io' = io
  BY <1>0 DEF FdUnchanged, FdHeld
<1>1. ASSUME NEW op \in {"lseek", "ioctl", "fcntl"}, NEW g, NEW ok, NEW answer,
             SysOnFd(op, g, ok, answer)
      PROVE  Frame
  BY <1>0, <1>1, ReturnsOther DEF SysOnFd, FdCall
<1>2. ASSUME NEW op \in {"getlk", "setlk"}, NEW g, NEW a, NEW ok, NEW answer,
             SysLock(op, g, a, ok, answer)
      PROVE  Frame
  BY <1>0, <1>2, ReturnsOther, WritesGuestOther DEF SysLock, FdCall
<1>3. ASSUME NEW op \in {"stat", "fstat"}, NEW g, NEW path, NEW a, NEW ok, NEW answer,
             SysStat(op, g, path, a, ok, answer)
      PROVE  Frame
  BY <1>0, <1>3, ReturnsOther, WritesGuestOther DEF SysStat, FdCall
<1>4. ASSUME NEW op \in {"access", "rename"}, NEW a, NEW path, NEW answer,
             SysFileSystem(op, a, path, answer)
      PROVE  Frame
  BY <1>0, <1>4, ReturnsOther DEF SysFileSystem, FdCall
<1>5. ASSUME NEW op \in {"renameat", "unlinkat"}, NEW g, NEW a, NEW path, NEW ok, NEW answer,
             SysFileSystemAt(op, g, a, path, ok, answer)
      PROVE  Frame
  BY <1>0, <1>5, ReturnsOther DEF SysFileSystemAt, FdCall
<1>6. ASSUME NEW g, NEW a, NEW n, NEW ok, NEW answer, SysConnect(g, a, n, ok, answer)
      PROVE  Frame
  BY <1>0, <1>6, ReturnsOther DEF SysConnect, FdCall
<1>7. ASSUME NEW op \in {"select", "nanosleep"}, NEW a, NEW ok, SysSleep(op, a, ok)
      PROVE  Frame
  BY <1>7, ReturnsOther DEF SysSleep, FdCall, FdHeld, fileVars
<1>8. ASSUME NEW op \in {"gettimeofday", "clock_gettime", "getrusage"}, NEW a, SysTime(op, a)
      PROVE  Frame
  BY <1>8, ReturnsOther, WritesGuestOther
     DEF SysTime, FdCall, FdHeld, fileVars, SyscallReturns, Done, DoneFrom, Other
<1> QED
  BY <1>1, <1>2, <1>3, <1>4, <1>5, <1>6, <1>7, <1>8 DEF FileCall

\* The transfers other than write and pwrite64.
LEMMA TransferFrame ==
  ASSUME NEW g, NEW a, NEW n, NEW answer, NEW path,
         SysRead(g, a, n, answer) \/ SysGetdents64(g, a, n, answer)
           \/ SysReadlink(g, path, a, n, answer)
  PROVE  Frame
<1>1. FdHeld /\ io' = io
  BY DEF SysRead, SysGetdents64, SysReadlink, FdUnchanged, FdHeld
<1>2. Other
  BY ReturnsOther, WritesGuestOther DEF SysRead, SysGetdents64, SysReadlink, FdCall
<1> QED
  BY <1>1, <1>2 DEF Frame

LEMMA OutsideFrame ==
  ASSUME Load \/ Start \/ (\E s \in Space : UserEdit(s)) \/ UNCHANGED vars
  PROVE  Frame
<1>1. CASE Load
  BY <1>1 DEF Load, Frame, FdHeld, fileVars, Other
<1>2. CASE Start
  BY <1>2 DEF Start, MachineRun, Frame, FdHeld, fileVars, Other
<1>3. CASE \E s \in Space : UserEdit(s)
  <2>1. PICK s \in Space : UserEdit(s)
    BY <1>3
  <2>2. Other
    BY <2>1 DEF UserEdit, Done, DoneFrom, Other
  <2> QED
    BY <2>1, <2>2 DEF UserEdit, Frame, FdHeld, fileVars
<1>4. CASE UNCHANGED vars
  BY <1>4 DEF vars, fileVars, machineVars, Frame, FdHeld, Other
<1> QED
  BY <1>1, <1>2, <1>3, <1>4

-----------------------------------------------------------------------------
\* Descriptors.

LEMMA FdInvInit == Init => FdInv
<1> SUFFICES ASSUME Init PROVE FdInv
  OBVIOUS
<1>1. /\ fds = [g \in {} |-> 0] /\ pipe_map = [h \in {} |-> 0]
      /\ host = [h \in 0 .. 2 |-> [kind |-> "tty", pipe |-> 0]]
  BY DEF Init, FilesInit
<1>2. fd_table = Stdio /\ DOMAIN fds = {}
  BY <1>1 DEF fd_table
<1>3. Owns(Stdio, host)
  BY <1>1 DEF Owns, Stdio
<1>4. Names(pipe_map, host)
  BY <1>1 DEF Names
<1> QED
  BY <1>1, <1>2, <1>3, <1>4, DescriptorAssumption DEF FdInv

LEMMA FdInvNext ==
  ASSUME ~MayCloseAll, FdInv, [Next]_vars
  PROVE  FdInv'
<1>1. CASE Load \/ Start \/ (\E s \in Space : UserEdit(s)) \/ UNCHANGED vars
  BY <1>1, OutsideFrame, FdHeldInv DEF Frame
<1>2. CASE GuestStep \/ MemoryCall \/ SmallCall \/ FileCall
  BY <1>2, GuestStepFrame, MemoryCallFrame, SmallCallFrame, FileCallFrame, FdHeldInv DEF Frame
<1>3. CASE TransferCall
  <2>1. PICK g \in {1, 3}, a \in Addresses, n \in Lengths, answer \in Answers :
          \/ SysRead(g, a, n, answer)
          \/ \E op \in {"write", "pwrite"} : answer = "ok" /\ SysWrite(op, g, a, n)
          \/ SysGetdents64(g, a, n, answer)
          \/ \E path \in Addresses : SysReadlink(g, path, a, n, answer)
    BY <1>3 DEF TransferCall
  <2>2. CASE \E op \in {"write", "pwrite"} : SysWrite(op, g, a, n)
    <3>1. FdHeld
      BY <2>2 DEF SysWrite, FdUnchanged, FdHeld
    <3> QED
      BY <3>1, FdHeldInv
  <2>3. CASE \/ SysRead(g, a, n, answer) \/ SysGetdents64(g, a, n, answer)
             \/ \E path \in Addresses : SysReadlink(g, path, a, n, answer)
    BY <2>3, TransferFrame, FdHeldInv DEF Frame
  <2> QED
    BY <2>1, <2>2, <2>3
<1>4. CASE DescriptorCall
  <2>1. ASSUME NEW dir, NEW path, NEW ok, NEW answer, SysOpen(dir, path, ok, answer)
        PROVE  FdInv'
    BY <2>1, SysOpenInv
  <2>2. ASSUME NEW t, NEW d, NEW answer, SysSocket(t, d, answer) PROVE FdInv'
    BY <2>2, SysSocketInv
  <2>3. ASSUME NEW g, NEW answer, SysClose(g, answer) PROVE FdInv'
    BY <2>3, SysCloseInv
  <2>4. ASSUME NEW a, NEW p, SysPipe(a, p) PROVE FdInv'
    BY <2>4, SysPipeInv
  <2>5. ASSUME NEW op \in {"dup", "dup2", "dup3", "dupfd"}, NEW g, NEW arg \in GuestFd, NEW answer,
               SysDup(op, g, arg, answer)
        PROVE  FdInv'
    BY <2>5, SysDupInv
  <2> QED
    BY <1>4, <2>1, <2>2, <2>3, <2>4, <2>5 DEF DescriptorCall
<1>5. CASE ContinueWrite
  <2>1. FdHeld
    BY <1>5 DEF ContinueWrite, WriteChunk, FdHeld
  <2> QED
    BY <2>1, FdHeldInv
<1> QED
  BY <1>1, <1>2, <1>3, <1>4, <1>5 DEF Next, Instruction

LEMMA FdInvOwned == FdInv => DescriptorsOwned /\ PipeMapSound
<1> SUFFICES ASSUME FdInv PROVE DescriptorsOwned /\ PipeMapSound
  OBVIOUS
<1>1. IsInjective(fd_table)
  BY DEF FdInv, Owns, IsInjective
<1>2. Range(fd_table) = DOMAIN host
  BY DEF FdInv, Owns, Range
<1>3. PipeMapSound
  BY DEF FdInv, Names, PipeMapSound
<1> QED
  BY <1>1, <1>2, <1>3 DEF DescriptorsOwned

(***************************************************************************)
(* No path of the descriptor calls of syscall-linux-posix.cpp leaks a host *)
(* descriptor, shares one or leaves a closed one behind, for every set of  *)
(* descriptors and every answer of the host, as long as the guest keeps    *)
(* one descriptor open.                                                    *)
(***************************************************************************)
THEOREM LinuxDescriptorsOwned ==
  ASSUME ~MayCloseAll
  PROVE  Spec => []DescriptorsOwned
<1>1. FdInv /\ [Next]_vars => FdInv'
  BY FdInvNext
<1> QED
  BY <1>1, FdInvInit, FdInvOwned, PTL DEF Spec

(***************************************************************************)
(* pipe_read_fd_for_write_fd only names open ends of one pipe, whatever is *)
(* closed, duplicated onto and opened again in between.                    *)
(***************************************************************************)
THEOREM LinuxPipeMapSound ==
  ASSUME ~MayCloseAll
  PROVE  Spec => []PipeMapSound
<1>1. FdInv /\ [Next]_vars => FdInv'
  BY FdInvNext
<1> QED
  BY <1>1, FdInvInit, FdInvOwned, PTL DEF Spec

-----------------------------------------------------------------------------
\* Transfers.

(***************************************************************************)
(* The loop of write and pwrite64 has moved what it counts, and a call     *)
(* that ended reported what it moved.                                      *)
(***************************************************************************)
IoInv ==
  /\ io = [op |-> io.op, fd |-> io.fd, address |-> io.address, count |-> io.count,
           total |-> io.total, moved |-> io.moved]
  /\ io.moved = io.total
  /\ TransferCountExact

LEMMA IoFrame ==
  ASSUME IoInv, io' = io, NotWrite \/ Other
  PROVE  IoInv'
  BY OtherNotWrite DEF IoInv, NotWrite, TransferCountExact

LEMMA SysWriteIo ==
  ASSUME IoInv, NEW op, NEW g, NEW a, NEW n, SysWrite(op, g, a, n)
  PROVE  IoInv'
<1>1. CASE g \in DOMAIN fd_table /\ ~range_overflows(a, n) /\ n # 0
  <2>1. /\ io' = [op |-> op, fd |-> fd_table[g], address |-> a,
                  count |-> n, total |-> 0, moved |-> 0]
        /\ last' = last
    BY <1>1 DEF SysWrite, machineVars
  <2> QED
    BY <2>1 DEF IoInv, TransferCountExact
<1>2. CASE ~(g \in DOMAIN fd_table /\ ~range_overflows(a, n) /\ n # 0)
  <2>1. /\ io' = io
        /\ \/ Returns(op, Error("EBADF"))
           \/ Returns(op, Error("EFAULT"))
           \/ Returns(op, Value(0))
    BY <1>2 DEF SysWrite, FdUnchanged, FdCall
  <2>2. ASSUME NEW ret, Returns(op, ret) PROVE last'.moved = 0 /\ last'.rax = ret
    BY <2>2 DEF Returns, SyscallReturns, Done, DoneFrom
  <2>3. last'.moved = 0 /\ last'.rax \in {Error("EBADF"), Error("EFAULT"), Value(0)}
    BY <2>1, <2>2
  <2>4. last'.moved = 0 /\ last'.rax.val = 0
    BY <2>3 DEF Value, Error
  <2> QED
    BY <2>1, <2>4 DEF IoInv, TransferCountExact
<1> QED
  BY <1>1, <1>2

LEMMA WriteChunkIo ==
  ASSUME IoInv, NEW n, NEW answer, WriteChunk(n, answer)
  PROVE  IoInv'
<1> DEFINE Ends(ret, m) == /\ SyscallReturns(as, {}, ret, Done(io.op, {}, m))
                           /\ io' = NoIo
<1>1. \/ \E e : Ends(ErrorOrShort(e), io.moved)
      \/ Ends(Value(io.total + n), io.moved + n)
      \/ io' = [io EXCEPT !.total = io.total + n, !.moved = @ + n] /\ UNCHANGED machineVars
  BY DEF WriteChunk
<1>2. ASSUME NEW e, Ends(ErrorOrShort(e), io.moved) PROVE IoInv'
  <2>1. last'.rax = ErrorOrShort(e) /\ last'.moved = io.moved
    BY <1>2 DEF SyscallReturns, Done, DoneFrom
  <2> QED
    BY <1>2, <2>1 DEF IoInv, TransferCountExact, ErrorOrShort, Error, Value, NoIo
<1>3. ASSUME Ends(Value(io.total + n), io.moved + n) PROVE IoInv'
  <2>1. last'.rax = Value(io.total + n) /\ last'.moved = io.moved + n
    BY <1>3 DEF SyscallReturns, Done, DoneFrom
  <2> QED
    BY <1>3, <2>1 DEF IoInv, TransferCountExact, Value, NoIo
<1>4. ASSUME io' = [io EXCEPT !.total = io.total + n, !.moved = @ + n], UNCHANGED machineVars
      PROVE  IoInv'
  <2>1. io' = [op |-> io.op, fd |-> io.fd, address |-> io.address, count |-> io.count,
               total |-> io.total + n, moved |-> io.moved + n]
    BY <1>4 DEF IoInv
  <2>2. last' = last
    BY <1>4 DEF machineVars
  <2> QED
    BY <2>1, <2>2 DEF IoInv, TransferCountExact
<1> QED
  BY <1>1, <1>2, <1>3, <1>4

LEMMA DescriptorCallOther ==
  ASSUME DescriptorCall
  PROVE  Other /\ io' = io
<1>1. ASSUME NEW op, op \notin {"write", "pwrite", "mremap"}, NEW ret, FdCall(op, ret) PROVE Other
  BY <1>1, ReturnsOther DEF FdCall
<1>2. ASSUME NEW dir, NEW path, NEW ok, NEW answer, SysOpen(dir, path, ok, answer)
      PROVE  Other /\ io' = io
  BY <1>1, <1>2 DEF SysOpen, Install, FdUnchanged
<1>3. ASSUME NEW t, NEW d, NEW answer, SysSocket(t, d, answer) PROVE Other /\ io' = io
  BY <1>1, <1>3 DEF SysSocket, Install, FdUnchanged
<1>4. ASSUME NEW g, NEW answer, SysClose(g, answer) PROVE Other /\ io' = io
  BY <1>1, <1>4 DEF SysClose, FdUnchanged
<1>5. ASSUME NEW a, NEW p, SysPipe(a, p) PROVE Other /\ io' = io
  BY <1>1, <1>5, WritesGuestOther DEF SysPipe, FdUnchanged
<1>6. ASSUME NEW op \in {"dup", "dup2", "dup3", "dupfd"}, NEW g, NEW arg, NEW answer,
             SysDup(op, g, arg, answer)
      PROVE  Other /\ io' = io
  BY <1>1, <1>6 DEF SysDup, Duplicate, FdUnchanged
<1> QED
  BY <1>2, <1>3, <1>4, <1>5, <1>6 DEF DescriptorCall

LEMMA IoInvNext ==
  ASSUME IoInv, [Next]_vars
  PROVE  IoInv'
<1>1. CASE Load \/ Start \/ (\E s \in Space : UserEdit(s)) \/ UNCHANGED vars
  BY <1>1, OutsideFrame, IoFrame DEF Frame
<1>2. CASE GuestStep \/ MemoryCall \/ SmallCall \/ FileCall
  BY <1>2, GuestStepFrame, MemoryCallFrame, SmallCallFrame, FileCallFrame, IoFrame DEF Frame
<1>3. CASE TransferCall
  <2>1. PICK g \in {1, 3}, a \in Addresses, n \in Lengths, answer \in Answers :
          \/ SysRead(g, a, n, answer)
          \/ \E op \in {"write", "pwrite"} : answer = "ok" /\ SysWrite(op, g, a, n)
          \/ SysGetdents64(g, a, n, answer)
          \/ \E path \in Addresses : SysReadlink(g, path, a, n, answer)
    BY <1>3 DEF TransferCall
  <2>2. CASE \E op \in {"write", "pwrite"} : SysWrite(op, g, a, n)
    BY <2>2, SysWriteIo
  <2>3. CASE \/ SysRead(g, a, n, answer) \/ SysGetdents64(g, a, n, answer)
             \/ \E path \in Addresses : SysReadlink(g, path, a, n, answer)
    BY <2>3, TransferFrame, IoFrame DEF Frame
  <2> QED
    BY <2>1, <2>2, <2>3
<1>4. CASE DescriptorCall
  BY <1>4, DescriptorCallOther, IoFrame
<1>5. CASE ContinueWrite
  BY <1>5, WriteChunkIo DEF ContinueWrite
<1> QED
  BY <1>1, <1>2, <1>3, <1>4, <1>5 DEF Next, Instruction

(***************************************************************************)
(* write and pwrite64 report exactly what the host took, for every buffer, *)
(* every hole in it and every short count or error in a later chunk.       *)
(***************************************************************************)
THEOREM LinuxTransferCountExact == Spec => []TransferCountExact
<1>1. Init => IoInv
  BY DEF Init, FilesInit, NoIo, IoInv, TransferCountExact, Done, DoneFrom
<1>2. IoInv /\ [Next]_vars => IoInv'
  BY IoInvNext
<1>3. IoInv => TransferCountExact
  BY DEF IoInv
<1> QED
  BY <1>1, <1>2, <1>3, PTL DEF Spec

-----------------------------------------------------------------------------
\* Pages and units.  PageSize is any positive number, so the arithmetic is
\* not linear: it is done here once.

LEMMA Size == PageSize \in Nat /\ PageSize > 0 /\ NumPages \in Nat /\ TotalPages \in Nat
  BY AddressAssumption

\* Multiples of a positive number keep their order.
LEMMA MultipleOrder ==
  ASSUME NEW c \in Nat, c > 0, NEW p \in Int, NEW q \in Int
  PROVE  /\ p * c \in Int /\ (p + 1) * c = p * c + c
         /\ p * c < q * c => p < q
         /\ p <= q => p * c <= q * c
  OBVIOUS

LEMMA PageBounds ==
  ASSUME NEW a \in Nat
  PROVE  /\ PageOf(a) \in Nat
         /\ PageOf(a) * PageSize \in Nat
         /\ PageOf(a) * PageSize <= a /\ a < PageOf(a) * PageSize + PageSize
         /\ page_floor(a) = PageOf(a) * PageSize
  BY Size DEF PageOf, page_floor

LEMMA PageUnique ==
  ASSUME NEW p \in Int, NEW a \in Nat, p * PageSize <= a, a < p * PageSize + PageSize
  PROVE  PageOf(a) = p
<1> DEFINE q == PageOf(a)
<1>1. q \in Nat /\ q * PageSize <= a /\ a < q * PageSize + PageSize
  BY PageBounds
<1> HIDE DEF q
<1>2. /\ p * PageSize \in Int /\ q * PageSize \in Int
      /\ (p + 1) * PageSize = p * PageSize + PageSize
      /\ (q + 1) * PageSize = q * PageSize + PageSize
  BY <1>1, Size, MultipleOrder
<1>3. p * PageSize < (q + 1) * PageSize /\ q * PageSize < (p + 1) * PageSize
  BY <1>1, <1>2, Size
<1>4. p < q + 1
  BY <1>1, <1>3, Size, MultipleOrder
<1>5. q < p + 1
  BY <1>1, <1>3, Size, MultipleOrder
<1> QED
  BY <1>1, <1>4, <1>5 DEF q

\* A unit of pages is a unit whose page is one of them.
LEMMA UnitsIff ==
  ASSUME NEW ps \in SUBSET Nat, NEW a
  PROVE  a \in UnitsOf(ps) <=> a \in Nat /\ PageOf(a) \in ps
<1>1. ASSUME a \in UnitsOf(ps) PROVE a \in Nat /\ PageOf(a) \in ps
  <2>1. PICK p \in ps : a \in p * PageSize .. (p + 1) * PageSize - 1
    BY <1>1 DEF UnitsOf
  <2>2. p \in Nat /\ p * PageSize \in Nat /\ (p + 1) * PageSize = p * PageSize + PageSize
    BY Size, MultipleOrder
  <2>3. a \in Nat /\ p * PageSize <= a /\ a < p * PageSize + PageSize
    BY <2>1, <2>2, Size
  <2>4. PageOf(a) = p
    BY <2>2, <2>3, PageUnique
  <2> QED
    BY <2>3, <2>4
<1>2. ASSUME a \in Nat, PageOf(a) \in ps PROVE a \in UnitsOf(ps)
  <2> DEFINE p == PageOf(a)
  <2>1. p \in Nat /\ p * PageSize \in Nat /\ p * PageSize <= a /\ a < p * PageSize + PageSize
    BY <1>2, PageBounds
  <2>2. (p + 1) * PageSize = p * PageSize + PageSize
    BY <2>1, Size, MultipleOrder
  <2> HIDE DEF p
  <2>3. a \in p * PageSize .. (p + 1) * PageSize - 1
    BY <1>2, <2>1, <2>2, Size
  <2>4. p \in ps
    BY <1>2 DEF p
  <2> QED
    BY <2>3, <2>4 DEF UnitsOf
<1> QED
  BY <1>1, <1>2

\* Every page has a unit.
LEMMA FirstUnit ==
  ASSUME NEW p \in Nat
  PROVE  p * PageSize \in Nat /\ PageOf(p * PageSize) = p
<1>1. p * PageSize \in Nat
  BY Size
<1>2. p * PageSize <= p * PageSize /\ p * PageSize < p * PageSize + PageSize
  BY <1>1, Size
<1> QED
  BY <1>1, <1>2, PageUnique

\* Rounding down and up.
LEMMA FloorFacts ==
  ASSUME NEW a \in Nat
  PROVE  /\ page_floor(a) \in Nat /\ page_floor(a) <= a
         /\ a < page_floor(a) + PageSize
         /\ PageOf(page_floor(a)) = PageOf(a)
<1>1. /\ PageOf(a) \in Nat /\ PageOf(a) * PageSize \in Nat
      /\ PageOf(a) * PageSize <= a /\ a < PageOf(a) * PageSize + PageSize
      /\ page_floor(a) = PageOf(a) * PageSize
  BY PageBounds
<1>2. PageOf(PageOf(a) * PageSize) = PageOf(a)
  BY <1>1, FirstUnit
<1> QED
  BY <1>1, <1>2

LEMMA CeilFacts ==
  ASSUME NEW v \in Nat
  PROVE  /\ page_ceil(v) \in Nat /\ v <= page_ceil(v)
         /\ \E k \in Nat : page_ceil(v) = k * PageSize
         /\ \A m \in Int : v <= m * PageSize => page_ceil(v) <= m * PageSize
<1> DEFINE w == v + PageSize - 1
           k == PageOf(w)
<1>1. w \in Nat /\ page_ceil(v) = page_floor(w)
  BY Size DEF page_ceil
<1>2. /\ k \in Nat /\ k * PageSize \in Nat /\ page_floor(w) = k * PageSize
      /\ k * PageSize <= w /\ w < k * PageSize + PageSize
  BY <1>1, PageBounds
<1> HIDE DEF k
<1>3. page_ceil(v) = k * PageSize
  BY <1>1, <1>2
<1>4. v <= k * PageSize
  BY <1>2, Size
<1>5. ASSUME NEW m \in Int, v <= m * PageSize PROVE k * PageSize <= m * PageSize
  <2>1. m * PageSize \in Int /\ (m + 1) * PageSize = m * PageSize + PageSize
    BY Size, MultipleOrder
  <2>2. k * PageSize < (m + 1) * PageSize
    BY <1>2, <1>5, <2>1, Size
  <2>3. k < m + 1
    BY <1>2, <2>2, Size, MultipleOrder
  <2>4. k <= m
    BY <1>2, <2>3
  <2> QED
    BY <1>2, <2>4, Size, MultipleOrder
<1> QED
  BY <1>2, <1>3, <1>4, <1>5

\* A range that ends below the last page maps pages below the last.
LEMMA MapBelow ==
  ASSUME NEW a \in Nat, NEW b \in Nat, a + b <= NumPages * PageSize
  PROVE  MapPages(a, b) \subseteq 0 .. NumPages - 1
<1> DEFINE k == PageOf(a)
           f == page_floor(a)
           c == page_ceil(b)
<1>1. k \in Nat /\ f = k * PageSize /\ f \in Nat /\ f <= a /\ PageOf(f) = k
  BY PageBounds, FloorFacts
<1>2. /\ c \in Nat
      /\ \A m \in Int : b <= m * PageSize => c <= m * PageSize
  BY CeilFacts
<1> HIDE DEF k, f, c
<1>3. (NumPages - k) * PageSize = NumPages * PageSize - f
  BY <1>1, Size
<1>4. NumPages * PageSize \in Nat
  BY Size
<1>5. b <= (NumPages - k) * PageSize
  BY <1>1, <1>3, <1>4
<1>6. NumPages - k \in Int
  BY <1>1, Size
<1>7. c <= (NumPages - k) * PageSize
  BY <1>2, <1>5, <1>6
<1>8. f + c <= NumPages * PageSize
  BY <1>1, <1>2, <1>3, <1>4, <1>7
<1>9. ASSUME NEW p \in MapPages(a, b) PROVE p \in 0 .. NumPages - 1
  <2>1. p \in Nat /\ p * PageSize < f + c
    BY <1>9, Size DEF MapPages, PagesOf, f, c
  <2>2. p * PageSize \in Nat
    BY <2>1, Size
  <2>3. p * PageSize < NumPages * PageSize
    BY <1>1, <1>2, <1>4, <1>8, <2>1, <2>2
  <2>4. p < NumPages
    BY <2>1, <2>3, Size, MultipleOrder
  <2> QED
    BY <2>1, <2>4, Size
<1> QED
  BY <1>9

LEMMA SpanBelow ==
  ASSUME NEW a \in Nat, NEW b \in Nat, a + b <= NumPages * PageSize
  PROVE  /\ SpanPages(a, b) \subseteq 0 .. NumPages - 1
         /\ InvalidatedPages(a, b) \subseteq 0 .. NumPages - 1
<1> DEFINE f == page_floor(a)
           c == page_ceil(f + b)
<1>1. f \in Nat /\ f <= a
  BY FloorFacts
<1> HIDE DEF f
<1>2. NumPages * PageSize \in Nat /\ NumPages \in Int
  BY Size
<1>3. f + b \in Nat /\ f + b <= NumPages * PageSize
  BY <1>1, <1>2
<1>4. c \in Nat /\ c <= NumPages * PageSize
  BY <1>2, <1>3, CeilFacts
<1> HIDE DEF c
<1>5. ASSUME NEW p \in 0 .. TotalPages - 1, p * PageSize < NumPages * PageSize
      PROVE  p \in 0 .. NumPages - 1
  <2>1. p \in Nat
    BY Size
  <2>2. p < NumPages
    BY <1>5, <2>1, Size, MultipleOrder
  <2> QED
    BY <2>1, <2>2, Size
<1>6. ASSUME NEW p \in 0 .. TotalPages - 1, p * PageSize < c \/ p * PageSize < a + b
      PROVE  p * PageSize < NumPages * PageSize
  <2>1. p * PageSize \in Nat
    BY Size
  <2> QED
    BY <1>2, <1>4, <1>6, <2>1
<1>7. SpanPages(a, b) \subseteq 0 .. NumPages - 1
  BY <1>5, <1>6 DEF SpanPages, PagesOf, f, c
<1>8. InvalidatedPages(a, b) \subseteq 0 .. NumPages - 1
  BY <1>5, <1>6 DEF InvalidatedPages, PagesOf
<1> QED
  BY <1>7, <1>8

\* Half of the pages of a mapping are pages of the mapping.
LEMMA HalfBelow ==
  ASSUME NEW a \in Nat, NEW b \in Nat
  PROVE  PagesOf(page_floor(a), page_floor(a) + HalfOf(MapPages(a, b)) * PageSize)
           \subseteq MapPages(a, b)
<1> DEFINE P == MapPages(a, b)
           k == PageOf(a)
           f == page_floor(a)
           c == page_ceil(b)
<1>1. k \in Nat /\ f = k * PageSize /\ f \in Nat /\ PageOf(f) = k
  BY PageBounds, FloorFacts
<1>2. PICK m \in Nat : c = m * PageSize
  BY CeilFacts
<1>3. P = {p \in 0 .. TotalPages - 1 : PageOf(f) <= p /\ p * PageSize < f + c}
  BY DEF MapPages, PagesOf
<1> HIDE DEF P, k, f, c
<1>4. (k + m) * PageSize = f + c /\ k + m \in Nat
  BY <1>1, <1>2, Size
<1>5. P \subseteq k .. k + m - 1
  <2>1. ASSUME NEW p \in P PROVE p \in k .. k + m - 1
    <3>1. p \in Nat /\ k <= p /\ p * PageSize < (k + m) * PageSize
      BY <1>1, <1>3, <1>4, Size
    <3>2. p < k + m
      BY <1>4, <3>1, Size, MultipleOrder
    <3> QED
      BY <1>1, <3>1, <3>2
  <2> QED
    BY <2>1
<1>6. k \in Int /\ k + m - 1 \in Int
  BY <1>1
<1>7. IsFiniteSet(k .. k + m - 1) /\ Cardinality(k .. k + m - 1) = m
  <2>1. /\ IsFiniteSet(k .. k + m - 1)
        /\ Cardinality(k .. k + m - 1) = IF k > k + m - 1 THEN 0 ELSE (k + m - 1) - k + 1
    BY <1>6, FS_Interval
  <2> QED
    BY <1>1, <2>1
<1>8. Cardinality(P) \in Nat /\ Cardinality(P) <= m
  BY <1>5, <1>7, FS_Subset, FS_CardinalityType
<1> DEFINE h == HalfOf(P)
<1>9. h \in Nat /\ h <= m
  BY <1>8 DEF HalfOf
<1> HIDE DEF h
<1>10. h * PageSize \in Nat /\ h * PageSize <= m * PageSize
  BY <1>9, Size, MultipleOrder
<1>11. ASSUME NEW p \in PagesOf(f, f + h * PageSize) PROVE p \in P
  <2>1. p \in 0 .. TotalPages - 1 /\ PageOf(f) <= p /\ p * PageSize < f + h * PageSize
    BY DEF PagesOf
  <2>2. p * PageSize \in Nat /\ c \in Nat
    BY <1>2, <2>1, Size
  <2>3. p * PageSize < f + c
    BY <1>1, <1>2, <1>10, <2>1, <2>2
  <2> QED
    BY <1>3, <2>1, <2>3
<1> QED
  BY <1>11 DEF P, f, h

\* On multiples of the page size the three ways to round agree.
LEMMA AlignedPages ==
  ASSUME NEW a \in Nat, page_aligned(a), NEW v \in Nat
  PROVE  /\ page_floor(a) = a
         /\ page_ceil(page_ceil(v)) = page_ceil(v)
         /\ MapPages(a, page_ceil(v)) = PagesOf(a, a + page_ceil(v))
         /\ SpanPages(a, page_ceil(v)) = PagesOf(a, a + page_ceil(v))
<1>1. page_floor(a) = a
  BY DEF page_floor, page_aligned
<1> DEFINE c == page_ceil(v)
<1>2. PICK m \in Nat : c = m * PageSize
  BY CeilFacts
<1>3. PICK k \in Nat : a = k * PageSize
  BY <1>1, PageBounds
<1>4. c \in Nat
  BY CeilFacts
<1> HIDE DEF c
<1>5. page_ceil(c) = c
  <2>1. page_ceil(c) \in Nat /\ c <= page_ceil(c) /\ page_ceil(c) <= m * PageSize
    BY <1>2, <1>4, CeilFacts
  <2> QED
    BY <1>2, <1>4, <2>1
<1>6. page_ceil(a + c) = a + c
  <2>1. (k + m) * PageSize = a + c /\ k + m \in Int
    BY <1>2, <1>3, Size
  <2>2. a + c \in Nat
    BY <1>4
  <2>3. a + c <= (k + m) * PageSize
    BY <2>1, <2>2
  <2>4. page_ceil(a + c) \in Nat /\ a + c <= page_ceil(a + c) /\ page_ceil(a + c) <= (k + m) * PageSize
    BY <2>1, <2>2, <2>3, CeilFacts
  <2> QED
    BY <2>1, <2>2, <2>4
<1> QED
  BY <1>1, <1>5, <1>6 DEF MapPages, SpanPages, c

\* map() invalidates what it maps.
LEMMA MapInvalidated ==
  ASSUME NEW a \in Nat, NEW b \in Nat \ {0}
  PROVE  MapPages(a, b) \subseteq InvalidatedPages(a, b)
<1> DEFINE k == PageOf(a)
           f == page_floor(a)
           c == page_ceil(b)
<1>1. k \in Nat /\ f = k * PageSize /\ f \in Nat /\ f <= a
  BY PageBounds, FloorFacts
<1>2. PICK m \in Nat : c = m * PageSize
  BY CeilFacts
<1>3. c \in Nat /\ \A n \in Int : b <= n * PageSize => c <= n * PageSize
  BY CeilFacts
<1> HIDE DEF k, f, c
<1>4. ASSUME NEW p \in 0 .. TotalPages - 1, p * PageSize < f + c PROVE p * PageSize < a + b
  <2>1. p \in Int /\ p * PageSize \in Nat
    BY Size
  <2>2. (p - k) * PageSize = p * PageSize - f
    BY <1>1, <2>1, Size
  <2>3. SUFFICES ASSUME a + b <= p * PageSize PROVE FALSE
    BY <2>1
  <2>4. b <= (p - k) * PageSize
    BY <1>1, <2>1, <2>2, <2>3
  <2>5. p - k \in Int
    BY <1>1, <2>1
  <2>6. c <= (p - k) * PageSize
    BY <1>3, <2>4, <2>5
  <2> QED
    BY <1>1, <1>3, <1>4, <2>1, <2>2, <2>6
<1> QED
  BY <1>4 DEF MapPages, InvalidatedPages, PagesOf, f, c
-----------------------------------------------------------------------------
\* Address spaces.

\* A space is a record of its memory, its three kinds of right, its dirty bits.
SpaceOf(m, r, w, x, d) ==
  [mem |-> m, readmap |-> r, writemap |-> w, execmap |-> x, dirtymap |-> d]

Fields(s) == s = SpaceOf(s.mem, s.readmap, s.writemap, s.execmap, s.dirtymap)

LEMMA FieldsOf ==
  ASSUME NEW m, NEW r, NEW w, NEW x, NEW d, NEW s, s = SpaceOf(m, r, w, x, d)
  PROVE  /\ Fields(s)
         /\ s.mem = m /\ s.readmap = r /\ s.writemap = w /\ s.execmap = x /\ s.dirtymap = d
  BY DEF Fields, SpaceOf

LEMMA MemField ==
  ASSUME NEW s, Fields(s), NEW m
  PROVE  [s EXCEPT !.mem = m] = SpaceOf(m, s.readmap, s.writemap, s.execmap, s.dirtymap)
<1>1. PICK n, r, w, x, d : s = SpaceOf(n, r, w, x, d)
  BY DEF Fields
<1>2. s.mem = n /\ s.readmap = r /\ s.writemap = w /\ s.execmap = x /\ s.dirtymap = d
  BY <1>1, FieldsOf
<1>3. [s EXCEPT !.mem = m] = SpaceOf(m, r, w, x, d)
  BY <1>1 DEF SpaceOf
<1> QED
  BY <1>2, <1>3

LEMMA DirtyField ==
  ASSUME NEW s, Fields(s), NEW d
  PROVE  [s EXCEPT !.dirtymap = d] = SpaceOf(s.mem, s.readmap, s.writemap, s.execmap, d)
<1>1. PICK n, r, w, x, e : s = SpaceOf(n, r, w, x, e)
  BY DEF Fields
<1>2. s.mem = n /\ s.readmap = r /\ s.writemap = w /\ s.execmap = x /\ s.dirtymap = e
  BY <1>1, FieldsOf
<1>3. [s EXCEPT !.dirtymap = d] = SpaceOf(n, r, w, x, d)
  BY <1>1 DEF SpaceOf
<1> QED
  BY <1>2, <1>3

LEMMA RightFields ==
  ASSUME NEW s, Fields(s), NEW r, NEW w, NEW x
  PROVE  [s EXCEPT !.readmap = r, !.writemap = w, !.execmap = x]
           = SpaceOf(s.mem, r, w, x, s.dirtymap)
<1>1. PICK n, r0, w0, x0, d : s = SpaceOf(n, r0, w0, x0, d)
  BY DEF Fields
<1>2. s.mem = n /\ s.dirtymap = d
  BY <1>1, FieldsOf
<1> DEFINE s1 == [s EXCEPT !.readmap = r]
           s2 == [s1 EXCEPT !.writemap = w]
           s3 == [s2 EXCEPT !.execmap = x]
<1>3. s1 = SpaceOf(n, r, w0, x0, d)
  BY <1>1 DEF SpaceOf
<1>4. [s EXCEPT !.readmap = r, !.writemap = w, !.execmap = x] = s3
  OBVIOUS
<1> HIDE DEF s1
<1>5. s2 = SpaceOf(n, r, w, x0, d)
  BY <1>3 DEF SpaceOf
<1> HIDE DEF s2
<1>6. s3 = SpaceOf(n, r, w, x, d)
  BY <1>5 DEF SpaceOf
<1> QED
  BY <1>2, <1>4, <1>6

\* The pages below 2^48.
Low == 0 .. NumPages - 1

LEMMA LowId ==
  ASSUME NEW ps \in SUBSET Low
  PROVE  /\ \A p \in Low : pageid(p) = p
         /\ {pageid(p) : p \in ps} = ps
         /\ ps \subseteq Nat
<1>1. \A p \in Low : pageid(p) = p /\ p \in Nat
  BY Size DEF pageid, Low
<1> QED
  BY <1>1

(***************************************************************************)
(* mapped_mem_ holds whole pages below 2^48, and only they have rights.    *)
(***************************************************************************)
WholePages(s) ==
  /\ DOMAIN s.mem \subseteq Nat
  /\ \A a \in Nat : (\E b \in DOMAIN s.mem : PageOf(b) = PageOf(a)) => a \in DOMAIN s.mem
  /\ \A a \in DOMAIN s.mem : PageOf(a) \in Low

Rights(s) == s.readmap \cup s.writemap \cup s.execmap

SpaceOK(s) == Fields(s) /\ WholePages(s) /\ Rights(s) \subseteq MappedPages(s)

\* What is outside the pages ps, and what is dirty, is the same in s and t.
Keeps(s, t, ps) ==
  /\ t.dirtymap = s.dirtymap
  /\ \A p : p \notin ps => /\ p \in t.readmap <=> p \in s.readmap
                           /\ p \in t.writemap <=> p \in s.writemap
                           /\ p \in t.execmap <=> p \in s.execmap
  /\ \A a \in Nat : PageOf(a) \notin ps => /\ a \in DOMAIN t.mem <=> a \in DOMAIN s.mem
                                           /\ a \in DOMAIN s.mem => t.mem[a] = s.mem[a]

LEMMA KeepsAll == ASSUME NEW s PROVE Keeps(s, s, {})
  BY DEF Keeps

LEMMA KeepsThen ==
  ASSUME NEW s, NEW t, NEW u, NEW ps, NEW qs, Keeps(s, t, ps), Keeps(t, u, qs)
  PROVE  Keeps(s, u, ps \cup qs)
  BY DEF Keeps

LEMMA KeepsMore ==
  ASSUME NEW s, NEW t, NEW ps, NEW qs, Keeps(s, t, ps), ps \subseteq qs
  PROVE  Keeps(s, t, qs)
  BY DEF Keeps

\* Whole pages are known by their pages.
LEMMA UnitsWhole ==
  ASSUME NEW s, WholePages(s)
  PROVE  /\ DOMAIN s.mem = UnitsOf(MappedPages(s))
         /\ MappedPages(s) \subseteq Low
         /\ \A a \in Nat : a \in DOMAIN s.mem <=> PageOf(a) \in MappedPages(s)
<1>1. MappedPages(s) \subseteq Low
  BY DEF MappedPages, WholePages
<1>2. MappedPages(s) \in SUBSET Nat
  BY <1>1, Size DEF Low
<1>3. \A a \in Nat : a \in DOMAIN s.mem <=> PageOf(a) \in MappedPages(s)
  BY DEF MappedPages, WholePages
<1>4. \A a : a \in UnitsOf(MappedPages(s)) <=> a \in Nat /\ PageOf(a) \in MappedPages(s)
  BY <1>2, UnitsIff
<1>5. \A a : a \in UnitsOf(MappedPages(s)) <=> a \in DOMAIN s.mem
  BY <1>3, <1>4 DEF WholePages
<1> QED
  BY <1>1, <1>3, <1>5

\* A change of bytes only.
LEMMA BytesOK ==
  ASSUME NEW s, SpaceOK(s), NEW m, DOMAIN m = DOMAIN s.mem, NEW ps,
         \A a \in DOMAIN s.mem : PageOf(a) \notin ps => m[a] = s.mem[a],
         NEW t, t = SpaceOf(m, s.readmap, s.writemap, s.execmap, s.dirtymap)
  PROVE  SpaceOK(t) /\ Keeps(s, t, ps)
<1>1. /\ Fields(t) /\ t.mem = m /\ t.readmap = s.readmap /\ t.writemap = s.writemap
      /\ t.execmap = s.execmap /\ t.dirtymap = s.dirtymap
  BY FieldsOf
<1>2. SpaceOK(t)
  BY <1>1 DEF SpaceOK, WholePages, MappedPages, Rights
<1> QED
  BY <1>1, <1>2 DEF Keeps

\* make_accessible and make_inaccessible reach the pages ps and no others.
LEMMA ShadowBits ==
  ASSUME NEW bits, NEW ps \in SUBSET Low, NEW prot, NEW k
  PROVE  LET b == Shadow(bits, ps, k \in prot)
         IN  /\ \A p : p \notin ps => (p \in b <=> p \in bits)
             /\ \A p \in ps : p \in b <=> k \in prot
<1> DEFINE ids == {pageid(p) : p \in ps}
<1>1. ids = ps
  BY LowId
<1>2. CASE k \in prot
  <2>1. Shadow(bits, ps, k \in prot) = bits \cup ids
    BY <1>2 DEF Shadow
  <2> QED
    BY <1>1, <1>2, <2>1
<1>3. CASE k \notin prot
  <2>1. Shadow(bits, ps, k \in prot) = bits \ ids
    BY <1>3 DEF Shadow
  <2> QED
    BY <1>1, <1>3, <2>1
<1> QED
  BY <1>2, <1>3

\* setattr() gives the pages ps the rights prot.
LEMMA SetattrIs ==
  ASSUME NEW s, Fields(s), NEW ps \in SUBSET Low, NEW prot,
         NEW t, t = setattr(s, ps, prot)
  PROVE  /\ Fields(t) /\ t.mem = s.mem
         /\ Keeps(s, t, ps)
         /\ Rights(t) \subseteq Rights(s) \cup ps
         /\ prot = {} => Rights(t) \cap ps = {}
<1> DEFINE r == Shadow(s.readmap, ps, "r" \in prot)
           w == Shadow(s.writemap, ps, "w" \in prot)
           x == Shadow(s.execmap, ps, "x" \in prot)
<1>1. t = [s EXCEPT !.readmap = r, !.writemap = w, !.execmap = x]
  BY DEF setattr
<1>2. /\ \A p : p \notin ps => (p \in r <=> p \in s.readmap)
      /\ \A p \in ps : p \in r <=> "r" \in prot
  BY ShadowBits
<1>3. /\ \A p : p \notin ps => (p \in w <=> p \in s.writemap)
      /\ \A p \in ps : p \in w <=> "w" \in prot
  BY ShadowBits
<1>4. /\ \A p : p \notin ps => (p \in x <=> p \in s.execmap)
      /\ \A p \in ps : p \in x <=> "x" \in prot
  BY ShadowBits
<1> HIDE DEF r, w, x
<1>5. t = SpaceOf(s.mem, r, w, x, s.dirtymap)
  BY <1>1, RightFields
<1>6. /\ Fields(t) /\ t.mem = s.mem /\ t.readmap = r /\ t.writemap = w
      /\ t.execmap = x /\ t.dirtymap = s.dirtymap
  BY <1>5, FieldsOf
<1>7. Keeps(s, t, ps)
  BY <1>2, <1>3, <1>4, <1>6 DEF Keeps
<1>8. Rights(t) \subseteq Rights(s) \cup ps
  BY <1>2, <1>3, <1>4, <1>6 DEF Rights
<1>9. ASSUME prot = {} PROVE Rights(t) \cap ps = {}
  <2>1. \A p \in ps : p \notin r /\ p \notin w /\ p \notin x
    BY <1>2, <1>3, <1>4, <1>9
  <2> QED
    BY <1>6, <2>1 DEF Rights
<1> QED
  BY <1>6, <1>7, <1>8, <1>9

\* Fresh pages replace what is there and take no right away.
LEMMA FreshOK ==
  ASSUME NEW s, SpaceOK(s), NEW ps \in SUBSET Low, NEW t, t = FreshPages(s, ps)
  PROVE  SpaceOK(t) /\ Keeps(s, t, ps) /\ ps \subseteq MappedPages(t)
<1> DEFINE m == Override([a \in UnitsOf(ps) |-> 0], s.mem)
<1>1. t = SpaceOf(m, s.readmap, s.writemap, s.execmap, s.dirtymap)
  BY MemField DEF FreshPages, SpaceOK
<1>2. /\ Fields(t) /\ t.mem = m /\ t.readmap = s.readmap /\ t.writemap = s.writemap
      /\ t.execmap = s.execmap /\ t.dirtymap = s.dirtymap
  BY <1>1, FieldsOf
<1>3. /\ DOMAIN m = UnitsOf(ps) \cup DOMAIN s.mem
      /\ \A a \in DOMAIN s.mem : a \notin UnitsOf(ps) => m[a] = s.mem[a]
  BY DEF Override
<1> HIDE DEF m
<1>4. \A a : a \in UnitsOf(ps) <=> a \in Nat /\ PageOf(a) \in ps
  BY LowId, UnitsIff
<1>5. Keeps(s, t, ps)
  BY <1>2, <1>3, <1>4 DEF Keeps
<1>6. DOMAIN s.mem \subseteq Nat
  BY DEF SpaceOK, WholePages
<1>7. WholePages(t)
  <2>1. DOMAIN m \subseteq Nat
    BY <1>3, <1>4, <1>6
  <2>2. ASSUME NEW a \in Nat, NEW b \in DOMAIN m, PageOf(b) = PageOf(a) PROVE a \in DOMAIN m
    <3>1. CASE b \in UnitsOf(ps)
      BY <1>3, <1>4, <2>2, <3>1
    <3>2. CASE b \in DOMAIN s.mem
      BY <1>3, <2>2, <3>2 DEF SpaceOK, WholePages
    <3> QED
      BY <1>3, <3>1, <3>2
  <2>3. \A a \in DOMAIN m : PageOf(a) \in Low
    BY <1>3, <1>4 DEF SpaceOK, WholePages
  <2> QED
    BY <1>2, <2>1, <2>2, <2>3 DEF WholePages
<1>8. ps \subseteq MappedPages(t)
  <2>1. ASSUME NEW p \in ps PROVE p \in MappedPages(t)
    <3>1. p * PageSize \in Nat /\ PageOf(p * PageSize) = p
      BY LowId, FirstUnit
    <3>2. p * PageSize \in DOMAIN m
      BY <1>3, <1>4, <3>1
    <3> QED
      BY <1>2, <3>1, <3>2 DEF MappedPages
  <2> QED
    BY <2>1
<1>9. MappedPages(s) \subseteq MappedPages(t)
  BY <1>2, <1>3 DEF MappedPages
<1>10. Rights(t) \subseteq MappedPages(t)
  BY <1>2, <1>9 DEF Rights, SpaceOK
<1> QED
  BY <1>2, <1>5, <1>7, <1>8, <1>10 DEF SpaceOK

\* setattr() of mapped pages.
LEMMA SetattrOK ==
  ASSUME NEW s, SpaceOK(s), NEW ps \in SUBSET Low, ps \subseteq MappedPages(s), NEW prot,
         NEW t, t = setattr(s, ps, prot)
  PROVE  SpaceOK(t) /\ Keeps(s, t, ps) /\ t.mem = s.mem
<1>1. /\ Fields(t) /\ t.mem = s.mem /\ Keeps(s, t, ps)
      /\ Rights(t) \subseteq Rights(s) \cup ps
  BY SetattrIs DEF SpaceOK
<1>2. WholePages(t) /\ MappedPages(t) = MappedPages(s)
  BY <1>1 DEF SpaceOK, WholePages, MappedPages
<1> QED
  BY <1>1, <1>2 DEF SpaceOK

LEMMA MapOK ==
  ASSUME NEW s, SpaceOK(s), NEW a, NEW b, MapPages(a, b) \subseteq Low, NEW prot,
         NEW t, t = map_or_throw(s, a, b, prot)
  PROVE  SpaceOK(t) /\ Keeps(s, t, MapPages(a, b)) /\ MapPages(a, b) \subseteq MappedPages(t)
<1> DEFINE ps == MapPages(a, b)
           u == FreshPages(s, ps)
<1>1. t = setattr(u, ps, prot)
  BY DEF map_or_throw
<1>2. ps \in SUBSET Low
  OBVIOUS
<1>3. SpaceOK(u) /\ Keeps(s, u, ps) /\ ps \subseteq MappedPages(u)
  BY <1>2, FreshOK
<1> HIDE DEF u, ps
<1>4. SpaceOK(t) /\ Keeps(u, t, ps) /\ t.mem = u.mem
  BY <1>1, <1>2, <1>3, SetattrOK
<1>5. Keeps(s, t, ps \cup ps)
  BY <1>3, <1>4, KeepsThen
<1>6. ps \cup ps = ps
  OBVIOUS
<1>7. ps \subseteq MappedPages(t)
  BY <1>3, <1>4 DEF MappedPages
<1> QED
  BY <1>4, <1>5, <1>6, <1>7 DEF ps

\* map() that fails half-way.
LEMMA BadAllocOK ==
  ASSUME NEW s, SpaceOK(s), NEW a \in Nat, NEW b \in Nat, MapPages(a, b) \subseteq Low,
         NEW t, t = MapBadAlloc(s, a, HalfOf(MapPages(a, b)))
  PROVE  SpaceOK(t) /\ Keeps(s, t, MapPages(a, b))
<1> DEFINE ps == PagesOf(page_floor(a), page_floor(a) + HalfOf(MapPages(a, b)) * PageSize)
<1>1. ps \subseteq MapPages(a, b)
  BY HalfBelow
<1>2. t = FreshPages(s, ps)
  BY DEF MapBadAlloc
<1> HIDE DEF ps
<1>3. ps \in SUBSET Low
  BY <1>1
<1>4. SpaceOK(t) /\ Keeps(s, t, ps)
  BY <1>2, <1>3, FreshOK
<1> QED
  BY <1>1, <1>4, KeepsMore

\* unmap() of pages takes their memory and their rights.
LEMMA UnmapPages ==
  ASSUME NEW s, SpaceOK(s), NEW ps \in SUBSET Low,
         NEW t, t = setattr([s EXCEPT !.mem = Restrict(@, DOMAIN @ \ UnitsOf(ps))], ps, {})
  PROVE  SpaceOK(t) /\ Keeps(s, t, ps)
<1> DEFINE m == Restrict(s.mem, DOMAIN s.mem \ UnitsOf(ps))
           u == [s EXCEPT !.mem = m]
<1>1. t = setattr(u, ps, {})
  OBVIOUS
<1>2. u = SpaceOf(m, s.readmap, s.writemap, s.execmap, s.dirtymap)
  BY MemField DEF SpaceOK
<1>3. /\ DOMAIN m = DOMAIN s.mem \ UnitsOf(ps)
      /\ \A a \in DOMAIN m : m[a] = s.mem[a]
  BY DEF Restrict
<1> HIDE DEF m, u
<1>4. /\ Fields(u) /\ u.mem = m /\ u.readmap = s.readmap /\ u.writemap = s.writemap
      /\ u.execmap = s.execmap /\ u.dirtymap = s.dirtymap
  BY <1>2, FieldsOf
<1>5. \A a : a \in UnitsOf(ps) <=> a \in Nat /\ PageOf(a) \in ps
  BY LowId, UnitsIff
<1>6. Keeps(s, u, ps)
  BY <1>3, <1>4, <1>5 DEF Keeps
<1>7. /\ Fields(t) /\ t.mem = u.mem /\ Keeps(u, t, ps)
      /\ Rights(t) \subseteq Rights(u) \cup ps
      /\ Rights(t) \cap ps = {}
  BY <1>1, <1>4, SetattrIs
<1>8. Keeps(s, t, ps \cup ps)
  BY <1>6, <1>7, KeepsThen
<1>9. ps \cup ps = ps
  OBVIOUS
<1>10. t.mem = m
  BY <1>4, <1>7
<1>11. WholePages(t)
  <2>1. DOMAIN m \subseteq Nat /\ \A a \in DOMAIN m : PageOf(a) \in Low
    BY <1>3 DEF SpaceOK, WholePages
  <2>2. ASSUME NEW a \in Nat, NEW b \in DOMAIN m, PageOf(b) = PageOf(a) PROVE a \in DOMAIN m
    <3>1. b \in DOMAIN s.mem /\ PageOf(b) \notin ps
      BY <1>3, <1>5, <2>1
    <3>2. a \in DOMAIN s.mem
      BY <2>2, <3>1 DEF SpaceOK, WholePages
    <3> QED
      BY <1>3, <1>5, <2>2, <3>1, <3>2
  <2> QED
    BY <1>10, <2>1, <2>2 DEF WholePages
<1>12. ASSUME NEW p \in Rights(t) PROVE p \in MappedPages(t)
  <2>1. p \in Rights(s) /\ p \notin ps
    BY <1>4, <1>7 DEF Rights
  <2>2. PICK a \in DOMAIN s.mem : PageOf(a) = p
    BY <2>1 DEF SpaceOK, MappedPages
  <2>3. a \in DOMAIN m
    BY <1>3, <1>5, <2>1, <2>2
  <2> QED
    BY <1>10, <2>2, <2>3 DEF MappedPages
<1> QED
  BY <1>7, <1>8, <1>9, <1>11, <1>12 DEF SpaceOK

LEMMA UnmapOK ==
  ASSUME NEW s, SpaceOK(s), NEW a, NEW b, SpanPages(a, b) \subseteq Low,
         NEW t, t = unmap(s, a, b)
  PROVE  SpaceOK(t) /\ Keeps(s, t, SpanPages(a, b))
<1>1. CASE t = s
  BY <1>1, KeepsAll, KeepsMore
<1>2. CASE t # s
  <2>1. t = setattr([s EXCEPT !.mem = Restrict(@, DOMAIN @ \ UnitsOf(SpanPages(a, b)))],
                    SpanPages(a, b), {})
    BY <1>2 DEF unmap
  <2> DEFINE ps == SpanPages(a, b)
  <2>2. ps \in SUBSET Low
    OBVIOUS
  <2> QED
    BY <2>1, <2>2, UnmapPages
<1> QED
  BY <1>1, <1>2

LEMMA ProtectOK ==
  ASSUME NEW s, SpaceOK(s), NEW a, NEW b, SpanPages(a, b) \subseteq Low,
         ProtectError(s, a, b) = "none", NEW prot, NEW t, t = protect(s, a, b, prot)
  PROVE  SpaceOK(t) /\ Keeps(s, t, SpanPages(a, b))
<1>1. SpanPages(a, b) \subseteq MappedPages(s)
  BY DEF ProtectError
<1> QED
  BY <1>1, SetattrOK DEF protect

\* A write stays inside the memory it finds.
LEMMA WrittenIn ==
  ASSUME NEW s, NEW a, NEW n
  PROVE  Written(s, a, n) \subseteq DOMAIN s.mem /\ Written(s, a, n) \subseteq a .. a + n - 1
<1>1. ASSUME NEW x \in Written(s, a, n) PROVE x \in DOMAIN s.mem /\ x \in a .. a + n - 1
  <2>1. x \in a .. a + n - 1 /\ a .. x \subseteq DOMAIN s.mem
    BY DEF Written
  <2>2. x \in a .. x
    BY <2>1
  <2> QED
    BY <2>1, <2>2
<1> QED
  BY <1>1

LEMMA WriteOK ==
  ASSUME NEW s, SpaceOK(s), NEW a, NEW n, NEW v, NEW t, t = write(s, a, n, v)
  PROVE  /\ SpaceOK(t) /\ DOMAIN t.mem = DOMAIN s.mem
         /\ Keeps(s, t, {PageOf(x) : x \in Written(s, a, n)})
<1> DEFINE W == Written(s, a, n)
           f == [x \in W |-> v]
           m == Override(f, s.mem)
           ps == {PageOf(x) : x \in W}
<1>1. W \subseteq DOMAIN s.mem
  BY WrittenIn
<1>2. t = [s EXCEPT !.mem = m]
  BY DEF write
<1>3. DOMAIN m = DOMAIN s.mem /\ \A b \in DOMAIN s.mem : b \notin W => m[b] = s.mem[b]
  BY <1>1 DEF Override
<1>4. \A b \in W : PageOf(b) \in ps
  OBVIOUS
<1> HIDE DEF f, m, ps, W
<1>5. \A b \in DOMAIN s.mem : PageOf(b) \notin ps => m[b] = s.mem[b]
  BY <1>3, <1>4
<1>6. t = SpaceOf(m, s.readmap, s.writemap, s.execmap, s.dirtymap)
  BY <1>2, MemField DEF SpaceOK
<1>7. DOMAIN t.mem = DOMAIN s.mem
  BY <1>3, <1>6 DEF SpaceOf
<1>8. SpaceOK(t) /\ Keeps(s, t, ps)
  BY <1>3, <1>5, <1>6, BytesOK
<1> QED
  BY <1>7, <1>8 DEF ps, W

LEMMA WriteBlockOK ==
  ASSUME NEW s, SpaceOK(s), NEW a, NEW block, NEW t, t = WriteBlock(s, a, block)
  PROVE  /\ SpaceOK(t) /\ DOMAIN t.mem = DOMAIN s.mem
         /\ Keeps(s, t, {PageOf(x) : x \in Written(s, a, Cardinality(DOMAIN block))})
<1> DEFINE W == Written(s, a, Cardinality(DOMAIN block))
           f == [x \in W |-> block[x - a]]
           m == Override(f, s.mem)
           ps == {PageOf(x) : x \in W}
<1>1. W \subseteq DOMAIN s.mem
  BY WrittenIn
<1>2. t = [s EXCEPT !.mem = m]
  BY DEF WriteBlock
<1>3. DOMAIN m = DOMAIN s.mem /\ \A b \in DOMAIN s.mem : b \notin W => m[b] = s.mem[b]
  BY <1>1 DEF Override
<1>4. \A b \in W : PageOf(b) \in ps
  OBVIOUS
<1> HIDE DEF f, m, ps, W
<1>5. \A b \in DOMAIN s.mem : PageOf(b) \notin ps => m[b] = s.mem[b]
  BY <1>3, <1>4
<1>6. t = SpaceOf(m, s.readmap, s.writemap, s.execmap, s.dirtymap)
  BY <1>2, MemField DEF SpaceOK
<1>7. DOMAIN t.mem = DOMAIN s.mem
  BY <1>3, <1>6 DEF SpaceOf
<1>8. SpaceOK(t) /\ Keeps(s, t, ps)
  BY <1>3, <1>5, <1>6, BytesOK
<1> QED
  BY <1>7, <1>8 DEF ps, W

LEMMA StringsOK ==
  ASSUME NEW s, SpaceOK(s), NEW at, NEW lens, NEW mark,
         NEW t, t = WriteStrings(s, at, lens, mark)
  PROVE  SpaceOK(t)
<1> DEFINE W == (UNION {at[i] .. at[i] + lens[i] - 1 : i \in DOMAIN lens}) \cap DOMAIN s.mem
           f == [x \in W |-> mark]
           m == Override(f, s.mem)
           ps == {PageOf(x) : x \in W}
<1>1. W \subseteq DOMAIN s.mem
  OBVIOUS
<1>2. t = [s EXCEPT !.mem = m]
  BY DEF WriteStrings
<1>3. DOMAIN m = DOMAIN s.mem /\ \A a \in DOMAIN s.mem : a \notin W => m[a] = s.mem[a]
  BY <1>1 DEF Override
<1>4. \A a \in W : PageOf(a) \in ps
  OBVIOUS
<1> HIDE DEF f, m, ps, W
<1>5. \A a \in DOMAIN s.mem : PageOf(a) \notin ps => m[a] = s.mem[a]
  BY <1>3, <1>4
<1>6. t = SpaceOf(m, s.readmap, s.writemap, s.execmap, s.dirtymap)
  BY <1>2, MemField DEF SpaceOK
<1>7. DOMAIN t.mem = DOMAIN s.mem
  BY <1>3, <1>6 DEF SpaceOf
<1>8. SpaceOK(t) /\ Keeps(s, t, ps)
  BY <1>3, <1>5, <1>6, BytesOK
<1> QED
  BY <1>7, <1>8 DEF ps, W

LEMMA ClearDirtyIs ==
  ASSUME NEW s, SpaceOK(s), NEW ps \in SUBSET Low, NEW t, t = cleardirty(s, ps)
  PROVE  /\ SpaceOK(t) /\ t.mem = s.mem /\ t.readmap = s.readmap /\ t.writemap = s.writemap
         /\ t.execmap = s.execmap /\ t.dirtymap = s.dirtymap \ ps
<1>1. {pageid(p) : p \in ps} = ps
  BY LowId
<1>2. t = [s EXCEPT !.dirtymap = s.dirtymap \ ps]
  BY <1>1 DEF cleardirty
<1>3. t = SpaceOf(s.mem, s.readmap, s.writemap, s.execmap, s.dirtymap \ ps)
  BY <1>2, DirtyField DEF SpaceOK
<1>4. /\ Fields(t) /\ t.mem = s.mem /\ t.readmap = s.readmap /\ t.writemap = s.writemap
      /\ t.execmap = s.execmap /\ t.dirtymap = s.dirtymap \ ps
  BY <1>3, FieldsOf
<1> QED
  BY <1>4 DEF SpaceOK, WholePages, Rights, MappedPages
-----------------------------------------------------------------------------
\* What the system calls do to the memory of the guest.

(***************************************************************************)
(* One address space is edited: its pages ps change, the blocks of the     *)
(* pages drop are dropped.  No block of a changed page that is executable  *)
(* stays (unless someone writes to such pages), and a changed page that    *)
(* was mapped is one that the call names.                                  *)
(***************************************************************************)
Becomes(x, t, ps, drop) ==
  /\ x \in Space
  /\ SpaceOK(t)
  /\ Keeps(spaces[x], t, ps)
  /\ drop \subseteq Low
  /\ spaces' = [spaces EXCEPT ![x] = cleardirty(t, drop)]
  /\ decoded' = DropDecoded(decoded, drop)
  /\ ~StaleCodePaths => ps \cap spaces[x].execmap \subseteq drop
  /\ ps \cap MappedPages(spaces[x]) \subseteq last'.pages
  /\ last'.op # "execute"

Edits == \E x, t, ps, drop : Becomes(x, t, ps, drop)

\* A guest is running in an address space that is in order.
Running == current \in Space /\ SpaceOK(as)

LEMMA SyscallEdits ==
  ASSUME Running, NEW t, NEW drop \in SUBSET Low, NEW ret, NEW op, op # "execute",
         NEW pages, NEW from, NEW moved,
         SyscallReturns(t, drop, ret, DoneFrom(op, pages, from, moved)),
         NEW ps, SpaceOK(t), Keeps(as, t, ps),
         ~StaleCodePaths => ps \cap as.execmap \subseteq drop,
         ps \cap MappedPages(as) \subseteq pages
  PROVE  Edits
<1>1. last'.pages = pages /\ last'.op = op
  BY DEF SyscallReturns, DoneFrom
<1>2. Becomes(current, t, ps, drop)
  BY <1>1 DEF Becomes, Running, SyscallReturns, as
<1> QED
  BY <1>2 DEF Edits

LEMMA ReturnsEdits ==
  ASSUME Running, NEW op, op # "execute", NEW ret, Returns(op, ret)
  PROVE  Edits
<1>1. SyscallReturns(as, {}, ret, DoneFrom(op, {}, 0, 0))
  BY DEF Returns, Done
<1>2. Keeps(as, as, {}) /\ SpaceOK(as)
  BY KeepsAll DEF Running
<1> QED
  BY <1>1, <1>2, SyscallEdits

LEMMA WriteEdits ==
  ASSUME Running, NEW a, NEW n, NEW v, BufferAllowed(a, n), NEW op, op # "execute", NEW ret, NEW moved,
         SyscallReturns(write(as, a, n, v), {}, ret,
                        Done(op, {PageOf(x) : x \in Written(as, a, n)}, moved))
  PROVE  Edits
<1> DEFINE t == write(as, a, n, v)
           ps == {PageOf(x) : x \in Written(as, a, n)}
<1>1. SyscallReturns(t, {}, ret, DoneFrom(op, ps, 0, moved))
  BY DEF Done
<1>2. SpaceOK(t) /\ Keeps(as, t, ps)
  BY WriteOK DEF Running
<1>3. ~StaleCodePaths => ps \cap as.execmap \subseteq {}
  BY DEF BufferAllowed
<1> HIDE DEF t, ps
<1> QED
  BY <1>1, <1>2, <1>3, SyscallEdits

LEMMA WritesGuestEdits ==
  ASSUME Running, NEW op, op # "execute", NEW a, NEW n, NEW v, NEW ok, WritesGuest(op, a, n, v, ok)
  PROVE  Edits
  BY WriteEdits DEF WritesGuest

\* brk maps the pages between the old end of the heap and the new one.
LEMMA SysBrkEdits ==
  ASSUME Running, brk.mapped_end \in Nat, NEW r \in Nat, SysBrk(r),
         r <= NumPages * PageSize \/ ~Ceilable(r)
  PROVE  Edits
<1> DEFINE end == page_ceil(r)
           size == end - brk.mapped_end
           grows == end > brk.mapped_end
           ps == MapPages(brk.mapped_end, size)
           none == Value(brk.current)
<1>1. CASE SyscallReturns(as, {}, none, Done("brk", {}, 0))
  BY <1>1, ReturnsEdits DEF Returns
<1>2. CASE /\ Ceilable(r) /\ ~grows
           /\ SyscallReturns(as, {}, Value(r), Done("brk", {}, 0))
  BY <1>2, ReturnsEdits DEF Returns
<1>3. ASSUME Ceilable(r), grows PROVE size \in Nat /\ ps \subseteq Low
  <2>1. NumPages \in Int /\ r <= NumPages * PageSize
    BY <1>3, Size
  <2>2. end \in Nat /\ end <= NumPages * PageSize
    BY <2>1, CeilFacts
  <2> HIDE DEF end
  <2>3. size \in Nat /\ brk.mapped_end + size <= NumPages * PageSize
    BY <1>3, <2>2
  <2> HIDE DEF size
  <2> QED
    BY <2>3, MapBelow DEF Low
<1>4. CASE /\ Ceilable(r) /\ grows
           /\ SyscallReturns(map_or_throw(as, brk.mapped_end, size, {"r", "w"}), ps,
                             Value(r), Done("brk", ps, 0))
  <2> DEFINE t == map_or_throw(as, brk.mapped_end, size, {"r", "w"})
  <2>1. SpaceOK(t) /\ Keeps(as, t, ps) /\ ps \in SUBSET Low
    BY <1>3, <1>4, MapOK DEF Running
  <2>2. SyscallReturns(t, ps, Value(r), DoneFrom("brk", ps, 0, 0))
    BY <1>4 DEF Done
  <2> HIDE DEF t, ps
  <2> QED
    BY <2>1, <2>2, SyscallEdits
<1>5. CASE /\ Ceilable(r) /\ grows /\ BadAllocAllowed(ps)
           /\ SyscallReturns(MapBadAlloc(as, brk.mapped_end, HalfOf(ps)), {}, none, Done("brk", ps, 0))
  <2> DEFINE t == MapBadAlloc(as, brk.mapped_end, HalfOf(ps))
  <2>1. SpaceOK(t) /\ Keeps(as, t, ps)
    <3> HIDE DEF size
    <3> QED
      BY <1>3, <1>5, BadAllocOK DEF Running
  <2>2. SyscallReturns(t, {}, none, DoneFrom("brk", ps, 0, 0))
    BY <1>5 DEF Done
  <2>3. ~StaleCodePaths => ps \cap as.execmap \subseteq {}
    BY <1>5 DEF BadAllocAllowed
  <2> HIDE DEF t, ps, none
  <2> QED
    BY <2>1, <2>2, <2>3, SyscallEdits
<1> QED
  BY <1>1, <1>2, <1>4, <1>5 DEF SysBrk

LEMMA PageMono ==
  ASSUME NEW a \in Nat, NEW b \in Nat, a <= b
  PROVE  PageOf(a) <= PageOf(b)
<1> DEFINE p == PageOf(a)
           q == PageOf(b)
<1>1. /\ p \in Nat /\ p * PageSize \in Nat /\ p * PageSize <= a
      /\ q \in Nat /\ q * PageSize \in Nat /\ b < q * PageSize + PageSize
  BY PageBounds
<1> HIDE DEF p, q
<1>2. (q + 1) * PageSize = q * PageSize + PageSize
  BY <1>1, Size, MultipleOrder
<1>3. p * PageSize < (q + 1) * PageSize
  BY <1>1, <1>2, Size
<1>4. p < q + 1
  BY <1>1, <1>3, Size, MultipleOrder
<1> QED
  BY <1>1, <1>4 DEF p, q

\* A unit of a range is on a page of the range.
LEMMA RangePage ==
  ASSUME NEW a \in Nat, NEW c \in Nat, NEW x \in Nat, a <= x, x < a + c, PageOf(x) \in Low
  PROVE  PageOf(x) \in PagesOf(a, a + c)
<1>1. PageOf(a) <= PageOf(x)
  BY PageMono
<1>2. PageOf(x) \in 0 .. TotalPages - 1
  BY AddressAssumption DEF Low
<1>3. PageOf(x) * PageSize \in Nat /\ PageOf(x) * PageSize <= x
  BY PageBounds
<1>4. PageOf(x) * PageSize < a + c
  BY <1>3
<1> QED
  BY <1>1, <1>2, <1>4 DEF PagesOf

LEMMA TopNat == Top \in Nat
  BY Size DEF Top

\* Arguments that do not overflow stay below 2^48.
LEMMA CanonicalBelow ==
  ASSUME NEW a \in Nat, NEW v \in Nat, Canonical(a, v),
         a <= Top - 1 - page_ceil(v) \/ ~range_overflows(a, page_ceil(v))
  PROVE  a + page_ceil(v) <= NumPages * PageSize
<1> DEFINE c == page_ceil(v)
<1>1. c \in Nat /\ v <= c
  BY CeilFacts
<1> HIDE DEF c
<1>2. Canonical(a, v) <=> a + c <= NumPages * PageSize \/ range_overflows(a, v)
  BY DEF Canonical, c
<1>3. a <= Top - 1 - c \/ ~range_overflows(a, c)
  BY DEF c
<1>4. ~range_overflows(a, v)
  <2>1. CASE a <= Top - 1 - c
    BY <1>1, <2>1, TopNat DEF range_overflows
  <2>2. CASE ~range_overflows(a, c)
    BY <1>1, <2>2, TopNat DEF range_overflows
  <2> QED
    BY <1>3, <2>1, <2>2
<1> QED
  BY <1>2, <1>4 DEF c

\* The range find_unmapped_range finds is aligned and free.
LEMMA FreeFound ==
  ASSUME NEW s, NEW cursor \in Nat, NEW length \in Nat, FreeRanges(s, cursor, length) # {},
         NEW c, c = Lowest(FreeRanges(s, cursor, length))
  PROVE  /\ c \in Nat /\ page_aligned(c) /\ c <= Top - 1 - length
         /\ PagesOf(c, c + length) \cap MappedPages(s) = {}
<1> DEFINE free == FreeRanges(s, cursor, length)
           low == page_ceil(cursor)
           high == Top - 1 - length
<1>1. low \in Nat /\ high \in Int
  BY CeilFacts, TopNat
<1>2. free = {d \in low .. high : page_aligned(d) /\ PagesOf(d, d + length) \cap MappedPages(s) = {}}
  BY DEF FreeRanges
<1> HIDE DEF free, low, high
<1>3. free \in SUBSET Nat
  BY <1>1, <1>2
<1>4. c \in free
  BY <1>3, LowestIn DEF free
<1>5. /\ c \in low .. high /\ page_aligned(c) /\ PagesOf(c, c + length) \cap MappedPages(s) = {}
  BY <1>2, <1>4
<1> QED
  BY <1>1, <1>5 DEF high

LEMMA CeilAligned ==
  ASSUME NEW a \in Nat, NEW b \in Nat, b = page_ceil(b), page_aligned(a)
  PROVE  MapPages(a, b) = PagesOf(a, a + b) /\ SpanPages(a, b) = PagesOf(a, a + b)
  BY AlignedPages

LEMMA CeilTwice == ASSUME NEW v \in Nat PROVE page_ceil(v) \in Nat /\ page_ceil(page_ceil(v)) = page_ceil(v)
<1>1. page_aligned(0)
  BY Size DEF page_aligned
<1> QED
  BY <1>1, AlignedPages, CeilFacts

\* What a mapping leads to: fresh pages, a file read into them, its failure
\* and the failure of map() itself.
LEMMA MappingEdits ==
  ASSUME Running, NEW start \in Nat, NEW length \in Nat, page_aligned(start),
         page_ceil(length) = length, start + length <= NumPages * PageSize,
         NEW ps, ps = MapPages(start, length), NEW prot,
         NEW named, ps \cap MappedPages(as) \subseteq named,
         NEW loaded \in Nat, loaded <= length, NEW ret, NEW op, op # "execute", NEW moved,
         NEW mapped, mapped = map_or_throw(as, start, length, prot),
         \/ SyscallReturns(mapped, ps, ret, Done(op, named, moved))
         \/ SyscallReturns(write(mapped, start, loaded, 1), ps, ret, Done(op, named, moved))
         \/ SyscallReturns(unmap(mapped, start, length), ps, ret, Done(op, named, moved))
         \/ /\ BadAllocAllowed(ps)
            /\ SyscallReturns(MapBadAlloc(as, start, HalfOf(ps)), {}, ret, Done(op, named, moved))
  PROVE  Edits
<1>1. ps \in SUBSET Low
  BY MapBelow DEF Low
<1>2. SpaceOK(mapped) /\ Keeps(as, mapped, ps)
  BY <1>1, MapOK DEF Running
<1>3. ps = PagesOf(start, start + length) /\ SpanPages(start, length) = ps
  BY CeilAligned
<1>4. ASSUME NEW t, SyscallReturns(t, ps, ret, Done(op, named, moved)), SpaceOK(t), Keeps(as, t, ps)
      PROVE  Edits
  <2>1. SyscallReturns(t, ps, ret, DoneFrom(op, named, 0, moved))
    BY <1>4 DEF Done
  <2> QED
    BY <1>1, <1>4, <2>1, SyscallEdits
<1>5. CASE SyscallReturns(mapped, ps, ret, Done(op, named, moved))
  BY <1>2, <1>4, <1>5
<1>6. CASE SyscallReturns(write(mapped, start, loaded, 1), ps, ret, Done(op, named, moved))
  <2> DEFINE t == write(mapped, start, loaded, 1)
             qs == {PageOf(x) : x \in Written(mapped, start, loaded)}
  <2>1. SpaceOK(t) /\ Keeps(mapped, t, qs)
    BY <1>2, WriteOK
  <2>2. qs \subseteq ps
    <3>1. ASSUME NEW x \in Written(mapped, start, loaded) PROVE PageOf(x) \in ps
      <4>1. x \in DOMAIN mapped.mem /\ x \in start .. start + loaded - 1
        BY WrittenIn
      <4>2. x \in Nat /\ PageOf(x) \in Low
        BY <1>2, <4>1 DEF SpaceOK, WholePages
      <4>3. start <= x /\ x < start + length
        BY <4>1
      <4> QED
        BY <1>3, <4>2, <4>3, RangePage
    <3> QED
      BY <3>1
  <2> HIDE DEF t, qs
  <2>3. Keeps(as, t, ps \cup qs)
    BY <1>2, <2>1, KeepsThen
  <2>4. ps \cup qs = ps
    BY <2>2
  <2>5. SyscallReturns(t, ps, ret, Done(op, named, moved))
    BY <1>6 DEF t
  <2> QED
    BY <1>4, <2>1, <2>3, <2>4, <2>5
<1>7. CASE SyscallReturns(unmap(mapped, start, length), ps, ret, Done(op, named, moved))
  <2> DEFINE t == unmap(mapped, start, length)
  <2>1. SpaceOK(t) /\ Keeps(mapped, t, ps)
    BY <1>1, <1>2, <1>3, UnmapOK
  <2> HIDE DEF t
  <2>2. Keeps(as, t, ps \cup ps)
    BY <1>2, <2>1, KeepsThen
  <2>3. ps \cup ps = ps
    OBVIOUS
  <2>4. SyscallReturns(t, ps, ret, Done(op, named, moved))
    BY <1>7 DEF t
  <2> QED
    BY <1>4, <2>1, <2>2, <2>3, <2>4
<1>8. CASE /\ BadAllocAllowed(ps)
           /\ SyscallReturns(MapBadAlloc(as, start, HalfOf(ps)), {}, ret, Done(op, named, moved))
  <2> DEFINE t == MapBadAlloc(as, start, HalfOf(ps))
  <2>1. SpaceOK(t) /\ Keeps(as, t, ps)
    BY <1>1, BadAllocOK DEF Running
  <2>2. SyscallReturns(t, {}, ret, DoneFrom(op, named, 0, moved))
    BY <1>8 DEF Done
  <2>3. ~StaleCodePaths => ps \cap as.execmap \subseteq {}
    BY <1>8 DEF BadAllocAllowed
  <2> HIDE DEF t
  <2> QED
    BY <2>1, <2>2, <2>3, SyscallEdits
<1> QED
  BY <1>5, <1>6, <1>7, <1>8

LEMMA SysMmapEdits ==
  ASSUME Running, next_mmap \in Nat,
         NEW a, a.address \in Nat, a.length \in Nat, NEW flags, NEW prot, NEW answer,
         NEW loaded \in Nat, loaded <= a.length,
         Canonical(a.address, a.length), RoomFor(as, next_mmap, a.length),
         SysMmap(a, flags, prot, answer, loaded)
  PROVE  Edits
<1> DEFINE length == page_ceil(a.length)
           free == FreeRanges(as, next_mmap, length)
           fixed == "fixed" \in flags
           start == IF fixed THEN a.address ELSE Lowest(free)
           ps == MapPages(start, length)
           named == IF fixed THEN ps ELSE {}
           mapped == map_or_throw(as, start, length, prot)
<1>1. CASE \E e : SyscallReturns(as, {}, Error(e), Done("mmap", {}, 0))
  BY <1>1, ReturnsEdits DEF Returns
<1>2. CASE /\ MmapError(a, flags, prot) = "none"
           /\ fixed \/ free # {}
           /\ ~(start > Top - 1 - length)
           /\ \/ SyscallReturns(mapped, ps, Value(start), Done("mmap", named, 0))
              \/ SyscallReturns(write(mapped, start, loaded, 1), ps, Value(start),
                                Done("mmap_file", named, loaded))
              \/ SyscallReturns(unmap(mapped, start, length), ps, Error(answer),
                                Done("mmap_file", named, 0))
              \/ /\ BadAllocAllowed(ps)
                 /\ SyscallReturns(MapBadAlloc(as, start, HalfOf(ps)), {}, Error("ENOMEM"),
                                   Done("mmap_nomem", named, 0))
  <2>1. length \in Nat /\ page_ceil(length) = length /\ loaded <= length
    <3>1. length \in Nat /\ page_ceil(length) = length
      BY CeilTwice
    <3>2. a.length <= length
      BY CeilFacts
    <3> QED
      BY <3>1, <3>2
  <2>2. start \in Nat /\ page_aligned(start) /\ start <= Top - 1 - length
    <3> HIDE DEF length
    <3>1. CASE fixed
      <4>1. page_aligned(a.address)
        BY <1>2, <3>1 DEF MmapError
      <4> QED
        BY <1>2, <2>1, <3>1, <4>1, TopNat
    <3>2. CASE ~fixed
      BY <1>2, <2>1, <3>2, FreeFound
    <3> QED
      BY <3>1, <3>2
  <2>3. Canonical(start, a.length)
    BY <1>2 DEF RoomFor
  <2>4. start + length <= NumPages * PageSize
    <3> HIDE DEF start
    <3> QED
      BY <2>2, <2>3, CanonicalBelow
  <2>5. ps \cap MappedPages(as) \subseteq named
    <3>1. CASE fixed
      BY <3>1
    <3>2. CASE ~fixed
      <4> HIDE DEF length
      <4>1. PagesOf(start, start + length) \cap MappedPages(as) = {}
        BY <1>2, <2>1, <3>2, FreeFound
      <4> HIDE DEF start
      <4>2. ps = PagesOf(start, start + length)
        BY <2>1, <2>2, CeilAligned
      <4> QED
        BY <4>1, <4>2
    <3> QED
      BY <3>1, <3>2
  <2>6. ps = MapPages(start, length) /\ mapped = map_or_throw(as, start, length, prot)
    OBVIOUS
  <2>7. \E op, ret, moved :
           /\ op # "execute"
           /\ \/ SyscallReturns(mapped, ps, ret, Done(op, named, moved))
              \/ SyscallReturns(write(mapped, start, loaded, 1), ps, ret, Done(op, named, moved))
              \/ SyscallReturns(unmap(mapped, start, length), ps, ret, Done(op, named, moved))
              \/ /\ BadAllocAllowed(ps)
                 /\ SyscallReturns(MapBadAlloc(as, start, HalfOf(ps)), {}, ret, Done(op, named, moved))
    <3> HIDE DEF mapped, ps, named, start, length
    <3> QED
      BY <1>2
  <2> HIDE DEF mapped, ps, named, start, length
  <2> QED
    BY <2>1, <2>2, <2>4, <2>5, <2>6, <2>7, MappingEdits
<1> QED
  BY <1>1, <1>2 DEF SysMmap

\* The calls that SysMmap refuses whatever the address.
LEMMA MmapRefused ==
  ASSUME Running, NEW a, NEW flags, NEW prot, NEW answer, NEW loaded,
         MmapError(a, flags, prot) # "none", SysMmap(a, flags, prot, answer, loaded)
  PROVE  Edits
<1>1. \E e : SyscallReturns(as, {}, Error(e), Done("mmap", {}, 0))
  BY DEF SysMmap
<1> QED
  BY <1>1, ReturnsEdits DEF Returns

LEMMA SysMunmapEdits ==
  ASSUME Running, NEW a \in Nat, NEW n \in Nat, Canonical(a, n), SysMunmap(a, n)
  PROVE  Edits
<1> DEFINE c == page_ceil(n)
           ps == SpanPages(a, c)
           t == unmap(as, a, c)
           refused == range_overflows(a, c) \/ ~Ceilable(a + c)
<1>1. CASE SyscallReturns(as, {}, Error("EINVAL"), Done("munmap", {}, 0))
  BY <1>1, ReturnsEdits DEF Returns
<1>2. CASE /\ page_aligned(a)
           /\ SyscallReturns(t, IF refused THEN {} ELSE ps, Value(0), Done("munmap", ps, 0))
  <2>1. page_floor(a) = a /\ c \in Nat
    BY <1>2, AlignedPages, CeilFacts
  <2>2. CASE refused
    <3>1. t = as
      BY <2>1, <2>2 DEF unmap
    <3>2. SyscallReturns(as, {}, Value(0), DoneFrom("munmap", ps, 0, 0))
      BY <1>2, <2>2, <3>1 DEF Done
    <3>3. Keeps(as, as, {}) /\ SpaceOK(as)
      BY KeepsAll DEF Running
    <3> HIDE DEF ps
    <3> QED
      BY <3>2, <3>3, SyscallEdits
  <2>3. CASE ~refused
    <3>1. a + c <= NumPages * PageSize
      BY <2>3, CanonicalBelow
    <3>2. ps \in SUBSET Low
      <4> HIDE DEF c
      <4> QED
        BY <2>1, <3>1, SpanBelow DEF Low
    <3>3. SpaceOK(t) /\ Keeps(as, t, ps)
      BY <3>2, UnmapOK DEF Running
    <3>4. SyscallReturns(t, ps, Value(0), DoneFrom("munmap", ps, 0, 0))
      BY <1>2, <2>3 DEF Done
    <3> HIDE DEF t, ps
    <3> QED
      BY <3>2, <3>3, <3>4, SyscallEdits
  <2> QED
    BY <2>2, <2>3
<1> QED
  BY <1>1, <1>2 DEF SysMunmap

LEMMA SysMprotectEdits ==
  ASSUME Running, NEW a \in Nat, NEW n \in Nat, Canonical(a, n), NEW prot, SysMprotect(a, n, prot)
  PROVE  Edits
<1> DEFINE c == page_ceil(n)
           ps == SpanPages(a, c)
           t == protect(as, a, c, prot)
<1>1. CASE \E ret : SyscallReturns(as, {}, ret, Done("mprotect", {}, 0))
  BY <1>1, ReturnsEdits DEF Returns
<1>2. CASE /\ ProtectError(as, a, c) = "none"
           /\ SyscallReturns(t, ps, Value(0), Done("mprotect", ps, 0))
  <2>1. ~range_overflows(a, c) /\ c \in Nat
    BY <1>2, CeilFacts DEF ProtectError
  <2>2. a + c <= NumPages * PageSize
    BY <2>1, CanonicalBelow
  <2>3. ps \in SUBSET Low
    <3> HIDE DEF c
    <3> QED
      BY <2>1, <2>2, SpanBelow DEF Low
  <2>4. SpaceOK(t) /\ Keeps(as, t, ps)
    BY <1>2, <2>3, ProtectOK DEF Running
  <2>5. SyscallReturns(t, ps, Value(0), DoneFrom("mprotect", ps, 0, 0))
    BY <1>2 DEF Done
  <2> HIDE DEF t, ps
  <2> QED
    BY <2>3, <2>4, <2>5, SyscallEdits
<1> QED
  BY <1>1, <1>2 DEF SysMprotect

\* Multiples of the page size.
Multiple(a) == \E k \in Nat : a = k * PageSize

LEMMA MultipleIff ==
  ASSUME NEW a \in Nat
  PROVE  /\ Multiple(a) <=> page_aligned(a)
         /\ Multiple(a) <=> page_ceil(a) = a
         /\ Multiple(page_ceil(a))
<1>1. ASSUME Multiple(a) PROVE page_aligned(a)
  <2>1. PICK k \in Nat : a = k * PageSize
    BY <1>1 DEF Multiple
  <2>2. PageOf(a) = k
    BY <2>1, FirstUnit
  <2>3. page_floor(a) = PageOf(a) * PageSize
    BY PageBounds
  <2>4. page_floor(a) = a
    BY <2>1, <2>2, <2>3
  <2>5. a % PageSize \in Nat
    BY Size
  <2> QED
    BY <2>4, <2>5 DEF page_floor, page_aligned
<1>2. ASSUME page_aligned(a) PROVE Multiple(a)
  <2>1. page_floor(a) = a
    BY <1>2 DEF page_floor, page_aligned
  <2> QED
    BY <2>1, PageBounds DEF Multiple
<1>3. ASSUME Multiple(a) PROVE page_ceil(a) = a
  <2>1. PICK k \in Nat : a = k * PageSize
    BY <1>3 DEF Multiple
  <2>2. a <= k * PageSize /\ k \in Int
    BY <2>1
  <2>3. page_ceil(a) \in Nat /\ a <= page_ceil(a) /\ page_ceil(a) <= k * PageSize
    BY <2>2, CeilFacts
  <2> QED
    BY <2>1, <2>3
<1>4. Multiple(page_ceil(a))
  BY CeilFacts DEF Multiple
<1> QED
  BY <1>1, <1>2, <1>3, <1>4

LEMMA MultipleSum ==
  ASSUME NEW a \in Nat, NEW b \in Nat, Multiple(a), Multiple(b)
  PROVE  a + b \in Nat /\ Multiple(a + b) /\ (b <= a => a - b \in Nat /\ Multiple(a - b))
<1>1. PICK k \in Nat : a = k * PageSize
  BY DEF Multiple
<1>2. PICK m \in Nat : b = m * PageSize
  BY DEF Multiple
<1>3. a + b = (k + m) * PageSize /\ k + m \in Nat
  BY <1>1, <1>2, Size
<1>4. ASSUME b <= a PROVE Multiple(a - b)
  <2>1. CASE k < m
    <3>1. (k + 1) * PageSize = k * PageSize + PageSize /\ (k + 1) * PageSize <= m * PageSize
      BY <2>1, Size, MultipleOrder
    <3> QED
      BY <1>1, <1>2, <1>4, <3>1, Size
  <2>2. CASE k >= m
    <3>1. a - b = (k - m) * PageSize /\ k - m \in Nat
      BY <1>1, <1>2, <2>2, Size
    <3> QED
      BY <3>1 DEF Multiple
  <2> QED
    BY <2>1, <2>2
<1> QED
  BY <1>3, <1>4 DEF Multiple

\* On multiples all ranges agree.
LEMMA MultiplePages ==
  ASSUME NEW a \in Nat, NEW b \in Nat, Multiple(a), Multiple(b)
  PROVE  /\ MapPages(a, b) = PagesOf(a, a + b)
         /\ SpanPages(a, b) = PagesOf(a, a + b)
         /\ b # 0 => InvalidatedPages(a, b) = PagesOf(a, a + b)
<1>1. page_aligned(a) /\ page_ceil(b) = b
  BY MultipleIff
<1>2. page_floor(a) = a
  BY <1>1, AlignedPages
<1> QED
  BY <1>1, <1>2, CeilAligned DEF InvalidatedPages

\* mremap in place: the pages behind the new end go.
LEMMA ShrinkEdits ==
  ASSUME Running, NEW old \in Nat, NEW olen \in Nat, NEW nlen \in Nat,
         Multiple(old), Multiple(olen), Multiple(nlen), nlen <= olen,
         old + olen <= NumPages * PageSize, NEW named, SpanPages(old, olen) \subseteq named,
         NEW ret, NEW from, NEW moved,
         SyscallReturns(unmap(as, old + nlen, olen - nlen), InvalidatedPages(old + nlen, olen - nlen),
                        ret, DoneFrom("mremap", named, from, moved))
  PROVE  Edits
<1> DEFINE a == old + nlen
           b == olen - nlen
           t == unmap(as, a, b)
           ps == PagesOf(a, a + b)
<1>1. a \in Nat /\ b \in Nat /\ Multiple(a) /\ Multiple(b)
  BY MultipleSum
<1>2. a + b = old + olen
  OBVIOUS
<1>3. CASE b = 0
  <2>1. t = as /\ InvalidatedPages(a, b) = {}
    BY <1>3 DEF unmap, InvalidatedPages
  <2>2. SyscallReturns(as, {}, ret, DoneFrom("mremap", named, from, moved))
    BY <2>1
  <2>3. Keeps(as, as, {}) /\ SpaceOK(as)
    BY KeepsAll DEF Running
  <2> QED
    BY <2>2, <2>3, SyscallEdits
<1>4. CASE b # 0
  <2>1. SpanPages(a, b) = ps /\ InvalidatedPages(a, b) = ps
    <3> HIDE DEF a, b
    <3> QED
      BY <1>1, <1>4, MultiplePages
  <2>2. SpanPages(old, olen) = PagesOf(old, old + olen)
    BY MultiplePages
  <2>3. ps \in SUBSET Low
    <3> HIDE DEF a, b
    <3>1. a + b <= NumPages * PageSize
      BY <1>2
    <3> QED
      BY <1>1, <2>1, <3>1, SpanBelow DEF Low
  <2>4. ps \subseteq named
    <3>1. PageOf(old) <= PageOf(a)
      BY <1>1, PageMono
    <3>2. PageOf(old) \in Nat /\ PageOf(a) \in Nat
      BY <1>1, PageBounds
    <3> HIDE DEF a, b
    <3>3. ps \subseteq PagesOf(old, old + olen)
      BY <1>2, <3>1, <3>2 DEF PagesOf
    <3> QED
      BY <2>2, <3>3
  <2>5. SpaceOK(t) /\ Keeps(as, t, ps)
    <3> HIDE DEF a, b
    <3> QED
      BY <2>1, <2>3, UnmapOK DEF Running
  <2>6. SyscallReturns(t, ps, ret, DoneFrom("mremap", named, from, moved))
    BY <2>1
  <2> HIDE DEF t, ps
  <2> QED
    BY <2>3, <2>4, <2>5, <2>6, SyscallEdits
<1> QED
  BY <1>3, <1>4

\* mremap in place: pages are added behind the old end, where none were.
LEMMA GrowEdits ==
  ASSUME Running, NEW a \in Nat, NEW b \in Nat, Multiple(a), Multiple(b), b # 0,
         a + b <= NumPages * PageSize, range_is_unmapped(as, a, b), NEW prot,
         NEW named, NEW ret, NEW from, NEW moved,
         SyscallReturns(map_or_throw(as, a, b, prot), MapPages(a, b),
                        ret, DoneFrom("mremap", named, from, moved))
  PROVE  Edits
<1> DEFINE t == map_or_throw(as, a, b, prot)
           ps == MapPages(a, b)
<1>1. ps \in SUBSET Low
  BY MapBelow DEF Low
<1>2. SpaceOK(t) /\ Keeps(as, t, ps)
  BY <1>1, MapOK DEF Running
<1>3. ps = PagesOf(a, a + b)
  BY MultiplePages
<1>4. ps \cap MappedPages(as) \subseteq named
  BY <1>3 DEF range_is_unmapped
<1> HIDE DEF t, ps
<1>5. SyscallReturns(t, ps, ret, DoneFrom("mremap", named, from, moved))
  BY DEF t, ps
<1> QED
  BY <1>1, <1>2, <1>4, <1>5, SyscallEdits

\* A page that an edit does not reach.
LEMMA PageKept ==
  ASSUME NEW s, SpaceOK(s), NEW t, NEW ps, Keeps(s, t, ps), NEW p \in MappedPages(s), p \notin ps
  PROVE  p \in MappedPages(t) /\ PageBytes(t, p) = PageBytes(s, p)
<1>1. p \in Low /\ p \in Nat
  BY UnitsWhole, Size DEF SpaceOK, Low
<1>2. PICK b \in DOMAIN s.mem : PageOf(b) = p
  BY DEF MappedPages
<1>3. b \in Nat
  BY DEF SpaceOK, WholePages
<1>4. p \in MappedPages(t)
  BY <1>2, <1>3 DEF Keeps, MappedPages
<1>5. ASSUME NEW a \in UnitsOf({p}) PROVE t.mem[a] = s.mem[a]
  <2>1. {p} \in SUBSET Nat
    BY <1>1
  <2>2. a \in Nat /\ PageOf(a) = p
    BY <2>1, UnitsIff
  <2>3. a \in DOMAIN s.mem
    BY <1>2, <2>2 DEF SpaceOK, WholePages
  <2> QED
    BY <2>2, <2>3 DEF Keeps
<1>6. PageBytes(t, p) = PageBytes(s, p)
  BY <1>5 DEF PageBytes
<1> QED
  BY <1>4, <1>6

(***************************************************************************)
(* mremap that has tried to grow in place has left the space s: the pages  *)
(* gs, none of which was mapped, may be.                                   *)
(***************************************************************************)
Tried(s, gs) == SpaceOK(s) /\ Keeps(as, s, gs) /\ gs \cap MappedPages(as) = {}

LEMMA TriedNot == ASSUME Running PROVE Tried(as, {})
  BY KeepsAll DEF Tried, Running

LEMMA GrowTried ==
  ASSUME Running, NEW a \in Nat, NEW b \in Nat, Multiple(a), Multiple(b), b # 0,
         a + b <= NumPages * PageSize, range_is_unmapped(as, a, b)
  PROVE  \E s, gs : Tried(s, gs) /\ s = HalfMapped(as, a, b)
<1>1. PICK s, gs : s = HalfMapped(as, a, b) /\ gs = MapPages(a, b)
  OBVIOUS
<1>2. gs = PagesOf(a, a + b) /\ gs \subseteq Low
  BY <1>1, MultiplePages, MapBelow DEF Low
<1>3. SpaceOK(s) /\ Keeps(as, s, gs)
  BY <1>1, <1>2, BadAllocOK DEF HalfMapped, Running
<1> QED
  BY <1>1, <1>2, <1>3 DEF Tried, range_is_unmapped

\* What was mapped still is, and no page of gs was executable.
LEMMA TriedKeeps ==
  ASSUME Running, NEW s, NEW gs, Tried(s, gs)
  PROVE  MappedPages(as) \subseteq MappedPages(s) /\ gs \cap as.execmap = {}
<1>1. ASSUME NEW p \in MappedPages(as) PROVE p \in MappedPages(s)
  <2>1. p \notin gs
    BY DEF Tried
  <2> QED
    BY <2>1, PageKept DEF Tried, Running
<1>2. as.execmap \subseteq MappedPages(as)
  BY DEF Running, SpaceOK, Rights
<1> QED
  BY <1>1, <1>2 DEF Tried

\* An edit of what the attempt to grow has left.
LEMMA TriedEdits ==
  ASSUME Running, NEW s, NEW gs, Tried(s, gs), NEW t, NEW ps, SpaceOK(t), Keeps(s, t, ps),
         NEW drop \in SUBSET Low, ps \cap MappedPages(as) \subseteq drop,
         NEW named, ps \cap MappedPages(as) \subseteq named, NEW ret, NEW from, NEW moved,
         SyscallReturns(t, drop, ret, DoneFrom("mremap", named, from, moved))
  PROVE  Edits
<1>1. Keeps(as, t, gs \cup ps)
  BY KeepsThen DEF Tried
<1>2. as.execmap \subseteq MappedPages(as) /\ gs \cap as.execmap = {} /\ gs \cap MappedPages(as) = {}
  BY TriedKeeps DEF Running, SpaceOK, Rights, Tried
<1>3. (gs \cup ps) \cap MappedPages(as) \subseteq named /\ (gs \cup ps) \cap as.execmap \subseteq drop
  BY <1>2
<1> QED
  BY <1>1, <1>3, SyscallEdits

\* mremap that moves: clear and map the target, copy, unmap the old range.
LEMMA MoveEdits ==
  ASSUME Running, NEW s, NEW gs, Tried(s, gs), NEW old \in Nat, NEW olen \in Nat, NEW nlen \in Nat, NEW target \in Nat,
         Multiple(old), Multiple(olen), Multiple(nlen), Multiple(target), olen < nlen,
         old + olen <= NumPages * PageSize, target + nlen <= NumPages * PageSize,
         NEW cleared, cleared = s \/ cleared = unmap(s, target, nlen),
         NEW block, DOMAIN block = 0 .. olen - 1,
         NEW named, SpanPages(old, olen) \subseteq named,
         MapPages(target, nlen) \cap MappedPages(as) \subseteq named,
         NEW mapped, mapped = map_or_throw(cleared, target, nlen, {"r", "w"}),
         NEW ret, NEW from, NEW moved,
         SyscallReturns(unmap(WriteBlock(mapped, target, block), old, olen),
                        MapPages(target, nlen) \cup SpanPages(old, olen),
                        ret, DoneFrom("mremap", named, from, moved))
  PROVE  Edits
<1> DEFINE ps == MapPages(target, nlen)
           qs == SpanPages(old, olen)
           copied == WriteBlock(mapped, target, block)
           t == unmap(copied, old, olen)
<1>1. ps \in SUBSET Low /\ ps = PagesOf(target, target + nlen) /\ ps = SpanPages(target, nlen)
  BY MapBelow, MultiplePages DEF Low
<1>2. qs \in SUBSET Low
  BY SpanBelow DEF Low
<1>3. SpaceOK(cleared) /\ Keeps(s, cleared, ps)
  <2>1. CASE cleared = s
    BY <2>1, KeepsAll, KeepsMore DEF Tried
  <2>2. CASE cleared = unmap(s, target, nlen)
    BY <1>1, <2>2, UnmapOK DEF Tried
  <2> QED
    BY <2>1, <2>2
<1>4. SpaceOK(mapped) /\ Keeps(cleared, mapped, ps)
  BY <1>1, <1>3, MapOK
<1>5. Cardinality(DOMAIN block) = olen
  <2>1. 0 \in Int /\ olen - 1 \in Int
    OBVIOUS
  <2>2. Cardinality(0 .. olen - 1) = IF 0 > olen - 1 THEN 0 ELSE (olen - 1) - 0 + 1
    BY <2>1, FS_Interval
  <2> QED
    BY <2>2
<1>6. SpaceOK(copied) /\ Keeps(mapped, copied, {PageOf(x) : x \in Written(mapped, target, olen)})
  BY <1>4, <1>5, WriteBlockOK
<1>7. {PageOf(x) : x \in Written(mapped, target, olen)} \subseteq ps
  <2>1. ASSUME NEW x \in Written(mapped, target, olen) PROVE PageOf(x) \in ps
    <3>1. x \in DOMAIN mapped.mem /\ x \in target .. target + olen - 1
      BY WrittenIn
    <3>2. x \in Nat /\ PageOf(x) \in Low
      BY <1>4, <3>1 DEF SpaceOK, WholePages
    <3>3. target <= x /\ x < target + nlen
      BY <3>1
    <3> QED
      BY <1>1, <3>2, <3>3, RangePage
  <2> QED
    BY <2>1
<1> HIDE DEF copied, ps, qs
<1>8. Keeps(mapped, copied, ps)
  BY <1>6, <1>7, KeepsMore
<1>9. SpaceOK(t) /\ Keeps(copied, t, qs)
  BY <1>2, <1>6, UnmapOK DEF qs
<1> HIDE DEF t
<1>10. Keeps(s, t, ps \cup qs)
  <2>1. Keeps(s, mapped, ps \cup ps)
    BY <1>3, <1>4, KeepsThen
  <2>2. Keeps(s, copied, (ps \cup ps) \cup ps)
    BY <1>8, <2>1, KeepsThen
  <2>3. (ps \cup ps) \cup ps = ps
    OBVIOUS
  <2> QED
    BY <1>9, <2>2, <2>3, KeepsThen
<1>11. SyscallReturns(t, ps \cup qs, ret, DoneFrom("mremap", named, from, moved))
  BY DEF t, ps, qs, copied
<1>12. (ps \cup qs) \cap MappedPages(as) \subseteq named
  BY DEF ps, qs
<1>13. ps \cup qs \in SUBSET Low
  BY <1>1, <1>2
<1> QED
  BY <1>9, <1>10, <1>11, <1>12, <1>13, TriedEdits

\* mremap whose map() of the target fails half-way.
LEMMA HalfMoveEdits ==
  ASSUME Running, NEW s, NEW gs, Tried(s, gs), NEW nlen \in Nat, NEW target \in Nat,
         Multiple(nlen), Multiple(target), target + nlen <= NumPages * PageSize,
         NEW replaces \in BOOLEAN, ~replaces => PagesOf(target, target + nlen) \cap MappedPages(s) = {},
         NEW cleared, cleared = IF replaces THEN unmap(s, target, nlen) ELSE s,
         NEW named, PagesOf(target, target + nlen) \cap MappedPages(as) \subseteq named,
         NEW drop, drop = IF replaces THEN SpanPages(target, nlen) ELSE {},
         NEW ret,
         SyscallReturns(HalfMapped(cleared, target, nlen), drop, ret, Done("mremap", named, 0))
  PROVE  Edits
<1>1. PICK ps : ps = PagesOf(target, target + nlen)
  OBVIOUS
<1>2. PICK t : t = HalfMapped(cleared, target, nlen)
  OBVIOUS
<1>3. ps \in SUBSET Low /\ ps = MapPages(target, nlen) /\ ps = SpanPages(target, nlen)
  BY <1>1, MapBelow, MultiplePages DEF Low
<1>4. SpaceOK(cleared) /\ Keeps(s, cleared, ps)
  <2>1. CASE replaces
    BY <1>3, <2>1, UnmapOK DEF Tried
  <2>2. CASE ~replaces
    BY <2>2, KeepsAll, KeepsMore DEF Tried
  <2> QED
    BY <2>1, <2>2
<1>5. SpaceOK(t) /\ Keeps(cleared, t, ps)
  BY <1>2, <1>3, <1>4, BadAllocOK DEF HalfMapped
<1>6. Keeps(s, t, ps)
  <2>1. Keeps(s, t, ps \cup ps)
    BY <1>4, <1>5, KeepsThen
  <2> QED
    BY <2>1, KeepsMore
<1>7. drop \in SUBSET Low /\ ps \cap MappedPages(as) \subseteq drop
  <2>1. MappedPages(as) \subseteq MappedPages(s)
    BY TriedKeeps
  <2> QED
    BY <1>1, <1>3, <2>1
<1>8. SyscallReturns(t, drop, ret, DoneFrom("mremap", named, 0, 0))
  BY <1>2 DEF Done
<1> QED
  BY <1>1, <1>5, <1>6, <1>7, <1>8, TriedEdits

LEMMA MremapMoveEdits ==
  ASSUME Running, next_mremap \in Nat, NEW s, NEW gs, Tried(s, gs),
         NEW old \in Nat, NEW m \in Nat, NEW n \in Nat, NEW flags, NEW f \in Nat,
         NEW olen, olen = page_ceil(m), NEW nlen, nlen = page_ceil(n), olen < nlen,
         Multiple(old), old + olen <= NumPages * PageSize,
         Canonical(f, n), RoomFor(s, next_mremap, n), MremapMove(s, old, olen, nlen, flags, f)
  PROVE  Edits
<1> DEFINE fixed == "fixed" \in flags
           free == FreeRanges(s, next_mremap, nlen)
           target == IF fixed THEN f ELSE Lowest(free)
           replaces == fixed /\ ~range_is_unmapped(s, f, nlen)
           cleared == IF replaces THEN unmap(s, f, nlen) ELSE s
           mapped == map_or_throw(cleared, target, nlen, {"r", "w"})
           named == SpanPages(old, olen) \cup (IF fixed THEN MapPages(f, nlen) ELSE {})
           block == Copied(as, old, olen)
           Reached == (fixed => page_aligned(f)) /\ (~fixed => free # {}) /\ ~range_overflows(target, nlen)
<1>1. olen \in Nat /\ nlen \in Nat /\ Multiple(olen) /\ Multiple(nlen)
  BY CeilFacts, MultipleIff
<1>2. CASE \E e : SyscallReturns(s, {}, Error(e), Done("mremap", {}, 0))
  <2>1. PICK e : SyscallReturns(s, {}, Error(e), DoneFrom("mremap", {}, 0, 0))
    BY <1>2 DEF Done
  <2>2. SpaceOK(s) /\ Keeps(s, s, {})
    BY KeepsAll DEF Tried
  <2>3. {} \in SUBSET Low /\ {} \cap MappedPages(as) \subseteq {}
    OBVIOUS
  <2> HIDE DEF fixed, free, target, replaces, cleared, mapped, named, block, Reached
  <2> QED
    BY <2>1, <2>2, <2>3, TriedEdits
<1>3. ASSUME Reached
      PROVE  /\ target \in Nat /\ Multiple(target) /\ target + nlen <= NumPages * PageSize
             /\ MapPages(target, nlen) = PagesOf(target, target + nlen)
             /\ ~replaces => PagesOf(target, target + nlen) \cap MappedPages(s) = {}
             /\ MapPages(target, nlen) \cap MappedPages(as) \subseteq named
  <2>1. target \in Nat /\ Multiple(target) /\ Canonical(target, n)
    <3>1. CASE fixed
      BY <1>3, <3>1, MultipleIff
    <3>2. CASE ~fixed
      <4>1. Canonical(target, n)
        BY <1>3, <3>2 DEF RoomFor
      <4>2. target \in Nat /\ page_aligned(target)
        BY <1>1, <1>3, <3>2, FreeFound
      <4> QED
        BY <4>1, <4>2, MultipleIff
    <3> QED
      BY <3>1, <3>2
  <2>2. target + nlen <= NumPages * PageSize
    <3> HIDE DEF target
    <3> QED
      BY <1>3, <2>1, CanonicalBelow
  <2>3. MapPages(target, nlen) = PagesOf(target, target + nlen)
    <3> HIDE DEF target
    <3> QED
      BY <1>1, <2>1, MultiplePages
  <2>4. ~replaces => PagesOf(target, target + nlen) \cap MappedPages(s) = {}
    <3>1. CASE fixed
      <4>1. target = f
        BY <3>1
      <4>2. ~range_overflows(f, nlen) /\ nlen # 0
        BY <1>1, <1>3, <4>1
      <4> QED
        BY <3>1, <4>1, <4>2 DEF range_is_unmapped
    <3>2. CASE ~fixed
      BY <1>1, <1>3, <3>2, FreeFound
    <3> QED
      BY <3>1, <3>2
  <2>5. MapPages(target, nlen) \cap MappedPages(as) \subseteq named
    <3>1. CASE fixed
      BY <3>1
    <3>2. CASE ~fixed
      <4>1. MappedPages(as) \subseteq MappedPages(s)
        BY TriedKeeps
      <4> HIDE DEF target
      <4> QED
        BY <2>3, <2>4, <3>2, <4>1
    <3> QED
      BY <3>1, <3>2
  <2> QED
    BY <2>1, <2>2, <2>3, <2>4, <2>5
<1>4. replaces => f = target
  OBVIOUS
<1>5. CASE /\ Reached
           /\ SyscallReturns(unmap(WriteBlock(mapped, target, block), old, olen),
                             MapPages(target, nlen) \cup SpanPages(old, olen),
                             Value(target), DoneFrom("mremap", named, old, olen))
  <2>1. cleared = s \/ cleared = unmap(s, target, nlen)
    BY <1>4
  <2>2. SpanPages(old, olen) \subseteq named
    OBVIOUS
  <2>3. DOMAIN block = 0 .. olen - 1
    BY DEF Copied
  <2>4. mapped = map_or_throw(cleared, target, nlen, {"r", "w"})
    OBVIOUS
  <2>5. /\ target \in Nat /\ Multiple(target) /\ target + nlen <= NumPages * PageSize
        /\ MapPages(target, nlen) \cap MappedPages(as) \subseteq named
    BY <1>3, <1>5
  <2> HIDE DEF block, mapped, cleared, target, named
  <2> QED
    BY <1>1, <1>5, <2>1, <2>2, <2>3, <2>4, <2>5, MoveEdits
<1>6. CASE /\ Reached
           /\ SyscallReturns(HalfMapped(cleared, target, nlen),
                             IF replaces THEN SpanPages(f, nlen) ELSE {},
                             Error("ENOMEM"), Done("mremap", named, 0))
  <2>1. /\ target \in Nat /\ Multiple(target) /\ target + nlen <= NumPages * PageSize
        /\ ~replaces => PagesOf(target, target + nlen) \cap MappedPages(s) = {}
        /\ PagesOf(target, target + nlen) \cap MappedPages(as) \subseteq named
    BY <1>3, <1>6
  <2>2. PICK drop : drop = IF replaces THEN SpanPages(target, nlen) ELSE {}
    OBVIOUS
  <2>3. SyscallReturns(HalfMapped(cleared, target, nlen), drop, Error("ENOMEM"), Done("mremap", named, 0))
    BY <1>4, <1>6, <2>2
  <2>4. cleared = IF replaces THEN unmap(s, target, nlen) ELSE s
    BY <1>4
  <2>5. replaces \in BOOLEAN
    OBVIOUS
  <2> HIDE DEF cleared, target, named, replaces
  <2> QED
    BY <1>1, <2>1, <2>2, <2>3, <2>4, <2>5, HalfMoveEdits
<1> QED
  BY <1>2, <1>5, <1>6 DEF MremapMove

LEMMA SysMremapEdits ==
  ASSUME Running, next_mremap \in Nat,
         NEW old \in Nat, NEW m \in Nat, NEW n \in Nat, NEW flags, NEW f \in Nat,
         Canonical(old, m), Canonical(old, n), Canonical(f, n), RoomToMove(old, m, n),
         SysMremap(old, m, n, flags, f)
  PROVE  Edits
<1> DEFINE olen == page_ceil(m)
           nlen == page_ceil(n)
           growth == nlen - olen
           oend == old + olen
           inPlace == oend <= Top - 1 - growth /\ range_is_unmapped(as, oend, growth)
           copy_length == IF olen < nlen THEN olen ELSE nlen
           named == SpanPages(old, olen)
           Succeeds(s, drop) ==
             SyscallReturns(s, drop, Value(old), DoneFrom("mremap", named, old, copy_length))
           Legal == page_aligned(old) /\ ~range_overflows(old, olen)
<1>1. olen \in Nat /\ nlen \in Nat /\ Multiple(olen) /\ Multiple(nlen)
  BY CeilFacts, MultipleIff
<1>2. CASE \E e : SyscallReturns(as, {}, Error(e), Done("mremap", {}, 0))
  BY <1>2, ReturnsEdits DEF Returns
<1>3. ASSUME Legal
      PROVE  Multiple(old) /\ old + olen <= NumPages * PageSize
  BY <1>3, MultipleIff, CanonicalBelow
<1>4. CASE /\ Legal /\ nlen <= olen
           /\ Succeeds(unmap(as, old + nlen, olen - nlen), InvalidatedPages(old + nlen, olen - nlen))
  <2>1. Multiple(old) /\ old + olen <= NumPages * PageSize /\ SpanPages(old, olen) \subseteq named
    BY <1>3, <1>4
  <2> HIDE DEF olen, nlen, named, copy_length
  <2> QED
    BY <1>1, <1>4, <2>1, ShrinkEdits
<1>5. ASSUME Legal, ~(nlen <= olen), inPlace
      PROVE  /\ oend \in Nat /\ Multiple(oend) /\ growth \in Nat /\ Multiple(growth) /\ growth # 0
             /\ oend + growth <= NumPages * PageSize
  <2>1. Multiple(old)
    BY <1>3, <1>5
  <2> HIDE DEF olen, nlen
  <2>2. old <= Top - 1 - nlen
    BY <1>1, <1>5, TopNat
  <2>3. old + nlen <= NumPages * PageSize
    BY <2>2, CanonicalBelow DEF nlen
  <2>4. old + olen \in Nat /\ Multiple(old + olen) /\ growth \in Nat /\ Multiple(growth) /\ growth # 0
    BY <1>1, <1>5, <2>1, MultipleSum
  <2>5. (old + olen) + growth = old + nlen
    BY <1>1
  <2> QED
    BY <2>3, <2>4, <2>5
<1>6. CASE /\ Legal /\ ~(nlen <= olen) /\ inPlace
           /\ Succeeds(map_or_throw(as, oend, growth, {"r", "w"}), MapPages(oend, growth))
  <2>1. /\ oend \in Nat /\ Multiple(oend) /\ growth \in Nat /\ Multiple(growth) /\ growth # 0
        /\ oend + growth <= NumPages * PageSize /\ range_is_unmapped(as, oend, growth)
    BY <1>5, <1>6
  <2>2. SyscallReturns(map_or_throw(as, oend, growth, {"r", "w"}), MapPages(oend, growth),
                       Value(old), DoneFrom("mremap", named, old, copy_length))
    BY <1>6
  <2> HIDE DEF oend, growth, named, copy_length
  <2> QED
    BY <2>1, <2>2, GrowEdits
<1>7. CASE /\ Legal /\ ~(nlen <= olen) /\ inPlace
           /\ MremapMove(HalfMapped(as, oend, growth), old, olen, nlen, flags, f)
  <2>1. /\ oend \in Nat /\ Multiple(oend) /\ growth \in Nat /\ Multiple(growth) /\ growth # 0
        /\ oend + growth <= NumPages * PageSize /\ range_is_unmapped(as, oend, growth)
    BY <1>5, <1>7
  <2>2. PICK s, gs : Tried(s, gs) /\ s = HalfMapped(as, oend, growth)
    BY <2>1, GrowTried
  <2>3. RoomFor(s, next_mremap, n)
    BY <2>2 DEF RoomToMove
  <2>4. Multiple(old) /\ old + olen <= NumPages * PageSize /\ olen < nlen
    BY <1>1, <1>3, <1>7
  <2>5. MremapMove(s, old, olen, nlen, flags, f)
    BY <1>7, <2>2
  <2> HIDE DEF oend, growth
  <2> QED
    BY <2>2, <2>3, <2>4, <2>5, MremapMoveEdits
<1>8. CASE Legal /\ ~(nlen <= olen) /\ MremapMove(as, old, olen, nlen, flags, f)
  <2>1. Multiple(old) /\ old + olen <= NumPages * PageSize /\ olen < nlen
    BY <1>1, <1>3, <1>8
  <2>2. RoomFor(as, next_mremap, n)
    BY DEF RoomToMove
  <2> QED
    BY <1>8, <2>1, <2>2, TriedNot, MremapMoveEdits
<1> QED
  BY <1>2, <1>4, <1>6, <1>7, <1>8 DEF SysMremap

\* The memory and the code cache are left alone, and nothing was executed.
Untouched == spaces' = spaces /\ decoded' = decoded /\ (last' = last \/ last'.op # "execute")

LEMMA SysPrlimit64Edits ==
  ASSUME Running, NEW own, NEW res, NEW new, NEW old \in Nat, SysPrlimit64(own, res, new, old)
  PROVE  Edits
<1> DEFINE block == [i \in 0 .. 1 |-> IF i = 0 THEN limit.current ELSE limit.maximum]
           t == WriteBlock(as, old, block)
<1>1. CASE \E ret : Returns("prlimit", ret)
  BY <1>1, ReturnsEdits
<1>2. CASE \E ok : WritesGuest("prlimit", old, 2, limit.current, ok)
  BY <1>2, WritesGuestEdits
<1>3. CASE old = 0 /\ SyscallReturns(as, {}, Value(0), Done("prlimit", {}, 0))
  BY <1>3, ReturnsEdits DEF Returns
<1>4. CASE /\ BufferAllowed(old, 2)
           /\ SyscallReturns(t, {}, Value(0), Done("prlimit", PagesOf(old, old + 2), 0))
  <2> DEFINE ps == {PageOf(x) : x \in Written(as, old, 2)}
  <2>1. Cardinality(DOMAIN block) = 2
    <3>1. 0 \in Int /\ 1 \in Int
      OBVIOUS
    <3>2. Cardinality(0 .. 1) = IF 0 > 1 THEN 0 ELSE 1 - 0 + 1
      BY <3>1, FS_Interval
    <3> QED
      BY <3>2
  <2> HIDE DEF block
  <2>2. SpaceOK(t) /\ Keeps(as, t, ps)
    BY <2>1, WriteBlockOK DEF Running
  <2>3. ps \subseteq PagesOf(old, old + 2)
    <3>1. ASSUME NEW x \in Written(as, old, 2) PROVE PageOf(x) \in PagesOf(old, old + 2)
      <4>1. x \in DOMAIN as.mem /\ x \in old .. old + 2 - 1
        BY WrittenIn
      <4>2. x \in Nat /\ PageOf(x) \in Low
        BY <4>1 DEF Running, SpaceOK, WholePages
      <4>3. old <= x /\ x < old + 2
        BY <4>1
      <4> QED
        BY <4>2, <4>3, RangePage
    <3> QED
      BY <3>1
  <2>4. ~StaleCodePaths => ps \cap as.execmap \subseteq {}
    BY <1>4 DEF BufferAllowed
  <2>5. SyscallReturns(t, {}, Value(0), DoneFrom("prlimit", PagesOf(old, old + 2), 0, 0))
    BY <1>4 DEF Done
  <2> HIDE DEF t, ps
  <2> QED
    BY <2>2, <2>3, <2>4, <2>5, SyscallEdits
<1> QED
  BY <1>1, <1>2, <1>3, <1>4 DEF SysPrlimit64

LEMMA SysTimeEdits ==
  ASSUME Running, NEW op, op # "execute", NEW a, SysTime(op, a)
  PROVE  Edits
<1>1. CASE \E ret : FdCall(op, ret)
  BY <1>1, ReturnsEdits DEF FdCall
<1>2. CASE \E ok : WritesGuest(op, a, 2, 1, ok)
  BY <1>2, WritesGuestEdits
<1>3. CASE /\ BufferAllowed(a, 2)
           /\ SyscallReturns(write(as, a, 2, 0), {}, Value(0),
                             Done(op, {PageOf(x) : x \in Written(as, a, 2)}, 0))
  BY <1>3, WriteEdits
<1> QED
  BY <1>1, <1>2, <1>3 DEF SysTime

LEMMA SmallCallEdits ==
  ASSUME Running, Addresses \subseteq Nat, SmallCall
  PROVE  Edits \/ Untouched
<1>0. ASSUME NEW op, op # "execute", NEW ret, Returns(op, ret) PROVE Edits
  BY <1>0, ReturnsEdits
<1>00. ASSUME NEW op, op # "execute", NEW a, NEW n, NEW v, NEW ok, WritesGuest(op, a, n, v, ok)
       PROVE  Edits
  BY <1>00, WritesGuestEdits
<1>1. ASSUME NEW code, NEW a, SysArchPrctl(code, a) PROVE Edits
  BY <1>0, <1>00, <1>1 DEF SysArchPrctl
<1>2. ASSUME SysGetIdentity PROVE Edits
  BY <1>0, <1>2 DEF SysGetIdentity
<1>3. ASSUME NEW name \in {"set_tid_address", "set_robust_list", "rseq"}, SysThreadSetup(name)
      PROVE  Edits
  BY <1>0, <1>3 DEF SysThreadSetup
<1>4. ASSUME SysSignals PROVE Edits
  BY <1>0, <1>4 DEF SysSignals
<1>5. ASSUME NEW name \in {"fork", "wait4"}, SysProcess(name) PROVE Edits
  BY <1>0, <1>5 DEF SysProcess
<1>6. ASSUME NEW a, SysUname(a) PROVE Edits
  BY <1>00, <1>6 DEF SysUname
<1>7. ASSUME NEW a, NEW n, SysGetcwd(a, n, 2) PROVE Edits
  BY <1>0, <1>00, <1>7 DEF SysGetcwd
<1>8. ASSUME NEW a, NEW n, SysGetrandom(a, n) PROVE Edits
  BY <1>0, <1>00, <1>8 DEF SysGetrandom
<1>9. ASSUME NEW own, NEW res, NEW new, NEW old \in Addresses, SysPrlimit64(own, res, new, old)
      PROVE  Edits
  BY <1>9, SysPrlimit64Edits
<1>10. ASSUME NEW a, NEW c, NEW v, NEW t, SysFutex(a, c, v, t) PROVE Edits
  BY <1>0, <1>10 DEF SysFutex
<1>11. ASSUME SysExit(1) PROVE Untouched
  BY <1>11 DEF SysExit, SyscallStops, Done, DoneFrom, Untouched
<1>12. ASSUME UnsupportedSyscall PROVE Untouched
  BY <1>12 DEF UnsupportedSyscall, SyscallStops, Done, DoneFrom, Untouched
<1> QED
  BY <1>1, <1>2, <1>3, <1>4, <1>5, <1>6, <1>7, <1>8, <1>9, <1>10, <1>11, <1>12 DEF SmallCall

LEMMA DescriptorCallEdits ==
  ASSUME Running, DescriptorCall
  PROVE  Edits
<1>0. ASSUME NEW op, op # "execute", NEW ret, FdCall(op, ret) PROVE Edits
  BY <1>0, ReturnsEdits DEF FdCall
<1>1. ASSUME NEW dir, NEW path, NEW ok, NEW answer, SysOpen(dir, path, ok, answer) PROVE Edits
  BY <1>0, <1>1 DEF SysOpen, Install
<1>2. ASSUME NEW t, NEW d, NEW answer, SysSocket(t, d, answer) PROVE Edits
  BY <1>0, <1>2 DEF SysSocket, Install
<1>3. ASSUME NEW g, NEW answer, SysClose(g, answer) PROVE Edits
  BY <1>0, <1>3 DEF SysClose
<1>4. ASSUME NEW a, NEW p, SysPipe(a, p) PROVE Edits
  BY <1>0, <1>4, WritesGuestEdits DEF SysPipe
<1>5. ASSUME NEW op \in {"dup", "dup2", "dup3", "dupfd"}, NEW g, NEW arg, NEW answer,
             SysDup(op, g, arg, answer)
      PROVE  Edits
  <2>1. \E ret : FdCall(op, ret)
    BY <1>5 DEF SysDup, Duplicate
  <2> QED
    BY <1>0, <2>1
<1> QED
  BY <1>1, <1>2, <1>3, <1>4, <1>5 DEF DescriptorCall

LEMMA TransferCallEdits ==
  ASSUME Running, TransferCall
  PROVE  Edits \/ Untouched
<1>0. ASSUME NEW op, op # "execute", NEW ret, FdCall(op, ret) PROVE Edits
  BY <1>0, ReturnsEdits DEF FdCall
<1>1. ASSUME NEW g, NEW a, NEW n, NEW answer, SysRead(g, a, n, answer) PROVE Edits
  BY <1>0, <1>1, WritesGuestEdits DEF SysRead
<1>2. ASSUME NEW op \in {"write", "pwrite"}, NEW g, NEW a, NEW n, SysWrite(op, g, a, n)
      PROVE  Edits \/ Untouched
  <2>1. CASE UNCHANGED machineVars
    BY <2>1 DEF machineVars, Untouched
  <2>2. CASE \E ret : FdCall(op, ret)
    BY <1>0, <2>2
  <2> QED
    BY <1>2, <2>1, <2>2 DEF SysWrite
<1>3. ASSUME NEW g, NEW a, NEW n, NEW answer, SysGetdents64(g, a, n, answer) PROVE Edits
  BY <1>0, <1>3, WritesGuestEdits DEF SysGetdents64
<1>4. ASSUME NEW g, NEW path, NEW a, NEW n, NEW answer, SysReadlink(g, path, a, n, answer) PROVE Edits
  BY <1>0, <1>4, WritesGuestEdits DEF SysReadlink
<1> QED
  BY <1>1, <1>2, <1>3, <1>4 DEF TransferCall

LEMMA FileCallEdits ==
  ASSUME Running, FileCall
  PROVE  Edits
<1>0. ASSUME NEW op, op # "execute", NEW ret, FdCall(op, ret) PROVE Edits
  BY <1>0, ReturnsEdits DEF FdCall
<1>1. ASSUME NEW op \in {"lseek", "ioctl", "fcntl"}, NEW g, NEW ok, NEW answer, SysOnFd(op, g, ok, answer)
      PROVE  Edits
  BY <1>0, <1>1 DEF SysOnFd
<1>2. ASSUME NEW op \in {"getlk", "setlk"}, NEW g, NEW a, NEW ok, NEW answer, SysLock(op, g, a, ok, answer)
      PROVE  Edits
  BY <1>0, <1>2, WritesGuestEdits DEF SysLock
<1>3. ASSUME NEW op \in {"stat", "fstat"}, NEW g, NEW path, NEW a, NEW ok, NEW answer,
             SysStat(op, g, path, a, ok, answer)
      PROVE  Edits
  BY <1>0, <1>3, WritesGuestEdits DEF SysStat
<1>4. ASSUME NEW op \in {"access", "rename"}, NEW a, NEW path, NEW answer, SysFileSystem(op, a, path, answer)
      PROVE  Edits
  BY <1>0, <1>4 DEF SysFileSystem
<1>5. ASSUME NEW op \in {"renameat", "unlinkat"}, NEW g, NEW a, NEW path, NEW ok, NEW answer,
             SysFileSystemAt(op, g, a, path, ok, answer)
      PROVE  Edits
  BY <1>0, <1>5 DEF SysFileSystemAt
<1>6. ASSUME NEW g, NEW a, NEW n, NEW ok, NEW answer, SysConnect(g, a, n, ok, answer) PROVE Edits
  BY <1>0, <1>6 DEF SysConnect
<1>7. ASSUME NEW op \in {"select", "nanosleep"}, NEW a, NEW ok, SysSleep(op, a, ok) PROVE Edits
  BY <1>0, <1>7 DEF SysSleep
<1>8. ASSUME NEW op \in {"gettimeofday", "clock_gettime", "getrusage"}, NEW a, SysTime(op, a) PROVE Edits
  BY <1>8, SysTimeEdits
<1> QED
  BY <1>1, <1>2, <1>3, <1>4, <1>5, <1>6, <1>7, <1>8 DEF FileCall

\* Of the heap and the two cursors: the break is inside the mapped heap.
CursorsOK ==
  /\ brk = [minimum |-> brk.minimum, current |-> brk.current, mapped_end |-> brk.mapped_end]
  /\ brk.minimum \in Nat /\ brk.current \in Nat /\ brk.mapped_end \in Nat
  /\ brk.minimum <= brk.current /\ brk.current <= brk.mapped_end
  /\ next_mmap \in Nat /\ next_mremap \in Nat

SameCursors == UNCHANGED <<brk, next_mmap, next_mremap>>

LEMMA CursorsFrame == CursorsOK /\ SameCursors => CursorsOK'
  BY DEF CursorsOK, SameCursors

LEMMA SysBrkCursors ==
  ASSUME CursorsOK, NEW r \in Nat, SysBrk(r)
  PROVE  CursorsOK'
<1> DEFINE end == page_ceil(r)
<1>1. end \in Nat /\ r <= end
  BY CeilFacts
<1> HIDE DEF end
<1>2. UNCHANGED <<next_mmap, next_mremap>>
  BY DEF SysBrk
<1>3. \/ brk' = brk
      \/ /\ ~(r < brk.minimum)
         /\ brk' = [brk EXCEPT !.current = r,
                               !.mapped_end = IF end > brk.mapped_end THEN end ELSE @]
  BY DEF SysBrk, end
<1>4. PICK b0, b1, b2 : brk = [minimum |-> b0, current |-> b1, mapped_end |-> b2]
  BY DEF CursorsOK
<1>5. /\ b0 \in Nat /\ b1 \in Nat /\ b2 \in Nat /\ b0 <= b1 /\ b1 <= b2
      /\ brk.minimum = b0 /\ brk.mapped_end = b2
  BY <1>4 DEF CursorsOK
<1>6. CASE brk' = brk
  BY <1>2, <1>6 DEF CursorsOK
<1>7. CASE /\ ~(r < brk.minimum)
           /\ brk' = [brk EXCEPT !.current = r,
                                 !.mapped_end = IF end > brk.mapped_end THEN end ELSE @]
  <2>1. PICK e : e = IF end > b2 THEN end ELSE b2
    OBVIOUS
  <2>2. brk' = [brk EXCEPT !.current = r, !.mapped_end = e]
    BY <1>5, <1>7, <2>1
  <2>3. brk' = [minimum |-> b0, current |-> r, mapped_end |-> e]
    <3>1. [brk EXCEPT !.current = r] = [minimum |-> b0, current |-> r, mapped_end |-> b2]
      BY <1>4
    <3>2. brk' = [[brk EXCEPT !.current = r] EXCEPT !.mapped_end = e]
      BY <2>2
    <3> QED
      BY <3>1, <3>2
  <2>4. b0 \in Nat /\ r \in Nat /\ e \in Nat /\ b0 <= r /\ r <= e
    BY <1>1, <1>5, <1>7, <2>1
  <2> QED
    BY <1>2, <2>3, <2>4 DEF CursorsOK
<1> QED
  BY <1>3, <1>6, <1>7

LEMMA SysMmapCursors ==
  ASSUME CursorsOK, NEW a, a.length \in Nat, NEW flags, NEW prot, NEW answer, NEW loaded,
         SysMmap(a, flags, prot, answer, loaded)
  PROVE  CursorsOK'
<1> DEFINE length == page_ceil(a.length)
           free == FreeRanges(as, next_mmap, length)
<1>1. UNCHANGED <<brk, next_mremap>>
  BY DEF SysMmap
<1>2. \/ next_mmap' = next_mmap
      \/ free # {} /\ next_mmap' = Lowest(free) + length
  BY DEF SysMmap
<1>3. length \in Nat
  BY CeilFacts
<1> HIDE DEF length
<1>4. ASSUME free # {} PROVE Lowest(free) \in Nat
  BY <1>3, <1>4, FreeFound DEF CursorsOK
<1>5. next_mmap' \in Nat
  <2> HIDE DEF free
  <2> QED
    BY <1>2, <1>3, <1>4 DEF CursorsOK
<1> QED
  BY <1>1, <1>5 DEF CursorsOK

LEMMA MoveCursor ==
  ASSUME NEW s, NEW old, NEW olen, NEW nlen, NEW flags, NEW f,
         MremapMove(s, old, olen, nlen, flags, f)
  PROVE  \/ next_mremap' = next_mremap
         \/ /\ FreeRanges(s, next_mremap, nlen) # {}
            /\ next_mremap' = Lowest(FreeRanges(s, next_mremap, nlen)) + nlen
<1> DEFINE free == FreeRanges(s, next_mremap, nlen)
           target == IF "fixed" \in flags THEN f ELSE Lowest(free)
           stopped == \/ "maymove" \notin flags
                      \/ "fixed" \in flags /\ ~page_aligned(f)
                      \/ "fixed" \notin flags /\ free = {}
                      \/ range_overflows(target, nlen)
<1>1. CASE stopped
  BY <1>1 DEF MremapMove
<1>2. CASE ~stopped
  <2>1. next_mremap' = IF "fixed" \in flags THEN next_mremap ELSE target + nlen
    BY <1>2 DEF MremapMove
  <2>2. CASE "fixed" \in flags
    BY <2>1, <2>2
  <2>3. CASE "fixed" \notin flags
    BY <1>2, <2>1, <2>3
  <2> QED
    BY <2>2, <2>3
<1> QED
  BY <1>1, <1>2

LEMMA SysMremapCursors ==
  ASSUME CursorsOK, NEW old \in Nat, NEW m \in Nat, NEW n \in Nat, NEW flags, NEW f,
         SysMremap(old, m, n, flags, f)
  PROVE  CursorsOK'
<1> DEFINE olen == page_ceil(m)
           nlen == page_ceil(n)
<1>1. UNCHANGED <<brk, next_mmap>>
  BY DEF SysMremap
<1>2. \/ next_mremap' = next_mremap
      \/ ~(nlen <= olen) /\ next_mremap' = (old + olen) + (nlen - olen)
      \/ \E s : MremapMove(s, old, olen, nlen, flags, f)
  BY DEF SysMremap
<1>3. nlen \in Nat /\ olen \in Nat
  BY CeilFacts
<1> HIDE DEF nlen, olen
<1>4. ASSUME NEW s, MremapMove(s, old, olen, nlen, flags, f) PROVE next_mremap' \in Nat
  <2> DEFINE free == FreeRanges(s, next_mremap, nlen)
  <2>1. next_mremap' = next_mremap \/ (free # {} /\ next_mremap' = Lowest(free) + nlen)
    BY <1>4, MoveCursor
  <2>2. ASSUME free # {} PROVE Lowest(free) \in Nat
    BY <1>3, <2>2, FreeFound DEF CursorsOK
  <2> HIDE DEF free
  <2> QED
    BY <1>3, <2>1, <2>2 DEF CursorsOK
<1>5. next_mremap' \in Nat
  BY <1>2, <1>3, <1>4 DEF CursorsOK
<1> QED
  BY <1>1, <1>5 DEF CursorsOK

LEMMA MemoryCallEdits ==
  ASSUME Running, CursorsOK, Addresses \subseteq Nat, Lengths \subseteq Nat, MemoryCall
  PROVE  Edits /\ CursorsOK'
<1>0. next_mmap \in Nat /\ next_mremap \in Nat /\ brk.mapped_end \in Nat
  BY DEF CursorsOK
<1>1. ASSUME NEW r \in Addresses, Canonical(r, 0) \/ ~Ceilable(r), SysBrk(r)
      PROVE  Edits /\ CursorsOK'
  <2>1. r \in Nat
    OBVIOUS
  <2>2. page_ceil(0) = 0
    <3>1. 0 = 0 * PageSize
      BY Size
    <3> QED
      BY <3>1, MultipleIff DEF Multiple
  <2>3. r <= NumPages * PageSize \/ ~Ceilable(r)
    BY <1>1, <2>2 DEF Canonical, range_overflows
  <2> QED
    BY <1>0, <1>1, <2>1, <2>3, SysBrkEdits, SysBrkCursors
<1>2. ASSUME NEW a \in Addresses, NEW n \in Lengths, Canonical(a, n), RoomFor(as, next_mmap, n),
             NEW flags, NEW prot, NEW answer, NEW loaded \in Nat, loaded <= n,
             SysMmap([address |-> a, length |-> n, offset |-> 0], flags, prot, answer, loaded)
      PROVE  Edits /\ CursorsOK'
  <2> DEFINE arg == [address |-> a, length |-> n, offset |-> 0]
  <2>1. arg.address = a /\ arg.length = n /\ a \in Nat /\ n \in Nat
    OBVIOUS
  <2>2. SysMmap(arg, flags, prot, answer, loaded)
    BY <1>2
  <2> HIDE DEF arg
  <2> QED
    BY <1>0, <1>2, <2>1, <2>2, SysMmapEdits, SysMmapCursors
<1>3. ASSUME NEW off, NEW flags, NEW prot,
             MmapError([address |-> 0, length |-> 1, offset |-> off], flags, prot) # "none",
             SysMmap([address |-> 0, length |-> 1, offset |-> off], flags, prot, "none", 0)
      PROVE  Edits /\ CursorsOK'
  <2> DEFINE arg == [address |-> 0, length |-> 1, offset |-> off]
  <2>1. arg.length \in Nat
    OBVIOUS
  <2>2. MmapError(arg, flags, prot) # "none" /\ SysMmap(arg, flags, prot, "none", 0)
    BY <1>3
  <2> HIDE DEF arg
  <2> QED
    BY <2>1, <2>2, MmapRefused, SysMmapCursors
<1>4. ASSUME NEW a \in Addresses, NEW n \in Lengths, Canonical(a, n), SysMunmap(a, n)
      PROVE  Edits /\ CursorsOK'
  <2>1. SameCursors
    BY <1>4 DEF SysMunmap, memoryVars, SameCursors
  <2> QED
    BY <1>4, <2>1, SysMunmapEdits, CursorsFrame
<1>5. ASSUME NEW a \in Addresses, NEW n \in Lengths, NEW prot, Canonical(a, n), SysMprotect(a, n, prot)
      PROVE  Edits /\ CursorsOK'
  <2>1. SameCursors
    BY <1>5 DEF SysMprotect, memoryVars, SameCursors
  <2> QED
    BY <1>5, <2>1, SysMprotectEdits, CursorsFrame
<1>6. ASSUME NEW a \in Addresses, NEW f \in Addresses, NEW m \in Lengths, NEW n \in Lengths, NEW flags,
             Canonical(a, m), Canonical(a, n), Canonical(f, n), RoomToMove(a, m, n),
             SysMremap(a, m, n, flags, f)
      PROVE  Edits /\ CursorsOK'
  <2>1. a \in Nat /\ f \in Nat /\ m \in Nat /\ n \in Nat
    OBVIOUS
  <2> QED
    BY <1>0, <1>6, <2>1, SysMremapEdits, SysMremapCursors
<1>7. CASE \E r \in Addresses : Uses("brk") /\ (Canonical(r, 0) \/ ~Ceilable(r)) /\ SysBrk(r)
  BY <1>1, <1>7
<1>8. CASE \E a \in Addresses, n \in Lengths, prot \in Prots, fixed \in {{}, {"fixed"}} :
             /\ Uses("mmap") /\ Canonical(a, n) /\ RoomFor(as, next_mmap, n)
             /\ fixed = {} => a = Lowest(Addresses)
             /\ \/ SysMmap([address |-> a, length |-> n, offset |-> 0],
                           fixed \cup {"shared", "anonymous"}, prot, "none", 0)
                \/ \E loaded \in 0 .. PageSize, answer \in LoaderAnswers :
                     /\ Uses("file") /\ loaded <= n
                     /\ SysMmap([address |-> a, length |-> n, offset |-> 0],
                                fixed \cup {"private"}, prot, answer, loaded)
  <2>1. PICK a \in Addresses, n \in Lengths, prot \in Prots, fixed \in {{}, {"fixed"}} :
             /\ Uses("mmap") /\ Canonical(a, n) /\ RoomFor(as, next_mmap, n)
             /\ fixed = {} => a = Lowest(Addresses)
             /\ \/ SysMmap([address |-> a, length |-> n, offset |-> 0],
                           fixed \cup {"shared", "anonymous"}, prot, "none", 0)
                \/ \E loaded \in 0 .. PageSize, answer \in LoaderAnswers :
                     /\ Uses("file") /\ loaded <= n
                     /\ SysMmap([address |-> a, length |-> n, offset |-> 0],
                                fixed \cup {"private"}, prot, answer, loaded)
    BY <1>8
  <2>2. CASE SysMmap([address |-> a, length |-> n, offset |-> 0],
                     fixed \cup {"shared", "anonymous"}, prot, "none", 0)
    <3>1. 0 \in Nat /\ 0 <= n
      OBVIOUS
    <3> QED
      BY <1>2, <2>1, <2>2, <3>1
  <2>3. CASE \E loaded \in 0 .. PageSize, answer \in LoaderAnswers :
               /\ Uses("file") /\ loaded <= n
               /\ SysMmap([address |-> a, length |-> n, offset |-> 0],
                          fixed \cup {"private"}, prot, answer, loaded)
    <3>1. PICK loaded \in 0 .. PageSize, answer \in LoaderAnswers :
               /\ Uses("file") /\ loaded <= n
               /\ SysMmap([address |-> a, length |-> n, offset |-> 0],
                          fixed \cup {"private"}, prot, answer, loaded)
      BY <2>3
    <3>2. loaded \in Nat
      BY Size
    <3> QED
      BY <1>2, <2>1, <3>1, <3>2
  <2> QED
    BY <2>1, <2>2, <2>3
<1> QED
  BY <1>3, <1>4, <1>5, <1>6, <1>7, <1>8, ZenonT(60) DEF MemoryCall

LEMMA WriteChunkEdits ==
  ASSUME \A s \in Space : SpaceOK(spaces[s]), current \in Space \cup {NoSpace},
         io.op # "execute", NEW n, NEW answer, WriteChunk(n, answer)
  PROVE  Edits \/ Untouched
<1>1. CASE UNCHANGED machineVars
  BY <1>1 DEF machineVars, Untouched
<1>2. CASE \E ret, moved : SyscallReturns(as, {}, ret, Done(io.op, {}, moved))
  <2>1. PICK ret, moved : SyscallReturns(as, {}, ret, DoneFrom(io.op, {}, 0, moved))
    BY <1>2 DEF Done
  <2>2. current # NoSpace
    BY <2>1 DEF SyscallReturns, Retire
  <2>3. Running
    BY <2>2 DEF Running, as
  <2>4. Keeps(as, as, {}) /\ SpaceOK(as)
    BY <2>3, KeepsAll DEF Running
  <2> QED
    BY <2>1, <2>3, <2>4, SyscallEdits
<1> QED
  BY <1>1, <1>2 DEF WriteChunk

LEMMA UserEditEdits ==
  ASSUME Addresses \subseteq Nat, Lengths \subseteq Nat, NEW s \in Space, SpaceOK(spaces[s]), UserEdit(s)
  PROVE  Edits
<1>1. PICK start \in Addresses, size \in Lengths \ {0}, prot \in Prots :
       /\ Canonical(start, size)
       /\ ~range_overflows(start, size)
       /\ \E r \in
            {[s |-> map_or_throw(spaces[s], start, size, prot), drop |-> InvalidatedPages(start, size)],
             [s |-> unmap(spaces[s], start, size), drop |-> SpanPages(start, size)]}
            \cup (IF ProtectError(spaces[s], start, size) # "none" THEN {}
                  ELSE {[s |-> protect(spaces[s], start, size, prot), drop |-> SpanPages(start, size)]})
            \cup (IF ~StaleCodePaths /\ PagesOf(start, start + size) \cap spaces[s].execmap # {} THEN {}
                  ELSE {[s |-> write(spaces[s], start, size, 1), drop |-> {}]}) :
            /\ spaces' = [spaces EXCEPT ![s] = cleardirty(r.s, r.drop)]
            /\ decoded' = DropDecoded(decoded, r.drop)
            /\ last' = Done("user", UNION {r.drop, SpanPages(start, size), InvalidatedPages(start, size)}, 0)
  BY DEF UserEdit
<1> DEFINE span == SpanPages(start, size)
           inv == InvalidatedPages(start, size)
<1>2. start \in Nat /\ size \in Nat /\ size # 0
  OBVIOUS
<1>3. start + size <= NumPages * PageSize
  <2> DEFINE c == page_ceil(size)
  <2>1. c \in Nat /\ size <= c
    BY <1>2, CeilFacts
  <2>2. start + c <= NumPages * PageSize
    BY <1>1 DEF Canonical
  <2> HIDE DEF c
  <2>3. NumPages * PageSize \in Nat
    BY Size
  <2> QED
    BY <1>2, <2>1, <2>2, <2>3
<1>4. span \in SUBSET Low /\ inv \in SUBSET Low
  BY <1>2, <1>3, SpanBelow DEF Low
<1>5. MapPages(start, size) \subseteq inv
  BY <1>2, MapInvalidated
<1>6. PagesOf(start, start + size) \subseteq inv
  <2>1. PageOf(page_floor(start)) = PageOf(start)
    BY <1>2, FloorFacts
  <2> QED
    BY <1>2, <2>1 DEF InvalidatedPages, PagesOf
<1>7. ASSUME NEW t, NEW drop \in SUBSET Low, NEW ps,
             spaces' = [spaces EXCEPT ![s] = cleardirty(t, drop)],
             decoded' = DropDecoded(decoded, drop),
             last' = Done("user", UNION {drop, span, inv}, 0),
             SpaceOK(t), Keeps(spaces[s], t, ps),
             ~StaleCodePaths => ps \cap spaces[s].execmap \subseteq drop,
             ps \subseteq span \cup inv
      PROVE  Edits
  <2>1. last'.op = "user" /\ last'.pages = UNION {drop, span, inv}
    BY <1>7 DEF Done, DoneFrom
  <2> HIDE DEF span, inv
  <2>2. ps \subseteq last'.pages
    BY <1>7, <2>1
  <2>3. Becomes(s, t, ps, drop)
    BY <1>7, <2>1, <2>2 DEF Becomes
  <2> QED
    BY <2>3 DEF Edits
<1>8. PICK r :
       /\ \/ r = [s |-> map_or_throw(spaces[s], start, size, prot), drop |-> inv]
          \/ r = [s |-> unmap(spaces[s], start, size), drop |-> span]
          \/ /\ ProtectError(spaces[s], start, size) = "none"
             /\ r = [s |-> protect(spaces[s], start, size, prot), drop |-> span]
          \/ /\ StaleCodePaths \/ PagesOf(start, start + size) \cap spaces[s].execmap = {}
             /\ r = [s |-> write(spaces[s], start, size, 1), drop |-> {}]
       /\ spaces' = [spaces EXCEPT ![s] = cleardirty(r.s, r.drop)]
       /\ decoded' = DropDecoded(decoded, r.drop)
       /\ last' = Done("user", UNION {r.drop, span, inv}, 0)
  BY <1>1
<1>9. CASE r = [s |-> map_or_throw(spaces[s], start, size, prot), drop |-> inv]
  <2> DEFINE t == map_or_throw(spaces[s], start, size, prot)
  <2>1. r.s = t /\ r.drop = inv
    BY <1>9
  <2>2. SpaceOK(t) /\ Keeps(spaces[s], t, MapPages(start, size))
    BY <1>4, <1>5, MapOK
  <2> HIDE DEF t, inv, span
  <2> QED
    BY <1>4, <1>5, <1>7, <1>8, <2>1, <2>2
<1>10. CASE r = [s |-> unmap(spaces[s], start, size), drop |-> span]
  <2> DEFINE t == unmap(spaces[s], start, size)
  <2>1. r.s = t /\ r.drop = span
    BY <1>10
  <2>2. SpaceOK(t) /\ Keeps(spaces[s], t, span)
    BY <1>4, UnmapOK
  <2> HIDE DEF t, inv, span
  <2> QED
    BY <1>4, <1>7, <1>8, <2>1, <2>2
<1>11. CASE /\ ProtectError(spaces[s], start, size) = "none"
            /\ r = [s |-> protect(spaces[s], start, size, prot), drop |-> span]
  <2> DEFINE t == protect(spaces[s], start, size, prot)
  <2>1. r.s = t /\ r.drop = span
    BY <1>11
  <2>2. SpaceOK(t) /\ Keeps(spaces[s], t, span)
    BY <1>4, <1>11, ProtectOK
  <2> HIDE DEF t, inv, span
  <2> QED
    BY <1>4, <1>7, <1>8, <2>1, <2>2
<1>12. CASE /\ StaleCodePaths \/ PagesOf(start, start + size) \cap spaces[s].execmap = {}
            /\ r = [s |-> write(spaces[s], start, size, 1), drop |-> {}]
  <2> DEFINE t == write(spaces[s], start, size, 1)
             ps == {PageOf(x) : x \in Written(spaces[s], start, size)}
  <2>1. r.s = t /\ r.drop = {}
    BY <1>12
  <2>2. SpaceOK(t) /\ Keeps(spaces[s], t, ps)
    BY WriteOK
  <2>3. ps \subseteq PagesOf(start, start + size)
    <3>1. ASSUME NEW x \in Written(spaces[s], start, size) PROVE PageOf(x) \in PagesOf(start, start + size)
      <4>1. x \in DOMAIN spaces[s].mem /\ x \in start .. start + size - 1
        BY WrittenIn
      <4>2. x \in Nat /\ PageOf(x) \in Low
        BY <4>1 DEF SpaceOK, WholePages
      <4>3. start <= x /\ x < start + size
        BY <1>2, <4>1
      <4> QED
        BY <1>2, <4>2, <4>3, RangePage
    <3> QED
      BY <3>1
  <2>4. ~StaleCodePaths => ps \cap spaces[s].execmap \subseteq {}
    BY <1>12, <2>3
  <2>5. ps \subseteq span \cup inv
    BY <1>6, <2>3
  <2>6. {} \in SUBSET Low
    OBVIOUS
  <2> HIDE DEF t, inv, span, ps
  <2> QED
    BY <1>7, <1>8, <2>1, <2>2, <2>4, <2>5, <2>6
<1> QED
  BY <1>8, <1>9, <1>10, <1>11, <1>12
-----------------------------------------------------------------------------
\* What edits, stores and fetches preserve.

AllSpacesOK == DOMAIN spaces = Space /\ \A s \in Space : SpaceOK(spaces[s])

\* PageBytes and the mapping look at the memory only.
LEMMA SameMemory ==
  ASSUME NEW s, NEW t, t.mem = s.mem
  PROVE  MappedPages(t) = MappedPages(s) /\ \A p : PageBytes(t, p) = PageBytes(s, p)
  BY DEF MappedPages, PageBytes

\* The spaces and the code cache after an edit.
Edited(x, t, drop) ==
  /\ DOMAIN spaces' = Space /\ \A y \in Space : SpaceOK(spaces'[y])
  /\ \A y \in Space : y # x => spaces'[y] = spaces[y]
  /\ spaces'[x].mem = t.mem /\ spaces'[x].readmap = t.readmap
  /\ spaces'[x].writemap = t.writemap /\ spaces'[x].execmap = t.execmap
  /\ spaces'[x].dirtymap = spaces[x].dirtymap \ drop
  /\ DOMAIN decoded' = DOMAIN decoded \ drop
  /\ \A p \in DOMAIN decoded' : decoded'[p] = decoded[p]

LEMMA EditedSpace ==
  ASSUME AllSpacesOK, NEW x, NEW t, NEW ps, NEW drop, Becomes(x, t, ps, drop)
  PROVE  Edited(x, t, drop)
<1> DEFINE u == cleardirty(t, drop)
<1>1. SpaceOK(t) /\ drop \in SUBSET Low /\ x \in Space
  BY DEF Becomes
<1>2. /\ SpaceOK(u) /\ u.mem = t.mem /\ u.readmap = t.readmap /\ u.writemap = t.writemap
      /\ u.execmap = t.execmap /\ u.dirtymap = t.dirtymap \ drop
  BY <1>1, ClearDirtyIs
<1>3. spaces' = [spaces EXCEPT ![x] = u]
  BY DEF Becomes
<1> HIDE DEF u
<1>4. spaces'[x] = u /\ DOMAIN spaces' = Space /\ \A y \in Space : y # x => spaces'[y] = spaces[y]
  BY <1>1, <1>3 DEF AllSpacesOK
<1>5. \A y \in Space : SpaceOK(spaces'[y])
  BY <1>2, <1>4 DEF AllSpacesOK
<1>6. t.dirtymap = spaces[x].dirtymap
  BY DEF Becomes, Keeps
<1>7. /\ DOMAIN decoded' = DOMAIN decoded \ drop
      /\ \A p \in DOMAIN decoded' : decoded'[p] = decoded[p]
  BY DEF Becomes, DropDecoded, Restrict
<1> QED
  BY <1>2, <1>4, <1>5, <1>6, <1>7 DEF Edited

\* The code cache: a decoded page can be fetched and holds what was decoded.
CurrentIn(s, p) == p \in s.readmap /\ p \in s.execmap /\ decoded[p] = PageBytes(s, p)

CodeFresh == \A x \in Space : \A p \in DOMAIN decoded : CurrentIn(spaces[x], p)

OneSpace == \A x, y \in Space : x = y

LEMMA EditsCode ==
  ASSUME AllSpacesOK, ~StaleCodePaths, OneSpace, CodeFresh, Edits
  PROVE  CodeFresh'
<1>1. PICK x, t, ps, drop : Becomes(x, t, ps, drop)
  BY DEF Edits
<1>0. Edited(x, t, drop)
  BY <1>1, EditedSpace
<1>2. /\ spaces'[x].mem = t.mem /\ spaces'[x].readmap = t.readmap
      /\ spaces'[x].writemap = t.writemap /\ spaces'[x].execmap = t.execmap
      /\ spaces'[x].dirtymap = spaces[x].dirtymap \ drop
      /\ DOMAIN decoded' = DOMAIN decoded \ drop
      /\ \A p \in DOMAIN decoded' : decoded'[p] = decoded[p]
  BY <1>0 DEF Edited
<1>3. x \in Space /\ SpaceOK(spaces[x]) /\ Keeps(spaces[x], t, ps)
  BY <1>1 DEF Becomes, AllSpacesOK
<1>4. ASSUME NEW p \in DOMAIN decoded'
      PROVE  CurrentIn(spaces[x], p)'
  <2>1. p \in DOMAIN decoded /\ p \notin drop /\ decoded'[p] = decoded[p]
    BY <1>2
  <2>2. CurrentIn(spaces[x], p)
    BY <1>3, <2>1 DEF CodeFresh
  <2>3. p \notin ps
    BY <1>1, <2>1, <2>2 DEF Becomes, CurrentIn
  <2>4. p \in MappedPages(spaces[x])
    BY <1>3, <2>2 DEF CurrentIn, SpaceOK, Rights
  <2>5. PageBytes(t, p) = PageBytes(spaces[x], p)
    BY <1>3, <2>3, <2>4, PageKept
  <2>6. PageBytes(spaces'[x], p) = PageBytes(t, p)
    BY <1>2, SameMemory
  <2>7. p \in t.readmap /\ p \in t.execmap
    BY <1>3, <2>2, <2>3 DEF CurrentIn, Keeps
  <2>8. PageBytes(spaces[x], p)' = PageBytes(spaces'[x], p)
    BY DEF PageBytes
  <2> QED
    BY <1>2, <2>1, <2>2, <2>5, <2>6, <2>7, <2>8 DEF CurrentIn
<1> QED
  BY <1>3, <1>4 DEF CodeFresh, OneSpace

\* An edit changes no mapped page that is not named.
Named(x) == \A p \in MappedPages(spaces[x]) :
              PageState(spaces'[x], p) # PageState(spaces[x], p) => p \in last'.pages

LEMMA StateKept ==
  ASSUME NEW s, NEW t, NEW p \in Low, p \in MappedPages(s), p \in MappedPages(t),
         PageBytes(t, p) = PageBytes(s, p),
         p \in t.readmap <=> p \in s.readmap, p \in t.writemap <=> p \in s.writemap,
         p \in t.execmap <=> p \in s.execmap
  PROVE  PageState(t, p) = PageState(s, p)
<1>1. pageid(p) = p
  BY LowId
<1>2. protection_at(t, p) = protection_at(s, p)
  BY <1>1 DEF protection_at
<1> QED
  BY <1>2 DEF PageState

LEMMA EditsNamed ==
  ASSUME AllSpacesOK, Edits, NEW y \in Space, spaces'[y] # spaces[y]
  PROVE  Named(y)
<1>1. PICK x, t, ps, drop : Becomes(x, t, ps, drop)
  BY DEF Edits
<1>0. Edited(x, t, drop)
  BY <1>1, EditedSpace
<1>2. /\ \A z \in Space : z # x => spaces'[z] = spaces[z]
      /\ spaces'[x].mem = t.mem /\ spaces'[x].readmap = t.readmap
      /\ spaces'[x].writemap = t.writemap /\ spaces'[x].execmap = t.execmap
  BY <1>0 DEF Edited
<1>3. x \in Space /\ SpaceOK(spaces[x]) /\ Keeps(spaces[x], t, ps) /\ y = x
  BY <1>1, <1>2 DEF Becomes, AllSpacesOK
<1>4. ASSUME NEW p \in MappedPages(spaces[x]), p \notin ps
      PROVE  PageState(spaces'[x], p) = PageState(spaces[x], p)
  <2>1. p \in MappedPages(t) /\ PageBytes(t, p) = PageBytes(spaces[x], p)
    BY <1>3, <1>4, PageKept
  <2>2. MappedPages(spaces'[x]) = MappedPages(t) /\ PageBytes(spaces'[x], p) = PageBytes(t, p)
    BY <1>2, SameMemory
  <2>3. p \in Low
    BY <1>3, UnitsWhole DEF SpaceOK
  <2>4. /\ p \in spaces'[x].readmap <=> p \in spaces[x].readmap
        /\ p \in spaces'[x].writemap <=> p \in spaces[x].writemap
        /\ p \in spaces'[x].execmap <=> p \in spaces[x].execmap
    BY <1>2, <1>3, <1>4 DEF Keeps
  <2> QED
    BY <2>1, <2>2, <2>3, <2>4, StateKept
<1>5. \A p \in MappedPages(spaces[x]) : p \in ps => p \in last'.pages
  BY <1>1 DEF Becomes
<1> QED
  BY <1>3, <1>4, <1>5 DEF Named

\* Marking pages dirty changes nothing else.
LEMMA SetDirtyIs ==
  ASSUME NEW s, SpaceOK(s), NEW ps, NEW t, t = setdirty(s, ps)
  PROVE  /\ SpaceOK(t) /\ t.mem = s.mem /\ t.readmap = s.readmap /\ t.writemap = s.writemap
         /\ t.execmap = s.execmap
<1>1. PICK d : d = s.dirtymap \cup {pageid(p) : p \in ps}
  OBVIOUS
<1>2. t = [s EXCEPT !.dirtymap = d]
  BY <1>1 DEF setdirty
<1>3. t = SpaceOf(s.mem, s.readmap, s.writemap, s.execmap, d)
  BY <1>2, DirtyField DEF SpaceOK
<1>4. /\ Fields(t) /\ t.mem = s.mem /\ t.readmap = s.readmap /\ t.writemap = s.writemap
      /\ t.execmap = s.execmap
  BY <1>3, FieldsOf
<1>5. SpaceOK(t)
  BY <1>4 DEF SpaceOK, WholePages, MappedPages, Rights
<1> QED
  BY <1>4, <1>5

\* Other bytes in the pages that are mapped.
LEMMA BytesIs ==
  ASSUME NEW s, SpaceOK(s), NEW m, DOMAIN m = DOMAIN s.mem, NEW t, t = [s EXCEPT !.mem = m]
  PROVE  /\ SpaceOK(t) /\ t.mem = m
         /\ t.readmap = s.readmap /\ t.writemap = s.writemap /\ t.execmap = s.execmap
<1>1. t = SpaceOf(m, s.readmap, s.writemap, s.execmap, s.dirtymap)
  BY MemField DEF SpaceOK
<1>2. /\ Fields(t) /\ t.mem = m /\ t.readmap = s.readmap /\ t.writemap = s.writemap
      /\ t.execmap = s.execmap
  BY <1>1, FieldsOf
<1>3. SpaceOK(t)
  BY <1>2 DEF SpaceOK, WholePages, MappedPages, Rights
<1> QED
  BY <1>2, <1>3

\* The pages that a store does not reach.
LEMMA StoreKeeps ==
  ASSUME NEW s, SpaceOK(s), NEW a \in Nat, NEW t, DOMAIN t.mem = DOMAIN s.mem,
         \A b \in DOMAIN s.mem : b # a => t.mem[b] = s.mem[b],
         NEW p \in MappedPages(s), p # PageOf(a)
  PROVE  p \in MappedPages(t) /\ PageBytes(t, p) = PageBytes(s, p)
<1>1. p \in MappedPages(t)
  BY DEF MappedPages
<1>2. p \in Low /\ p \in Nat
  BY UnitsWhole, Size DEF SpaceOK, Low
<1>3. ASSUME NEW b \in UnitsOf({p}) PROVE t.mem[b] = s.mem[b]
  <2>1. {p} \in SUBSET Nat
    BY <1>2
  <2>2. b \in Nat /\ PageOf(b) = p
    BY <2>1, UnitsIff
  <2>3. b \in DOMAIN s.mem
    BY <2>2, UnitsWhole DEF SpaceOK
  <2> QED
    BY <2>2, <2>3
<1> QED
  BY <1>1, <1>3 DEF PageBytes

Stored(a) ==
  /\ current \in Space /\ a \in Nat
  /\ \A y \in Space : y # current => spaces'[y] = spaces[y]
  /\ DOMAIN spaces' = Space
  /\ SpaceOK(spaces'[current]) /\ DOMAIN spaces'[current].mem = DOMAIN as.mem
  /\ \A b \in DOMAIN as.mem : b # a => spaces'[current].mem[b] = as.mem[b]
  /\ spaces'[current].readmap = as.readmap /\ spaces'[current].writemap = as.writemap
  /\ spaces'[current].execmap = as.execmap
  /\ ~StaleCodePaths => PageOf(a) \notin as.execmap
  /\ decoded' = decoded
  /\ last'.op = "store" /\ last'.pages = {PageOf(a)}

LEMMA GuestStoreIs ==
  ASSUME AllSpacesOK, Running, NEW a \in Nat, a < NumPages * PageSize, NEW v, GuestStore(a, v)
  PROVE  Stored(a) \/ Untouched
<1>1. CASE PageFault
  BY <1>1 DEF PageFault, Untouched, Done, DoneFrom
<1>2. ASSUME StaleCodePaths \/ PageOf(a) \notin as.execmap, NEW marked,
             spaces' = [spaces EXCEPT ![current] = setdirty([@ EXCEPT !.mem[a] = v], marked)],
             last' = Done("store", {PageOf(a)}, 1),
             UNCHANGED decoded
      PROVE  Stored(a)
  <2>2. PICK s : s = as
    OBVIOUS
  <2>1. PICK m : m = [s.mem EXCEPT ![a] = v]
    OBVIOUS
  <2>3. PICK u : u = [s EXCEPT !.mem = m]
    OBVIOUS
  <2>0. PICK t : t = setdirty(u, marked)
    OBVIOUS
  <2>4. SpaceOK(s)
    BY <2>2 DEF Running
  <2>5. /\ SpaceOK(t) /\ DOMAIN t.mem = DOMAIN s.mem
        /\ \A b \in DOMAIN s.mem : b # a => t.mem[b] = s.mem[b]
        /\ t.readmap = s.readmap /\ t.writemap = s.writemap /\ t.execmap = s.execmap
    <3>0. DOMAIN m = DOMAIN s.mem /\ \A b \in DOMAIN s.mem : b # a => m[b] = s.mem[b]
      BY <2>1
    <3>1. /\ SpaceOK(u) /\ u.mem = m
          /\ u.readmap = s.readmap /\ u.writemap = s.writemap /\ u.execmap = s.execmap
      BY <2>3, <2>4, <3>0, BytesIs
    <3>2. /\ SpaceOK(t) /\ t.mem = u.mem /\ t.readmap = u.readmap /\ t.writemap = u.writemap
          /\ t.execmap = u.execmap
      BY <2>0, <3>1, SetDirtyIs
    <3> QED
      BY <3>0, <3>1, <3>2
  <2>6. spaces' = [spaces EXCEPT ![current] = t]
    BY <1>2, <2>0, <2>1, <2>2, <2>3 DEF as
  <2>7. /\ spaces'[current] = t /\ DOMAIN spaces' = Space
        /\ \A y \in Space : y # current => spaces'[y] = spaces[y]
    BY <2>6 DEF AllSpacesOK, Running
  <2>8. last'.op = "store" /\ last'.pages = {PageOf(a)}
    BY <1>2 DEF Done, DoneFrom
  <2> QED
    BY <1>2, <2>2, <2>5, <2>7, <2>8 DEF Stored, Running
<1> QED
  BY <1>1, <1>2 DEF GuestStore

\* A fetch that decodes page p.
Decoded(p) ==
  /\ current \in Space /\ p \in Low
  /\ \A y \in Space : y # current => spaces'[y] = spaces[y]
  /\ DOMAIN spaces' = Space
  /\ SpaceOK(spaces'[current]) /\ spaces'[current].mem = as.mem
  /\ spaces'[current].readmap = as.readmap /\ spaces'[current].writemap = as.writemap
  /\ spaces'[current].execmap = as.execmap
  /\ p \in as.readmap /\ p \in as.execmap
  /\ decoded' = With(decoded, p, PageBytes(as, p))
  /\ last' = last \/ last'.moved = 1

\* A fetch that finds the blocks of page p.
Cached(p) ==
  /\ current \in Space /\ p \in DOMAIN decoded
  /\ spaces' = spaces /\ decoded' = decoded
  /\ last'.op = "execute" /\ last'.moved = IF Fresh(p) THEN 1 ELSE 0

LEMMA Executable ==
  ASSUME NEW s, NEW p \in Nat
  PROVE  check(s, p, {"r", "x"}) <=> p \in Low /\ p \in s.readmap /\ p \in s.execmap
<1>1. check(s, p, {"r", "x"}) <=> p < NumPages /\ "r" \in protection_at(s, p) /\ "x" \in protection_at(s, p)
  BY DEF check
<1>2. /\ "r" \in protection_at(s, p) <=> pageid(p) \in s.readmap
      /\ "x" \in protection_at(s, p) <=> pageid(p) \in s.execmap
  BY DEF protection_at
<1>3. p < NumPages <=> p \in Low
  BY Size DEF Low
<1>4. p \in Low => pageid(p) = p
  BY LowId
<1> QED
  BY <1>1, <1>2, <1>3, <1>4

LEMMA DecodeIs ==
  ASSUME AllSpacesOK, Running, NEW p \in Nat, check(as, p, {"r", "x"}), Decode(p),
         last' = last \/ last'.moved = 1
  PROVE  Decoded(p)
<1>1. p \in Low /\ p \in as.readmap /\ p \in as.execmap
  BY Executable
<1>2. PICK s : s = as
  OBVIOUS
<1>3. PICK ps : ps = {p}
  OBVIOUS
<1>4. PICK t : t = cleardirty(s, ps)
  OBVIOUS
<1>5. SpaceOK(s) /\ ps \in SUBSET Low
  BY <1>1, <1>2, <1>3 DEF Running
<1>6. /\ SpaceOK(t) /\ t.mem = s.mem /\ t.readmap = s.readmap /\ t.writemap = s.writemap
      /\ t.execmap = s.execmap
  BY <1>4, <1>5, ClearDirtyIs
<1>7. spaces' = [spaces EXCEPT ![current] = t] /\ decoded' = With(decoded, p, PageBytes(as, p))
  BY <1>2, <1>3, <1>4 DEF Decode, as
<1>8. /\ spaces'[current] = t /\ DOMAIN spaces' = Space
      /\ \A y \in Space : y # current => spaces'[y] = spaces[y]
  BY <1>7 DEF AllSpacesOK, Running
<1> QED
  BY <1>1, <1>2, <1>6, <1>7, <1>8 DEF Decoded, Running

LEMMA ExecuteIs ==
  ASSUME AllSpacesOK, Running, NEW p \in Nat, Execute(p) \/ FetchAhead(p)
  PROVE  Decoded(p) \/ Cached(p) \/ Untouched
<1>1. CASE PageFault
  BY <1>1 DEF PageFault, Untouched, Done, DoneFrom
<1>2. CASE /\ p \in DOMAIN decoded
           /\ last' = Done("execute", {p}, IF Fresh(p) THEN 1 ELSE 0)
           /\ UNCHANGED <<spaces, decoded>>
  BY <1>2 DEF Cached, Running, Done, DoneFrom
<1>3. CASE check(as, p, {"r", "x"}) /\ Decode(p) /\ last' = Done("execute", {p}, 1)
  <2>1. last'.moved = 1
    BY <1>3 DEF Done, DoneFrom
  <2> QED
    BY <1>3, <2>1, DecodeIs
<1>4. CASE FetchAhead(p)
  BY <1>4, DecodeIs DEF FetchAhead
<1> QED
  BY <1>1, <1>2, <1>3, <1>4 DEF Execute

\* What an instruction does to the memory and to the code cache.
MemStep == \/ Edits
           \/ \E a : Stored(a)
           \/ \E p : Decoded(p) \/ Cached(p)
           \/ Untouched

LEMMA MemStepOK ==
  ASSUME AllSpacesOK, MemStep
  PROVE  AllSpacesOK'
<1>1. CASE Edits
  <2>1. PICK x, t, ps, drop : Becomes(x, t, ps, drop)
    BY <1>1 DEF Edits
  <2>2. Edited(x, t, drop)
    BY <2>1, EditedSpace
  <2> QED
    BY <2>2 DEF Edited, AllSpacesOK
<1>2. CASE \E a : Stored(a)
  <2>1. PICK a : Stored(a)
    BY <1>2
  <2>2. ASSUME NEW y \in Space PROVE SpaceOK(spaces'[y])
    <3>1. CASE y = current
      BY <2>1, <3>1 DEF Stored
    <3>2. CASE y # current
      BY <2>1, <3>2 DEF Stored, AllSpacesOK
    <3> QED
      BY <3>1, <3>2
  <2> QED
    BY <2>1, <2>2 DEF Stored, AllSpacesOK
<1>3. CASE \E p : Decoded(p)
  <2>1. PICK p : Decoded(p)
    BY <1>3
  <2>2. ASSUME NEW y \in Space PROVE SpaceOK(spaces'[y])
    <3>1. CASE y = current
      BY <2>1, <3>1 DEF Decoded
    <3>2. CASE y # current
      BY <2>1, <3>2 DEF Decoded, AllSpacesOK
    <3> QED
      BY <3>1, <3>2
  <2> QED
    BY <2>1, <2>2 DEF Decoded, AllSpacesOK
<1>4. CASE Untouched \/ \E p : Cached(p)
  BY <1>4 DEF Untouched, Cached, AllSpacesOK
<1> QED
  BY <1>1, <1>2, <1>3, <1>4 DEF MemStep

LEMMA MemStepLow ==
  ASSUME AllSpacesOK, MemStep, DOMAIN decoded \subseteq Low
  PROVE  DOMAIN decoded' \subseteq Low
<1>1. CASE Edits
  <2>1. PICK x, t, ps, drop : Becomes(x, t, ps, drop)
    BY <1>1 DEF Edits
  <2>2. Edited(x, t, drop)
    BY <2>1, EditedSpace
  <2> QED
    BY <2>2 DEF Edited
<1>2. CASE \E p : Decoded(p)
  <2>1. PICK p : Decoded(p)
    BY <1>2
  <2>2. DOMAIN decoded' = DOMAIN decoded \cup {p} /\ p \in Low
    BY <2>1 DEF Decoded, With
  <2> QED
    BY <2>2
<1>3. CASE Untouched \/ (\E p : Cached(p)) \/ \E a : Stored(a)
  BY <1>3 DEF Untouched, Cached, Stored
<1> QED
  BY <1>1, <1>2, <1>3 DEF MemStep

\* A store reaches no executable page, and leaves every other page as it was.
LEMMA StoredCode ==
  ASSUME AllSpacesOK, ~StaleCodePaths, OneSpace, CodeFresh, NEW a, Stored(a)
  PROVE  CodeFresh'
<1> SUFFICES ASSUME NEW x \in Space, NEW p \in DOMAIN decoded'
             PROVE  /\ p \in spaces'[x].readmap /\ p \in spaces'[x].execmap
                    /\ decoded'[p] = PageBytes(spaces'[x], p)
  BY DEF CodeFresh, CurrentIn
<1>1. x = current /\ a \in Nat /\ SpaceOK(spaces[x]) /\ decoded' = decoded
  BY DEF OneSpace, Stored, AllSpacesOK
<1>2. PICK s, t : s = spaces[x] /\ t = spaces'[x]
  OBVIOUS
<1>3. /\ DOMAIN t.mem = DOMAIN s.mem
      /\ \A b \in DOMAIN s.mem : b # a => t.mem[b] = s.mem[b]
      /\ t.readmap = s.readmap /\ t.execmap = s.execmap
      /\ PageOf(a) \notin s.execmap
  BY <1>1, <1>2 DEF Stored, as
<1>4. p \in s.readmap /\ p \in s.execmap /\ decoded[p] = PageBytes(s, p)
  BY <1>1, <1>2 DEF CodeFresh, CurrentIn
<1>5. p # PageOf(a)
  BY <1>3, <1>4
<1>6. p \in MappedPages(s) /\ SpaceOK(s)
  BY <1>1, <1>2, <1>4 DEF SpaceOK, Rights
<1>7. PageBytes(t, p) = PageBytes(s, p)
  BY <1>1, <1>3, <1>5, <1>6, StoreKeeps
<1> QED
  BY <1>1, <1>2, <1>3, <1>4, <1>7

\* A fetch decodes the bytes that are in memory.
LEMMA DecodedCode ==
  ASSUME AllSpacesOK, OneSpace, CodeFresh, NEW q, Decoded(q)
  PROVE  CodeFresh'
<1> SUFFICES ASSUME NEW x \in Space, NEW p \in DOMAIN decoded'
             PROVE  /\ p \in spaces'[x].readmap /\ p \in spaces'[x].execmap
                    /\ decoded'[p] = PageBytes(spaces'[x], p)
  BY DEF CodeFresh, CurrentIn
<1>1. x = current /\ decoded' = With(decoded, q, PageBytes(spaces[x], q))
  BY DEF OneSpace, Decoded, as
<1>2. PICK s, t : s = spaces[x] /\ t = spaces'[x]
  OBVIOUS
<1>3. /\ t.mem = s.mem /\ t.readmap = s.readmap /\ t.execmap = s.execmap
      /\ q \in s.readmap /\ q \in s.execmap
  BY <1>1, <1>2 DEF Decoded, as
<1>4. PageBytes(t, p) = PageBytes(s, p)
  BY <1>3 DEF PageBytes
<1>5. CASE p = q
  <2>1. decoded'[p] = PageBytes(s, p)
    BY <1>1, <1>2, <1>5 DEF With
  <2> QED
    BY <1>2, <1>3, <1>4, <1>5, <2>1
<1>6. CASE p # q
  <2>1. p \in DOMAIN decoded /\ decoded'[p] = decoded[p]
    BY <1>1, <1>6 DEF With
  <2>2. p \in s.readmap /\ p \in s.execmap /\ decoded[p] = PageBytes(s, p)
    BY <1>2, <2>1 DEF CodeFresh, CurrentIn
  <2> QED
    BY <1>2, <1>3, <1>4, <2>1, <2>2
<1> QED
  BY <1>5, <1>6

LEMMA MemStepCode ==
  ASSUME AllSpacesOK, ~StaleCodePaths, OneSpace, CodeFresh,
         DOMAIN decoded \subseteq Low, MemStep, ExecutesCurrentCode
  PROVE  CodeFresh' /\ ExecutesCurrentCode'
<1>1. CASE Edits
  <2>1. last'.op # "execute"
    BY <1>1 DEF Edits, Becomes
  <2> QED
    BY <1>1, <2>1, EditsCode DEF ExecutesCurrentCode
<1>2. CASE \E a : Stored(a)
  <2>1. PICK a : Stored(a)
    BY <1>2
  <2>2. last'.op = "store"
    BY <2>1 DEF Stored
  <2> QED
    BY <2>1, <2>2, StoredCode DEF ExecutesCurrentCode
<1>3. CASE \E p : Decoded(p)
  <2>1. PICK p : Decoded(p)
    BY <1>3
  <2>2. last' = last \/ last'.moved = 1
    BY <2>1 DEF Decoded
  <2> QED
    BY <2>1, <2>2, DecodedCode DEF ExecutesCurrentCode
<1>4. CASE \E p : Cached(p)
  <2>1. PICK p : Cached(p)
    BY <1>4
  <2>2. /\ current \in Space /\ p \in DOMAIN decoded
        /\ spaces' = spaces /\ decoded' = decoded
    BY <2>1 DEF Cached
  <2>3. p \in Low /\ p \in Nat
    BY <2>2, Size DEF Low
  <2>4. CurrentIn(as, p)
    BY <2>2 DEF CodeFresh, as
  <2>5. check(as, p, {"r", "x"})
    BY <2>3, <2>4, Executable DEF CurrentIn
  <2>6. Fresh(p)
    BY <2>4, <2>5 DEF Fresh, CurrentIn
  <2>7. last'.moved = 1
    BY <2>1, <2>6 DEF Cached
  <2>8. CodeFresh'
    BY <2>2 DEF CodeFresh, CurrentIn
  <2> QED
    BY <2>7, <2>8 DEF ExecutesCurrentCode
<1>5. CASE Untouched
  <2>1. CodeFresh'
    BY <1>5 DEF Untouched, CodeFresh, CurrentIn
  <2>2. ExecutesCurrentCode'
    BY <1>5 DEF Untouched, ExecutesCurrentCode
  <2> QED
    BY <2>1, <2>2
<1> QED
  BY <1>1, <1>2, <1>3, <1>4, <1>5 DEF MemStep

LEMMA MemStepNamed ==
  ASSUME AllSpacesOK, MemStep, NEW y \in Space, spaces'[y] # spaces[y]
  PROVE  Named(y)
<1>1. CASE Edits
  BY <1>1, EditsNamed
<1>2. CASE \E a : Stored(a)
  <2>1. PICK a : Stored(a)
    BY <1>2
  <2>2. y = current /\ a \in Nat /\ SpaceOK(spaces[y]) /\ last'.pages = {PageOf(a)}
    BY <2>1 DEF Stored, AllSpacesOK
  <2>3. PICK s, t : s = spaces[y] /\ t = spaces'[y]
    OBVIOUS
  <2>4. /\ SpaceOK(s) /\ DOMAIN t.mem = DOMAIN s.mem
        /\ \A b \in DOMAIN s.mem : b # a => t.mem[b] = s.mem[b]
        /\ t.readmap = s.readmap /\ t.writemap = s.writemap /\ t.execmap = s.execmap
    BY <2>1, <2>2, <2>3 DEF Stored, as
  <2>5. ASSUME NEW p \in MappedPages(s), p # PageOf(a) PROVE PageState(t, p) = PageState(s, p)
    <3>1. p \in MappedPages(t) /\ PageBytes(t, p) = PageBytes(s, p)
      BY <2>2, <2>4, <2>5, StoreKeeps
    <3>2. p \in Low
      BY <2>4, <2>5, UnitsWhole DEF SpaceOK
    <3> QED
      BY <2>4, <2>5, <3>1, <3>2, StateKept
  <2> QED
    BY <2>2, <2>3, <2>5 DEF Named
<1>3. CASE \E p : Decoded(p)
  <2>1. PICK q : Decoded(q)
    BY <1>3
  <2>2. y = current /\ SpaceOK(spaces[y])
    BY <2>1 DEF Decoded, AllSpacesOK
  <2>3. PICK s, t : s = spaces[y] /\ t = spaces'[y]
    OBVIOUS
  <2>4. /\ SpaceOK(s) /\ t.mem = s.mem
        /\ t.readmap = s.readmap /\ t.writemap = s.writemap /\ t.execmap = s.execmap
    BY <2>1, <2>2, <2>3 DEF Decoded, as
  <2>5. ASSUME NEW p \in MappedPages(s) PROVE PageState(t, p) = PageState(s, p)
    <3>1. p \in MappedPages(t) /\ PageBytes(t, p) = PageBytes(s, p)
      BY <2>4, <2>5, SameMemory
    <3>2. p \in Low
      BY <2>4, <2>5, UnitsWhole DEF SpaceOK
    <3> QED
      BY <2>4, <2>5, <3>1, <3>2, StateKept
  <2> QED
    BY <2>3, <2>5 DEF Named
<1>4. CASE Untouched \/ \E p : Cached(p)
  BY <1>4 DEF Untouched, Cached
<1> QED
  BY <1>1, <1>2, <1>3, <1>4 DEF MemStep

-----------------------------------------------------------------------------
\* The loader.

\* The loader works on the address space of the process.
LEMMA HomeSpace == Home \in Space
  BY MachineAssumption DEF Home

LoaderOK ==
  /\ program \in Programs
  /\ loader = [phase |-> loader.phase, seg |-> loader.seg, stack |-> loader.stack]
  /\ loader.seg \in Nat \ {0}
  /\ loader.phase # "loaded" => current = NoSpace /\ DOMAIN decoded = {}

LEMMA HomeOK ==
  ASSUME AllSpacesOK, NEW t, SpaceOK(t), spaces' = [spaces EXCEPT ![Home] = t]
  PROVE  AllSpacesOK'
<1>1. DOMAIN spaces' = Space /\ \A y \in Space : spaces'[y] = IF y = Home THEN t ELSE spaces[y]
  BY HomeSpace DEF AllSpacesOK
<1> QED
  BY <1>1 DEF AllSpacesOK

LEMMA SegmentLow ==
  ASSUME NEW a \in Nat, NEW n \in Nat, a + n <= NumPages * PageSize
  PROVE  MapPages(page_floor(a), page_ceil(a + n) - page_floor(a)) \subseteq Low
<1> DEFINE f == page_floor(a)
           c == page_ceil(a + n)
<1>1. f \in Nat /\ f <= a
  BY FloorFacts
<1>2. a + n \in Nat /\ NumPages \in Int
  BY Size
<1>3. c \in Nat /\ a + n <= c /\ c <= NumPages * PageSize
  BY <1>2, CeilFacts
<1> HIDE DEF f, c
<1>4. PICK b : b = c - f
  OBVIOUS
<1>5. b \in Nat /\ f + b = c
  BY <1>1, <1>3, <1>4
<1>6. MapPages(f, b) \subseteq 0 .. NumPages - 1
  BY <1>1, <1>3, <1>5, MapBelow
<1> QED
  BY <1>4, <1>6 DEF f, c, Low

LEMMA SegmentOf ==
  ASSUME program \in Programs, NEW i \in 1 .. Len(program.image.segs)
  PROVE  LET g == program.image.segs[i]
         IN  /\ g \in Segment
             /\ \/ g.vaddr + g.memsz <= NumPages * PageSize
                \/ g.vaddr > TotalPages * PageSize - 1 - g.memsz
                \/ g.memsz = 0
<1>1. /\ program.image.segs \in Seq(Segment)
      /\ \A k \in 1 .. Len(program.image.segs) :
           LET g == program.image.segs[k]
           IN  \/ g.vaddr + g.memsz <= NumPages * PageSize
               \/ g.vaddr > TotalPages * PageSize - 1 - g.memsz
               \/ g.memsz = 0
  BY ProgramAssumption
<1>2. program.image.segs[i] \in Segment
  BY <1>1
<1> QED
  BY <1>1, <1>2

LEMMA LoadSegmentOK ==
  ASSUME AllSpacesOK, LoaderOK, LoadSegment
  PROVE  AllSpacesOK'
<1>1. CASE UNCHANGED spaces
  BY <1>1 DEF AllSpacesOK
<1>2. CASE ~ UNCHANGED spaces
  <2>1. PICK g : g = program.image.segs[loader.seg]
    OBVIOUS
  <2>2. /\ loader.seg <= Len(program.image.segs) /\ g.memsz # 0
        /\ ~(g.vaddr > Top - 1 - g.memsz)
        /\ spaces' = [spaces EXCEPT ![Home] =
             write(map_or_throw(spaces[Home], page_floor(g.vaddr),
                                page_ceil(g.vaddr + g.memsz) - page_floor(g.vaddr), g.prot),
                   g.vaddr, g.filesz, 1)]
    BY <1>2, <2>1 DEF LoadSegment, LoadFails, Refused
  <2>3. loader.seg \in 1 .. Len(program.image.segs)
    BY <2>2 DEF LoaderOK
  <2>4. /\ g.vaddr \in Nat /\ g.memsz \in Nat
        /\ \/ g.vaddr + g.memsz <= NumPages * PageSize
           \/ g.vaddr > TotalPages * PageSize - 1 - g.memsz
           \/ g.memsz = 0
    BY <2>1, <2>3, SegmentOf DEF LoaderOK, Segment
  <2>5. g.vaddr + g.memsz <= NumPages * PageSize
    BY <2>2, <2>4 DEF Top
  <2>6. PICK a, b : a = page_floor(g.vaddr) /\ b = page_ceil(g.vaddr + g.memsz) - page_floor(g.vaddr)
    OBVIOUS
  <2>7. MapPages(a, b) \subseteq Low
    BY <2>4, <2>5, <2>6, SegmentLow
  <2>8. PICK s : s = spaces[Home]
    OBVIOUS
  <2>9. SpaceOK(s)
    BY <2>8, HomeSpace DEF AllSpacesOK
  <2>10. PICK m : m = map_or_throw(s, a, b, g.prot)
    OBVIOUS
  <2>11. SpaceOK(m)
    BY <2>7, <2>9, <2>10, MapOK
  <2>12. PICK t : t = write(m, g.vaddr, g.filesz, 1)
    OBVIOUS
  <2>13. SpaceOK(t)
    BY <2>11, <2>12, WriteOK
  <2>14. spaces' = [spaces EXCEPT ![Home] = t]
    BY <2>2, <2>6, <2>8, <2>10, <2>12
  <2> QED
    BY <2>13, <2>14, HomeOK
<1> QED
  BY <1>1, <1>2

LEMMA StackPagesLow == MapPages(stack_base, stack_top - stack_base) \subseteq Low
<1>1. StackPages \in Nat /\ StackPages <= NumPages /\ NumPages \in Int
  BY ProgramAssumption, Size
<1>2. PICK n, k : n = NumPages * PageSize /\ k = StackPages * PageSize
  OBVIOUS
<1>3. n \in Int /\ k \in Int /\ k <= n
  BY <1>1, <1>2, Size, MultipleOrder
<1>4. k \in Nat
  BY <1>1, <1>2, Size
<1>5. stack_base = n - k /\ stack_top - stack_base = k /\ n - k \in Nat /\ (n - k) + k <= NumPages * PageSize
  BY <1>2, <1>3, <1>4 DEF stack_base, stack_top
<1>6. PICK a, b : a = n - k /\ b = k
  OBVIOUS
<1>7. MapPages(a, b) \subseteq 0 .. NumPages - 1
  BY <1>4, <1>5, <1>6, MapBelow
<1> QED
  BY <1>5, <1>6, <1>7 DEF Low

LEMMA SetupStackOK ==
  ASSUME AllSpacesOK, LoaderOK, SetupStack
  PROVE  AllSpacesOK'
<1>1. CASE UNCHANGED spaces
  BY <1>1 DEF AllSpacesOK
<1>2. CASE ~ UNCHANGED spaces
  <2>1. PICK s : s = spaces[Home]
    OBVIOUS
  <2>2. PICK a, b : a = stack_base /\ b = stack_top - stack_base
    OBVIOUS
  <2>3. PICK m : m = map_or_throw(s, a, b, {"r", "w"})
    OBVIOUS
  <2> DEFINE envp == program.envp
             argv == program.argv
             belowEnv == stack_top - SumFrom(envp, 1)
             random == (belowEnv - SumFrom(argv, 1)) - 2
             aligned == random - (random % 2)
             words == 3 + Len(argv) + Len(envp) + AuxWords
             rsp == (aligned - words) - ((aligned - words) % 2)
             at == StringsBelow(stack_top, envp)
             below == StringsBelow(belowEnv, argv)
  <2>4. spaces' = [spaces EXCEPT ![Home] =
                     write(write(WriteStrings(WriteStrings(m, at, envp, EnvMark), below, argv, ArgMark),
                                 random, 2, RandomMark), rsp, words, WordMark)]
    BY <1>2, <2>1, <2>2, <2>3, Zenon DEF SetupStack, LoadFails
  <2> HIDE DEF envp, argv, belowEnv, random, aligned, words, rsp, at, below
  <2>5. PICK at1, lens1, at2, lens2, r, x, n :
          spaces' = [spaces EXCEPT ![Home] =
                       write(write(WriteStrings(WriteStrings(m, at1, lens1, EnvMark), at2, lens2, ArgMark),
                                   r, 2, RandomMark), x, n, WordMark)]
    BY <2>4, Zenon
  <2>6. PICK u : u = WriteStrings(m, at1, lens1, EnvMark)
    OBVIOUS
  <2>7. PICK v : v = WriteStrings(u, at2, lens2, ArgMark)
    OBVIOUS
  <2>8. PICK w : w = write(v, r, 2, RandomMark)
    OBVIOUS
  <2>9. PICK t : t = write(w, x, n, WordMark)
    OBVIOUS
  <2>10. SpaceOK(s)
    BY <2>1, HomeSpace DEF AllSpacesOK
  <2>11. MapPages(a, b) \subseteq Low
    BY <2>2, StackPagesLow
  <2>12. SpaceOK(m)
    BY <2>3, <2>10, <2>11, MapOK
  <2>13. SpaceOK(u)
    BY <2>6, <2>12, StringsOK
  <2>14. SpaceOK(v)
    BY <2>7, <2>13, StringsOK
  <2>15. SpaceOK(w)
    BY <2>8, <2>14, WriteOK
  <2>16. SpaceOK(t)
    BY <2>9, <2>15, WriteOK
  <2>17. spaces' = [spaces EXCEPT ![Home] = t]
    BY <2>5, <2>6, <2>7, <2>8, <2>9
  <2> QED
    BY <2>16, <2>17, HomeOK
<1> QED
  BY <1>1, <1>2

LEMMA LoadOK ==
  ASSUME AllSpacesOK, LoaderOK, Load
  PROVE  AllSpacesOK' /\ LoaderOK' /\ loader.phase # "loaded"
<1>1. AllSpacesOK'
  <2>1. CASE LoadHeader
    BY <2>1 DEF LoadHeader, LoadFails, AllSpacesOK
  <2> QED
    BY <2>1, LoadSegmentOK, SetupStackOK DEF Load
<1>2. loader.phase # "loaded"
  BY DEF Load, LoadHeader, LoadSegment, SetupStack
<1>3. UNCHANGED <<current, decoded, program>>
  BY DEF Load
<1>4. PICK ph, n, st : loader = [phase |-> ph, seg |-> n, stack |-> st] /\ n \in Nat \ {0}
  BY DEF LoaderOK
<1>5. \E ph2, n2, st2 : loader' = [phase |-> ph2, seg |-> n2, stack |-> st2] /\ n2 \in Nat \ {0}
  <2>1. CASE LoadHeader
    <3>1. \E ph2 : loader' = [loader EXCEPT !.phase = ph2]
      BY <2>1 DEF LoadHeader, LoadFails
    <3> QED
      BY <1>4, <3>1
  <2>2. CASE LoadSegment
    <3>1. \/ \E ph2 : loader' = [loader EXCEPT !.phase = ph2]
          \/ loader' = [loader EXCEPT !.seg = @ + 1]
      BY <2>2 DEF LoadSegment, LoadFails
    <3> QED
      BY <1>4, <3>1
  <2>3. CASE SetupStack
    <3>1. \/ \E ph2 : loader' = [loader EXCEPT !.phase = ph2]
          \/ \E st2 : loader' = [loader EXCEPT !.phase = "loaded", !.stack = st2]
      BY <2>3 DEF SetupStack, LoadFails
    <3> QED
      BY <1>4, <3>1
  <2> QED
    BY <2>1, <2>2, <2>3 DEF Load
<1>6. PICK ph2, n2, st2 : loader' = [phase |-> ph2, seg |-> n2, stack |-> st2] /\ n2 \in Nat \ {0}
  BY <1>5
<1>7. loader' = [phase |-> loader'.phase, seg |-> loader'.seg, stack |-> loader'.stack] /\ loader'.seg = n2
  BY <1>6
<1>8. current = NoSpace /\ DOMAIN decoded = {} /\ program \in Programs
  BY <1>2 DEF LoaderOK
<1>9. LoaderOK'
  BY <1>3, <1>6, <1>7, <1>8 DEF LoaderOK
<1> QED
  BY <1>1, <1>2, <1>9

-----------------------------------------------------------------------------
\* The memory and the machine.

\* Every system call commits one instruction.
Retires == \E stop : Retire(stop)

LEMMA ReturnsRetire == ASSUME NEW op, NEW ret, Returns(op, ret) PROVE Retires
  BY DEF Returns, SyscallReturns, Retires

LEMMA WritesGuestRetire ==
  ASSUME NEW op, NEW a, NEW n, NEW v, NEW ok, WritesGuest(op, a, n, v, ok)
  PROVE  Retires
  BY DEF WritesGuest, SyscallReturns, Retires

LEMMA MemoryCallRetires == ASSUME MemoryCall PROVE Retires
<1>1. ASSUME NEW r, SysBrk(r) PROVE Retire("none")
  BY <1>1 DEF SysBrk, SyscallReturns
<1>2. ASSUME NEW a, NEW flags, NEW prot, NEW answer, NEW loaded,
             SysMmap(a, flags, prot, answer, loaded)
      PROVE  Retire("none")
  BY <1>2 DEF SysMmap, SyscallReturns
<1>3. ASSUME NEW a, NEW n, SysMunmap(a, n) PROVE Retire("none")
  BY <1>3 DEF SysMunmap, SyscallReturns
<1>4. ASSUME NEW a, NEW n, NEW prot, SysMprotect(a, n, prot) PROVE Retire("none")
  BY <1>4 DEF SysMprotect, SyscallReturns
<1>5. ASSUME NEW a, NEW m, NEW n, NEW flags, NEW f, SysMremap(a, m, n, flags, f)
      PROVE  Retire("none")
  BY <1>5 DEF SysMremap, MremapMove, SyscallReturns
<1> QED
  BY <1>1, <1>2, <1>3, <1>4, <1>5, MemoryCallStep DEF MemoryStep, Retires

LEMMA SmallCallRetires == ASSUME SmallCall PROVE Retires /\ SameCursors
<1> USE DEF memoryVars, SameCursors
<1>1. ASSUME NEW code, NEW a, SysArchPrctl(code, a) PROVE Retires /\ SameCursors
  BY <1>1, ReturnsRetire, WritesGuestRetire DEF SysArchPrctl
<1>2. ASSUME SysGetIdentity PROVE Retires /\ SameCursors
  BY <1>2, ReturnsRetire DEF SysGetIdentity
<1>3. ASSUME NEW name, SysThreadSetup(name) PROVE Retires /\ SameCursors
  BY <1>3, ReturnsRetire DEF SysThreadSetup
<1>4. ASSUME SysSignals PROVE Retires /\ SameCursors
  BY <1>4, ReturnsRetire DEF SysSignals
<1>5. ASSUME NEW name, SysProcess(name) PROVE Retires /\ SameCursors
  BY <1>5, ReturnsRetire DEF SysProcess
<1>6. ASSUME NEW a, SysUname(a) PROVE Retires /\ SameCursors
  BY <1>6, WritesGuestRetire DEF SysUname
<1>7. ASSUME NEW a, NEW n, SysGetcwd(a, n, 2) PROVE Retires /\ SameCursors
  BY <1>7, ReturnsRetire, WritesGuestRetire DEF SysGetcwd
<1>8. ASSUME NEW a, NEW n, SysGetrandom(a, n) PROVE Retires /\ SameCursors
  BY <1>8, ReturnsRetire, WritesGuestRetire DEF SysGetrandom
<1>9. ASSUME NEW own, NEW res, NEW new, NEW old, SysPrlimit64(own, res, new, old)
      PROVE  Retires /\ SameCursors
  <2>1. Retires
    BY <1>9, ReturnsRetire, WritesGuestRetire DEF SysPrlimit64, SyscallReturns, Retires
  <2> QED
    BY <1>9, <2>1 DEF SysPrlimit64
<1>10. ASSUME NEW a, NEW c, NEW v, NEW t, SysFutex(a, c, v, t) PROVE Retires /\ SameCursors
  BY <1>10, ReturnsRetire DEF SysFutex
<1>11. ASSUME SysExit(1) \/ UnsupportedSyscall PROVE Retires /\ SameCursors
  BY <1>11 DEF SysExit, UnsupportedSyscall, SyscallStops, Retires
<1> QED
  BY <1>1, <1>2, <1>3, <1>4, <1>5, <1>6, <1>7, <1>8, <1>9, <1>10, <1>11 DEF SmallCall

LEMMA FdCallRetires == ASSUME NEW op, NEW ret, FdCall(op, ret) PROVE Retires /\ SameCursors
  BY ReturnsRetire DEF FdCall, memoryVars, SameCursors

LEMMA DescriptorCallRetires == ASSUME DescriptorCall PROVE Retires /\ SameCursors
<1>1. ASSUME NEW dir, NEW path, NEW ok, NEW answer, SysOpen(dir, path, ok, answer)
      PROVE  Retires /\ SameCursors
  BY <1>1, FdCallRetires DEF SysOpen, Install
<1>2. ASSUME NEW t, NEW d, NEW answer, SysSocket(t, d, answer) PROVE Retires /\ SameCursors
  BY <1>2, FdCallRetires DEF SysSocket, Install
<1>3. ASSUME NEW g, NEW answer, SysClose(g, answer) PROVE Retires /\ SameCursors
  BY <1>3, FdCallRetires DEF SysClose
<1>4. ASSUME NEW a, NEW p, SysPipe(a, p) PROVE Retires /\ SameCursors
  BY <1>4, FdCallRetires, WritesGuestRetire DEF SysPipe, memoryVars, SameCursors
<1>5. ASSUME NEW op, NEW g, NEW arg, NEW answer, SysDup(op, g, arg, answer)
      PROVE  Retires /\ SameCursors
  BY <1>5, FdCallRetires DEF SysDup, Duplicate
<1> QED
  BY <1>1, <1>2, <1>3, <1>4, <1>5 DEF DescriptorCall

LEMMA TransferCallRetires ==
  ASSUME TransferCall
  PROVE  (Retires \/ UNCHANGED machineVars) /\ SameCursors
<1> USE DEF memoryVars, SameCursors
<1>1. ASSUME NEW g, NEW a, NEW n, NEW answer, SysRead(g, a, n, answer) PROVE Retires /\ SameCursors
  BY <1>1, FdCallRetires, WritesGuestRetire DEF SysRead
<1>2. ASSUME NEW op, NEW g, NEW a, NEW n, SysWrite(op, g, a, n)
      PROVE  (Retires \/ UNCHANGED machineVars) /\ SameCursors
  BY <1>2, FdCallRetires DEF SysWrite
<1>3. ASSUME NEW g, NEW a, NEW n, NEW answer, SysGetdents64(g, a, n, answer)
      PROVE  Retires /\ SameCursors
  BY <1>3, FdCallRetires, WritesGuestRetire DEF SysGetdents64
<1>4. ASSUME NEW g, NEW path, NEW a, NEW n, NEW answer, SysReadlink(g, path, a, n, answer)
      PROVE  Retires /\ SameCursors
  BY <1>4, FdCallRetires, WritesGuestRetire DEF SysReadlink
<1> QED
  BY <1>1, <1>2, <1>3, <1>4 DEF TransferCall

LEMMA FileCallRetires == ASSUME FileCall PROVE Retires /\ SameCursors
<1> USE DEF memoryVars, SameCursors
<1>1. ASSUME NEW op, NEW g, NEW ok, NEW answer, SysOnFd(op, g, ok, answer)
      PROVE  Retires /\ SameCursors
  BY <1>1, FdCallRetires DEF SysOnFd
<1>2. ASSUME NEW op, NEW g, NEW a, NEW ok, NEW answer, SysLock(op, g, a, ok, answer)
      PROVE  Retires /\ SameCursors
  BY <1>2, FdCallRetires, WritesGuestRetire DEF SysLock
<1>3. ASSUME NEW op, NEW g, NEW path, NEW a, NEW ok, NEW answer, SysStat(op, g, path, a, ok, answer)
      PROVE  Retires /\ SameCursors
  BY <1>3, FdCallRetires, WritesGuestRetire DEF SysStat
<1>4. ASSUME NEW op, NEW a, NEW path, NEW answer, SysFileSystem(op, a, path, answer)
      PROVE  Retires /\ SameCursors
  BY <1>4, FdCallRetires DEF SysFileSystem
<1>5. ASSUME NEW op, NEW g, NEW a, NEW path, NEW ok, NEW answer,
             SysFileSystemAt(op, g, a, path, ok, answer)
      PROVE  Retires /\ SameCursors
  BY <1>5, FdCallRetires DEF SysFileSystemAt
<1>6. ASSUME NEW g, NEW a, NEW n, NEW ok, NEW answer, SysConnect(g, a, n, ok, answer)
      PROVE  Retires /\ SameCursors
  BY <1>6, FdCallRetires DEF SysConnect
<1>7. ASSUME NEW op, NEW a, NEW ok, SysSleep(op, a, ok) PROVE Retires /\ SameCursors
  BY <1>7, FdCallRetires DEF SysSleep
<1>8. ASSUME NEW op, NEW a, SysTime(op, a) PROVE Retires /\ SameCursors
  BY <1>8, FdCallRetires, WritesGuestRetire DEF SysTime, SyscallReturns, Retires
<1> QED
  BY <1>1, <1>2, <1>3, <1>4, <1>5, <1>6, <1>7, <1>8 DEF FileCall

(***************************************************************************)
(* The machine around the memory: which space runs, how many instructions  *)
(* have committed, how far a write has come.                               *)
(***************************************************************************)
MachineOK == current \in Space \cup {NoSpace} /\ total \in 0 .. MaxInsns

IoOK ==
  /\ io = [op |-> io.op, fd |-> io.fd, address |-> io.address, count |-> io.count,
           total |-> io.total, moved |-> io.moved]
  /\ io.op \in {"none", "write", "pwrite"}
  /\ io.address \in Nat /\ io.count \in Nat /\ io.total \in Nat /\ io.total <= io.count

MemInv ==
  /\ AllSpacesOK
  /\ DOMAIN decoded \subseteq Low
  /\ LoaderOK
  /\ MachineOK
  /\ CursorsOK
  /\ IoOK

LEMMA RetiresOK ==
  ASSUME MachineOK, Retires
  PROVE  MachineOK' /\ current # NoSpace
<1>1. PICK stop : Retire(stop)
  BY DEF Retires
<1>2. /\ current # NoSpace /\ total < MaxInsns /\ total' = total + 1
      /\ current' = NoSpace \/ current' = current
  BY <1>1 DEF Retire
<1>3. total' \in 0 .. MaxInsns
  BY <1>2, MachineAssumption DEF MachineOK
<1> QED
  BY <1>2, <1>3 DEF MachineOK

LEMMA FaultOK == ASSUME MachineOK, PageFault PROVE MachineOK'
  BY DEF MachineOK, PageFault

LEMMA ArgumentsNat == ASSUME LoaderOK PROVE Addresses \subseteq Nat /\ Lengths \subseteq Nat
  BY ProgramAssumption DEF LoaderOK, Addresses, Lengths

LEMMA GuestStepOK ==
  ASSUME AllSpacesOK, Running, MachineOK, Addresses \subseteq Nat, GuestStep
  PROVE  MemStep /\ MachineOK' /\ SameCursors
<1>1. SameCursors
  BY DEF GuestStep, memoryVars, SameCursors
<1>2. ASSUME NEW a \in Addresses, Execute(PageOf(a)) \/ FetchAhead(PageOf(a)) PROVE MemStep /\ MachineOK'
  <2>1. PICK p : p = PageOf(a)
    OBVIOUS
  <2>2. p \in Nat /\ (Execute(p) \/ FetchAhead(p))
    BY <1>2, <2>1, PageBounds
  <2>3. Decoded(p) \/ Cached(p) \/ Untouched
    BY <2>2, ExecuteIs
  <2>4. PageFault \/ Retires \/ UNCHANGED <<current, total>>
    BY <2>2 DEF Execute, FetchAhead, Retires
  <2>5. UNCHANGED <<current, total>> => MachineOK'
    BY DEF MachineOK
  <2> QED
    BY <2>3, <2>4, <2>5, FaultOK, RetiresOK DEF MemStep
<1>3. ASSUME NEW a \in Addresses, a < NumPages * PageSize, GuestStore(a, 2) PROVE MemStep /\ MachineOK'
  <2>1. Stored(a) \/ Untouched
    BY <1>3, GuestStoreIs
  <2>2. PageFault \/ Retires
    BY <1>3 DEF GuestStore, Retires
  <2> QED
    BY <2>1, <2>2, FaultOK, RetiresOK DEF MemStep
<1>4. \/ \E a \in Addresses : Execute(PageOf(a)) \/ FetchAhead(PageOf(a))
      \/ \E a \in Addresses : a < NumPages * PageSize /\ GuestStore(a, 2)
  BY DEF GuestStep
<1> QED
  BY <1>1, <1>2, <1>3, <1>4

LEMMA InstructionOK ==
  ASSUME MemInv, Instruction
  PROVE  MemStep /\ MachineOK' /\ CursorsOK' /\ loader.phase = "loaded"
<1>1. current \in Space /\ Running /\ loader.phase = "loaded"
  BY DEF MemInv, MachineOK, LoaderOK, Instruction, Running, AllSpacesOK, as
<1>2. Addresses \subseteq Nat /\ Lengths \subseteq Nat
  BY ArgumentsNat DEF MemInv
<1>3. CASE GuestStep
  BY <1>1, <1>2, <1>3, GuestStepOK, CursorsFrame DEF MemInv
<1>4. CASE MemoryCall
  BY <1>1, <1>2, <1>4, MemoryCallEdits, MemoryCallRetires, RetiresOK DEF MemInv, MemStep
<1>5. CASE SmallCall
  BY <1>1, <1>2, <1>5, SmallCallEdits, SmallCallRetires, RetiresOK, CursorsFrame DEF MemInv, MemStep
<1>6. CASE DescriptorCall
  BY <1>1, <1>6, DescriptorCallEdits, DescriptorCallRetires, RetiresOK, CursorsFrame DEF MemInv, MemStep
<1>7. CASE TransferCall
  <2>1. MemStep /\ CursorsOK'
    BY <1>1, <1>7, TransferCallEdits, TransferCallRetires, CursorsFrame DEF MemInv, MemStep
  <2>2. MachineOK'
    <3>1. CASE UNCHANGED machineVars
      BY <3>1 DEF MemInv, machineVars, MachineOK
    <3>2. CASE Retires
      BY <3>2, RetiresOK DEF MemInv
    <3> QED
      BY <1>7, <3>1, <3>2, TransferCallRetires
  <2> QED
    BY <1>1, <2>1, <2>2
<1>8. CASE FileCall
  BY <1>1, <1>8, FileCallEdits, FileCallRetires, RetiresOK, CursorsFrame DEF MemInv, MemStep
<1> QED
  BY <1>3, <1>4, <1>5, <1>6, <1>7, <1>8 DEF Instruction

LEMMA WriteChunkOK ==
  ASSUME MemInv, NEW n, NEW answer, WriteChunk(n, answer)
  PROVE  /\ MemStep /\ MachineOK' /\ CursorsOK'
         /\ UNCHANGED machineVars \/ current # NoSpace
<1>1. MemStep
  BY WriteChunkEdits DEF MemInv, MachineOK, AllSpacesOK, IoOK, MemStep
<1>2. UNCHANGED machineVars \/ Retires
  BY DEF WriteChunk, SyscallReturns, Retires
<1>3. SameCursors
  BY DEF WriteChunk, memoryVars, SameCursors
<1>4. MachineOK' /\ (UNCHANGED machineVars \/ current # NoSpace)
  <2>1. CASE UNCHANGED machineVars
    BY <2>1 DEF MemInv, machineVars, MachineOK
  <2>2. CASE Retires
    BY <2>2, RetiresOK DEF MemInv
  <2> QED
    BY <1>2, <2>1, <2>2
<1> QED
  BY <1>1, <1>3, <1>4, CursorsFrame DEF MemInv

LEMMA StartOK ==
  ASSUME MemInv, Start
  PROVE  MemStep /\ MachineOK' /\ CursorsOK'
<1>1. PICK s \in Space, limit0 \in Limits : MachineRun(s, limit0)
  BY DEF Start
<1>2. /\ spaces' = spaces /\ decoded' = decoded /\ last' = last /\ total' = total
      /\ current' = current \/ current' = s
  BY <1>1 DEF MachineRun
<1>3. SameCursors
  BY DEF Start, memoryVars, SameCursors
<1>4. MachineOK'
  BY <1>2 DEF MemInv, MachineOK
<1> QED
  BY <1>2, <1>3, <1>4, CursorsFrame DEF MemInv, MemStep, Untouched

LEMMA UserEditOK ==
  ASSUME MemInv, NEW s \in Space, UserEdit(s)
  PROVE  MemStep /\ MachineOK' /\ CursorsOK'
<1>1. Addresses \subseteq Nat /\ Lengths \subseteq Nat /\ SpaceOK(spaces[s])
  BY ArgumentsNat DEF MemInv, AllSpacesOK
<1>2. Edits
  BY <1>1, UserEditEdits
<1>3. SameCursors
  BY DEF UserEdit, memoryVars, SameCursors
<1>4. MachineOK'
  BY DEF UserEdit, MemInv, MachineOK
<1> QED
  BY <1>2, <1>3, <1>4, CursorsFrame DEF MemInv, MemStep

\* A step of the process after it was loaded.
Proceeds == MemStep /\ UNCHANGED <<program, loader>> /\ MachineOK' /\ CursorsOK'
            /\ (loader.phase = "loaded" \/ UNCHANGED <<current, decoded>>)

LEMMA NextProceeds ==
  ASSUME MemInv, [Next]_vars, ~Load
  PROVE  Proceeds
<1>1. CASE Start
  BY <1>1, StartOK DEF Start, Proceeds
<1>2. CASE \E s \in Space : UserEdit(s)
  <2>1. PICK s \in Space : UserEdit(s)
    BY <1>2
  <2>2. loader.phase = "loaded" /\ UNCHANGED <<program, loader>>
    BY <2>1 DEF UserEdit
  <2> QED
    BY <2>1, <2>2, UserEditOK DEF Proceeds
<1>3. CASE Instruction
  <2>1. UNCHANGED <<program, loader>>
    BY <1>3 DEF Instruction
  <2> QED
    BY <1>3, <2>1, InstructionOK DEF Proceeds
<1>4. CASE ContinueWrite /\ UNCHANGED <<program, loader>>
  <2>1. PICK n \in 0 .. PageSize, answer \in Answers : WriteChunk(n, answer)
    BY <1>4 DEF ContinueWrite
  <2>2. MemStep /\ MachineOK' /\ CursorsOK' /\ (UNCHANGED machineVars \/ current # NoSpace)
    BY <2>1, WriteChunkOK
  <2>3. loader.phase = "loaded" \/ UNCHANGED <<current, decoded>>
    BY <2>2 DEF MemInv, LoaderOK, machineVars
  <2> QED
    BY <1>4, <2>2, <2>3 DEF Proceeds
<1>5. CASE UNCHANGED vars
  <2>1. UNCHANGED <<machineVars, memoryVars, program, loader>>
    BY <1>5 DEF vars
  <2>2. MemStep
    BY <2>1 DEF machineVars, MemStep, Untouched
  <2>3. MachineOK'
    BY <2>1 DEF machineVars, MemInv, MachineOK
  <2>4. SameCursors
    BY <2>1 DEF memoryVars, SameCursors
  <2>5. UNCHANGED <<current, decoded, program, loader>>
    BY <2>1 DEF machineVars
  <2> QED
    BY <2>2, <2>3, <2>4, <2>5, CursorsFrame DEF MemInv, Proceeds
<1> QED
  BY <1>1, <1>2, <1>3, <1>4, <1>5 DEF Next

LEMMA IoHeld == ASSUME IoOK, io' = io PROVE IoOK'
  BY DEF IoOK

\* A chunk never goes past the end of the buffer.
LEMMA WriteChunkIoOK ==
  ASSUME IoOK, NEW n \in Nat, NEW answer, WriteChunk(n, answer)
  PROVE  IoOK'
<1> DEFINE left == io.count - io.total
           rest == PageSize - ((io.address + io.total) % PageSize)
<1>1. CASE io' = NoIo
  BY <1>1 DEF NoIo, IoOK
<1>2. CASE io' = [io EXCEPT !.total = io.total + n, !.moved = @ + n]
  <2>1. n <= (IF left < rest THEN left ELSE rest)
    BY DEF WriteChunk
  <2>2. left \in Int /\ rest \in Int
    BY Size DEF IoOK
  <2>3. n <= left
    BY <2>1, <2>2
  <2>4. /\ io.total + n \in Nat /\ io.total + n <= io.count
        /\ io.address \in Nat /\ io.count \in Nat /\ io.op \in {"none", "write", "pwrite"}
    BY <2>3 DEF IoOK
  <2>5. io' = [op |-> io.op, fd |-> io.fd, address |-> io.address, count |-> io.count,
               total |-> io.total + n, moved |-> io.moved + n]
    BY <1>2 DEF IoOK
  <2> QED
    BY <2>4, <2>5 DEF IoOK
<1> QED
  BY <1>1, <1>2 DEF WriteChunk

LEMMA IoOKNext ==
  ASSUME IoOK, LoaderOK, [Next]_vars
  PROVE  IoOK'
<1>1. CASE Load \/ Start \/ (\E s \in Space : UserEdit(s)) \/ UNCHANGED vars
  BY <1>1, OutsideFrame, IoHeld DEF Frame
<1>2. CASE GuestStep \/ MemoryCall \/ SmallCall \/ FileCall
  BY <1>2, GuestStepFrame, MemoryCallFrame, SmallCallFrame, FileCallFrame, IoHeld DEF Frame
<1>3. CASE TransferCall
  <2>1. PICK g \in {1, 3}, a \in Addresses, n \in Lengths, answer \in Answers :
          \/ SysRead(g, a, n, answer)
          \/ \E op \in {"write", "pwrite"} : answer = "ok" /\ SysWrite(op, g, a, n)
          \/ SysGetdents64(g, a, n, answer)
          \/ \E path \in Addresses : SysReadlink(g, path, a, n, answer)
    BY <1>3 DEF TransferCall
  <2>2. CASE \E op \in {"write", "pwrite"} : SysWrite(op, g, a, n)
    <3>1. PICK op \in {"write", "pwrite"} : SysWrite(op, g, a, n)
      BY <2>2
    <3>2. a \in Nat /\ n \in Nat
      BY ArgumentsNat
    <3>3. \/ io' = io
          \/ io' = [op |-> op, fd |-> fd_table[g], address |-> a, count |-> n, total |-> 0, moved |-> 0]
      BY <3>1 DEF SysWrite, FdUnchanged
    <3> QED
      BY <3>2, <3>3, IoHeld DEF IoOK
  <2>3. CASE \/ SysRead(g, a, n, answer) \/ SysGetdents64(g, a, n, answer)
             \/ \E path \in Addresses : SysReadlink(g, path, a, n, answer)
    BY <2>3, TransferFrame, IoHeld DEF Frame
  <2> QED
    BY <2>1, <2>2, <2>3
<1>4. CASE DescriptorCall
  BY <1>4, DescriptorCallOther, IoHeld
<1>5. CASE ContinueWrite
  <2>1. PICK n \in 0 .. PageSize, answer \in Answers : WriteChunk(n, answer)
    BY <1>5 DEF ContinueWrite
  <2>2. n \in Nat
    BY Size
  <2> QED
    BY <2>1, <2>2, WriteChunkIoOK
<1> QED
  BY <1>1, <1>2, <1>3, <1>4, <1>5 DEF Next, Instruction

LEMMA EmptyOK == SpaceOK(EmptySpace)
<1>1. PICK s : s = EmptySpace
  OBVIOUS
<1>2. s = SpaceOf([a \in {} |-> 0], {}, {}, {}, {})
  BY <1>1 DEF EmptySpace, SpaceOf
<1>3. Fields(s) /\ s.mem = [a \in {} |-> 0] /\ s.readmap = {} /\ s.writemap = {} /\ s.execmap = {}
  BY <1>2, FieldsOf
<1>4. DOMAIN s.mem = {}
  BY <1>3
<1>5. WholePages(s) /\ Rights(s) \subseteq MappedPages(s)
  BY <1>3, <1>4 DEF WholePages, Rights, MappedPages
<1> QED
  BY <1>1, <1>3, <1>5 DEF SpaceOK

LEMMA MemInvInit == Init => MemInv
<1> SUFFICES ASSUME Init PROVE MemInv
  OBVIOUS
<1>1. AllSpacesOK
  BY EmptyOK DEF Init, AllSpacesOK
<1>2. DOMAIN decoded = {} /\ current = NoSpace
  BY DEF Init
<1>3. LoaderOK
  BY <1>2 DEF Init, LoaderOK
<1>4. MachineOK
  BY <1>2, MachineAssumption DEF Init, MachineOK
<1>5. CursorsOK
  BY BaseAssumption DEF Init, MemoryInit, CursorsOK
<1>6. IoOK
  BY DEF Init, FilesInit, NoIo, IoOK
<1> QED
  BY <1>1, <1>2, <1>3, <1>4, <1>5, <1>6 DEF MemInv

LEMMA LoadKeeps ==
  ASSUME MemInv, Load
  PROVE  /\ AllSpacesOK' /\ LoaderOK' /\ MachineOK' /\ CursorsOK'
         /\ loader.phase # "loaded" /\ DOMAIN decoded = {} /\ decoded' = decoded /\ last' = last
<1>1. AllSpacesOK' /\ LoaderOK' /\ loader.phase # "loaded"
  BY LoadOK DEF MemInv
<1>2. UNCHANGED <<current, decoded, total, last>> /\ SameCursors
  BY DEF Load, memoryVars, SameCursors
<1> QED
  BY <1>1, <1>2, CursorsFrame DEF MemInv, MachineOK, LoaderOK

LEMMA MemInvNext ==
  ASSUME MemInv, [Next]_vars
  PROVE  MemInv'
<1>1. IoOK'
  BY IoOKNext DEF MemInv
<1>2. CASE Load
  BY <1>1, <1>2, LoadKeeps DEF MemInv
<1>3. CASE ~Load
  <2>1. Proceeds
    BY <1>3, NextProceeds
  <2>2. AllSpacesOK' /\ DOMAIN decoded' \subseteq Low
    BY <2>1, MemStepOK, MemStepLow DEF Proceeds, MemInv
  <2>3. LoaderOK'
    BY <2>1 DEF Proceeds, MemInv, LoaderOK
  <2> QED
    BY <1>1, <2>1, <2>2, <2>3 DEF Proceeds, MemInv
<1> QED
  BY <1>2, <1>3

(***************************************************************************)
(* No page keeps a read, write or execute bit after it lost its memory,    *)
(* for every program, every page size and every number of pages, although  *)
(* addrspace.cpp changes the pages and the four bit maps in separate loops *)
(* and a map() may fail between two of them.                               *)
(***************************************************************************)
THEOREM LinuxAttributesOnlyOfMappedPages == Spec => []AttributesOnlyOfMappedPages
<1>1. MemInv /\ [Next]_vars => MemInv'
  BY MemInvNext
<1>2. MemInv => AttributesOnlyOfMappedPages
  BY DEF MemInv, AllSpacesOK, SpaceOK, Rights, AttributesOnlyOfMappedPages
<1> QED
  BY <1>1, <1>2, MemInvInit, PTL DEF Spec

(***************************************************************************)
(* The code cache never serves code that is not in memory any more: every  *)
(* path of map, unmap, protect, brk, mmap and mremap drops the blocks of   *)
(* the pages it changes, whichever core runs, however far it fetches ahead *)
(* and whichever pages its stores mark.  For guests and users that write   *)
(* to no page while it is executable (~StaleCodePaths: the code is written *)
(* first and made executable then), and for one address space: the cache   *)
(* is indexed by the page alone.                                           *)
(***************************************************************************)
THEOREM LinuxExecutesCurrentCode ==
  ASSUME ~StaleCodePaths, OneSpace
  PROVE  Spec => []ExecutesCurrentCode
<1> DEFINE Inv == MemInv /\ CodeFresh /\ ExecutesCurrentCode
<1>1. Init => Inv
  BY MemInvInit DEF Init, CodeFresh, ExecutesCurrentCode, Done, DoneFrom
<1>2. ASSUME Inv, [Next]_vars PROVE Inv'
  <2>1. MemInv'
    BY <1>2, MemInvNext
  <2>2. CASE Load
    <3>1. DOMAIN decoded' = {} /\ last' = last
      BY <1>2, <2>2, LoadKeeps
    <3> QED
      BY <1>2, <2>1, <3>1 DEF CodeFresh, ExecutesCurrentCode
  <2>3. CASE ~Load
    <3>1. MemStep
      BY <1>2, <2>3, NextProceeds DEF Proceeds
    <3> QED
      BY <1>2, <2>1, <3>1, MemStepCode DEF MemInv
  <2> QED
    BY <2>2, <2>3
<1> QED
  BY <1>1, <1>2, PTL DEF Spec

(***************************************************************************)
(* No system call, and no instruction, takes a mapped page away from the   *)
(* guest, changes its bytes or its protection, unless its arguments named  *)
(* that page, for every alignment, length and place of the arguments.      *)
(***************************************************************************)
THEOREM LinuxOnlyNamedPagesChange == Spec => OnlyNamedPagesChange
<1> DEFINE A == loader.phase = "loaded" =>
                  \A s \in {t \in Space : spaces'[t] # spaces[t]} :
                    \A p \in MappedPages(spaces[s]) :
                      PageState(spaces'[s], p) # PageState(spaces[s], p) => p \in last'.pages
<1>1. MemInv /\ [Next]_vars => MemInv'
  BY MemInvNext
<1>2. ASSUME MemInv, [Next]_vars PROVE A
  <2>1. CASE Load
    BY <1>2, <2>1, LoadKeeps
  <2>2. CASE ~Load
    <3>1. MemStep
      BY <1>2, <2>2, NextProceeds DEF Proceeds
    <3>2. ASSUME NEW s \in Space, spaces'[s] # spaces[s] PROVE Named(s)
      BY <1>2, <3>1, <3>2, MemStepNamed DEF MemInv
    <3> QED
      BY <3>2 DEF Named
  <2> QED
    BY <2>1, <2>2
<1>3. MemInv /\ [Next]_vars => [A]_vars
  BY <1>2
<1> QED
  BY <1>1, <1>3, MemInvInit, PTL DEF Spec, OnlyNamedPagesChange

-----------------------------------------------------------------------------
\* Types.

\* The numbers of the descriptors, also of a guest that closes them all.
FdsOK == DOMAIN fds \subseteq GuestFd /\ DOMAIN host \subseteq HostFd

LEMMA FdHeldOK == ASSUME FdsOK, FdHeld PROVE FdsOK'
<1>1. DOMAIN fd_table \subseteq GuestFd
  BY TableDomain DEF FdsOK
<1> QED
  BY <1>1 DEF FdsOK, FdHeld

\* A new descriptor, which may replace another.
LEMMA InstalledOK ==
  ASSUME FdsOK, NEW g \in GuestFd, NEW new \in HostFd, NEW what,
         fds' = With(fd_table, g, new), host' = CloseReplaced(With(host, new, what), g)
  PROVE  FdsOK'
<1>1. DOMAIN fd_table \subseteq GuestFd
  BY TableDomain DEF FdsOK
<1>2. DOMAIN fds' = DOMAIN fd_table \cup {g}
  BY DEF With
<1>3. DOMAIN host' \subseteq DOMAIN host \cup {new}
  BY DEF With, CloseReplaced, Without, Restrict
<1> QED
  BY <1>1, <1>2, <1>3 DEF FdsOK

LEMMA DescriptorCallOK ==
  ASSUME FdsOK, DescriptorCall
  PROVE  FdsOK'
<1>0. ASSUME FdUnchanged PROVE FdsOK'
  BY <1>0, FdHeldOK DEF FdUnchanged, FdHeld
<1>1. ASSUME NEW dir, NEW path, NEW ok, NEW answer, SysOpen(dir, path, ok, answer) PROVE FdsOK'
  <2>1. CASE ~FdUnchanged
    <3>1. PICK what : Install("open", NextHostFd, what, NextGuestFd(0), pipe_map)
      BY <1>1, <2>1 DEF SysOpen
    <3>2. HasGuestFd(0) /\ HostFree # {}
      BY <1>1, <2>1 DEF SysOpen
    <3>3. NextHostFd \in HostFd /\ NextGuestFd(0) \in GuestFd
      BY <3>2, NextFdFree
    <3> QED
      BY <3>1, <3>3, InstalledOK DEF Install
  <2> QED
    BY <1>0, <2>1
<1>2. ASSUME NEW t, NEW d, NEW answer, SysSocket(t, d, answer) PROVE FdsOK'
  <2>1. CASE ~FdUnchanged
    <3>1. PICK what : Install("socket", NextHostFd, what, NextGuestFd(0), pipe_map)
      BY <1>2, <2>1 DEF SysSocket
    <3>2. HasGuestFd(0) /\ HostFree # {}
      BY <1>2, <2>1 DEF SysSocket
    <3>3. NextHostFd \in HostFd /\ NextGuestFd(0) \in GuestFd
      BY <3>2, NextFdFree
    <3> QED
      BY <3>1, <3>3, InstalledOK DEF Install
  <2> QED
    BY <1>0, <2>1
<1>3. ASSUME NEW g, NEW answer, SysClose(g, answer) PROVE FdsOK'
  <2>1. CASE ~FdUnchanged
    <3>1. fds' = Without(fd_table, g) /\ host' = Without(host, fd_table[g])
      BY <1>3, <2>1 DEF SysClose
    <3>2. DOMAIN fd_table \subseteq GuestFd
      BY TableDomain DEF FdsOK
    <3> QED
      BY <3>1, <3>2 DEF FdsOK, Without, Restrict
  <2> QED
    BY <1>0, <2>1
<1>4. ASSUME NEW a, NEW p, SysPipe(a, p) PROVE FdsOK'
  <2>1. CASE ~FdUnchanged
    <3>1. PICK r, w, gr, gw : PipeMade(p, r, w, gr, gw)
      BY <1>4, <2>1, PipeEnds
    <3>2. /\ DOMAIN fds' = DOMAIN fd_table \cup {gr, gw} /\ gr \in GuestFd /\ gw \in GuestFd
          /\ DOMAIN host' = DOMAIN host \cup {r, w} /\ r \in HostFd /\ w \in HostFd
      BY <3>1 DEF PipeMade, With
    <3>3. DOMAIN fd_table \subseteq GuestFd
      BY TableDomain DEF FdsOK
    <3> QED
      BY <3>2, <3>3 DEF FdsOK
  <2> QED
    BY <1>0, <2>1
<1>5. ASSUME NEW op \in {"dup", "dup2", "dup3", "dupfd"}, NEW g, NEW arg \in GuestFd, NEW answer,
             SysDup(op, g, arg, answer)
      PROVE  FdsOK'
  <2>1. CASE ~FdUnchanged
    <3>1. HostFree # {} /\ \E target \in GuestFd \ {g} : Duplicate(op, g, target)
      BY <1>5, <2>1, DuplicateTarget
    <3>2. PICK target \in GuestFd : Duplicate(op, g, target)
      BY <3>1
    <3>3. NextHostFd \in HostFd
      BY <3>1, NextFdFree
    <3> QED
      BY <3>2, <3>3, InstalledOK DEF Duplicate
  <2> QED
    BY <1>0, <2>1
<1> QED
  BY <1>1, <1>2, <1>3, <1>4, <1>5 DEF DescriptorCall

LEMMA FdsOKNext ==
  ASSUME FdsOK, [Next]_vars
  PROVE  FdsOK'
<1>1. CASE Load \/ Start \/ (\E s \in Space : UserEdit(s)) \/ UNCHANGED vars
  BY <1>1, OutsideFrame, FdHeldOK DEF Frame
<1>2. CASE GuestStep \/ MemoryCall \/ SmallCall \/ FileCall
  BY <1>2, GuestStepFrame, MemoryCallFrame, SmallCallFrame, FileCallFrame, FdHeldOK DEF Frame
<1>3. CASE TransferCall
  <2>1. FdHeld
    BY <1>3 DEF TransferCall, SysRead, SysWrite, SysGetdents64, SysReadlink, FdUnchanged, FdHeld
  <2> QED
    BY <2>1, FdHeldOK
<1>4. CASE DescriptorCall
  BY <1>4, DescriptorCallOK
<1>5. CASE ContinueWrite
  <2>1. FdHeld
    BY <1>5 DEF ContinueWrite, WriteChunk, FdHeld
  <2> QED
    BY <2>1, FdHeldOK
<1> QED
  BY <1>1, <1>2, <1>3, <1>4, <1>5 DEF Next, Instruction

(***************************************************************************)
(* The process keeps its shape: the memory of a space is whole pages, the  *)
(* heap is ordered, code is cached for pages with 48 bits only, a write    *)
(* never goes past its buffer, descriptors stay within their limits.       *)
(***************************************************************************)
THEOREM LinuxTypeCorrect == Spec => []TypeOK
<1>1. Init => FdsOK
  BY DescriptorAssumption DEF Init, FilesInit, FdsOK
<1>2. FdsOK /\ [Next]_vars => FdsOK'
  BY FdsOKNext
<1>3. MemInv /\ [Next]_vars => MemInv'
  BY MemInvNext
<1>4. ASSUME MemInv, FdsOK PROVE TypeOK
  <2>1. \A s \in Space : DOMAIN spaces[s].mem = UnitsOf(MappedPages(spaces[s]))
    BY <1>4, UnitsWhole DEF MemInv, AllSpacesOK, SpaceOK
  <2>2. current \in Space \cup {NoSpace} /\ total \in 0 .. MaxInsns
    BY <1>4 DEF MemInv, MachineOK
  <2>3. DOMAIN decoded \subseteq 0 .. NumPages - 1
    BY <1>4 DEF MemInv, Low
  <2>4. brk.minimum <= brk.current /\ brk.current <= brk.mapped_end /\ io.total <= io.count
    BY <1>4 DEF MemInv, CursorsOK, IoOK
  <2> QED
    BY <1>4, <2>1, <2>2, <2>3, <2>4 DEF FdsOK, TypeOK
<1> QED
  BY <1>1, <1>2, <1>3, <1>4, MemInvInit, PTL DEF Spec

-----------------------------------------------------------------------------
\* mremap keeps the data.

DataKept(s, t, from, to, n) ==
  /\ \A i \in 0 .. n - 1 : to + i \in DOMAIN t.mem /\ t.mem[to + i] = s.mem[from + i]
  /\ to # from => from \notin DOMAIN t.mem

\* What lies below a page boundary is on another page.
LEMMA BelowPages ==
  ASSUME NEW x \in Nat, NEW b \in Nat, Multiple(b), x < b, NEW hi
  PROVE  PageOf(x) \notin PagesOf(b, hi)
<1>1. PICK k \in Nat : b = k * PageSize
  BY DEF Multiple
<1>2. PageOf(b) = k
  BY <1>1, FirstUnit
<1>3. PageOf(x) \in Nat /\ PageOf(x) * PageSize <= x /\ PageOf(x) * PageSize \in Nat
  BY PageBounds
<1>4. PageOf(x) * PageSize < k * PageSize
  BY <1>1, <1>3
<1>5. PageOf(x) < k
  BY <1>3, <1>4, Size, MultipleOrder
<1>6. ~(k <= PageOf(x))
  BY <1>3, <1>5
<1> QED
  BY <1>2, <1>6 DEF PagesOf

\* The pages of a range whose units are mapped are mapped.
LEMMA RangeMapped ==
  ASSUME NEW s, NEW a \in Nat, NEW n \in Nat, Multiple(a), a .. a + n - 1 \subseteq DOMAIN s.mem
  PROVE  PagesOf(a, a + n) \subseteq MappedPages(s)
<1> SUFFICES ASSUME NEW p \in PagesOf(a, a + n) PROVE p \in MappedPages(s)
  OBVIOUS
<1>1. PICK k \in Nat : a = k * PageSize
  BY DEF Multiple
<1>2. PageOf(a) = k
  BY <1>1, FirstUnit
<1>3. p \in Nat /\ k <= p /\ p * PageSize < a + n
  BY <1>2, Size DEF PagesOf
<1>4. a <= p * PageSize
  BY <1>1, <1>3, Size, MultipleOrder
<1>5. p * PageSize \in Nat /\ PageOf(p * PageSize) = p
  BY <1>3, FirstUnit
<1>6. p * PageSize \in DOMAIN s.mem
  BY <1>3, <1>4, <1>5
<1> QED
  BY <1>5, <1>6 DEF MappedPages

\* The call returned: the memory is the one it computed.
LEMMA MremapReturned ==
  ASSUME AllSpacesOK, Running, NEW t, Fields(t), NEW drop, NEW start, NEW named, NEW from, NEW n,
         SyscallReturns(t, drop, Value(start), DoneFrom("mremap", named, from, n)),
         DataKept(as, t, from, start, n)
  PROVE  DataKept(as, spaces'[current], last'.from, last'.rax.val, last'.moved)
<1>1. PICK d : d = t.dirtymap \ {pageid(p) : p \in drop}
  OBVIOUS
<1>2. PICK u : u = [t EXCEPT !.dirtymap = d]
  OBVIOUS
<1>3. cleardirty(t, drop) = u
  BY <1>1, <1>2 DEF cleardirty
<1>4. u = SpaceOf(t.mem, t.readmap, t.writemap, t.execmap, d)
  BY <1>2, DirtyField
<1>5. u.mem = t.mem
  BY <1>4, FieldsOf
<1>6. spaces'[current] = u
  BY <1>3 DEF SyscallReturns, AllSpacesOK, Running
<1>7. last'.from = from /\ last'.moved = n /\ last'.rax.val = start
  BY DEF SyscallReturns, DoneFrom, Value
<1> QED
  BY <1>5, <1>6, <1>7 DEF DataKept

LEMMA ShrinkData ==
  ASSUME NEW s, SpaceOK(s), NEW old \in Nat, NEW olen \in Nat, NEW nlen \in Nat,
         Multiple(old), Multiple(olen), Multiple(nlen), nlen <= olen,
         old + olen <= NumPages * PageSize, old .. old + nlen - 1 \subseteq DOMAIN s.mem,
         NEW t, t = unmap(s, old + nlen, olen - nlen)
  PROVE  Fields(t) /\ DataKept(s, t, old, old, nlen)
<1>1. old + nlen \in Nat /\ Multiple(old + nlen) /\ olen - nlen \in Nat /\ Multiple(olen - nlen)
  BY MultipleSum
<1>2. PICK a, b : a = old + nlen /\ b = olen - nlen
  OBVIOUS
<1>3. a \in Nat /\ b \in Nat /\ Multiple(a) /\ Multiple(b) /\ a + b = old + olen /\ t = unmap(s, a, b)
  BY <1>1, <1>2
<1>4. SpanPages(a, b) = PagesOf(a, a + b) /\ SpanPages(a, b) \subseteq Low
  BY <1>3, MultiplePages, SpanBelow DEF Low
<1>5. SpaceOK(t) /\ Keeps(s, t, PagesOf(a, a + b))
  BY <1>3, <1>4, UnmapOK
<1>6. ASSUME NEW i \in 0 .. nlen - 1
      PROVE  old + i \in DOMAIN t.mem /\ t.mem[old + i] = s.mem[old + i]
  <2>1. PICK x : x = old + i
    OBVIOUS
  <2>2. x \in Nat /\ x < a /\ x \in DOMAIN s.mem
    BY <1>2, <1>6, <2>1
  <2>3. PageOf(x) \notin PagesOf(a, a + b)
    BY <1>3, <2>2, BelowPages
  <2> QED
    BY <1>5, <2>1, <2>2, <2>3 DEF Keeps
<1> QED
  BY <1>5, <1>6 DEF DataKept, SpaceOK

LEMMA GrowData ==
  ASSUME NEW s, SpaceOK(s), NEW old \in Nat, NEW olen \in Nat, NEW a \in Nat, NEW b \in Nat,
         Multiple(a), Multiple(b), b # 0, a + b <= NumPages * PageSize,
         range_is_unmapped(s, a, b), old .. old + olen - 1 \subseteq DOMAIN s.mem,
         NEW t, t = map_or_throw(s, a, b, {"r", "w"})
  PROVE  Fields(t) /\ DataKept(s, t, old, old, olen)
<1>1. MapPages(a, b) = PagesOf(a, a + b) /\ MapPages(a, b) \subseteq Low
  BY MultiplePages, MapBelow DEF Low
<1>2. SpaceOK(t) /\ Keeps(s, t, MapPages(a, b))
  BY <1>1, MapOK
<1>3. MapPages(a, b) \cap MappedPages(s) = {}
  BY <1>1 DEF range_is_unmapped
<1>4. ASSUME NEW i \in 0 .. olen - 1
      PROVE  old + i \in DOMAIN t.mem /\ t.mem[old + i] = s.mem[old + i]
  <2>1. PICK x : x = old + i
    OBVIOUS
  <2>2. x \in Nat /\ x \in DOMAIN s.mem
    BY <1>4, <2>1
  <2>3. PageOf(x) \notin MapPages(a, b)
    BY <1>3, <2>2 DEF MappedPages
  <2> QED
    BY <1>2, <2>1, <2>2, <2>3 DEF Keeps
<1> QED
  BY <1>2, <1>4 DEF DataKept, SpaceOK

\* setattr() leaves the memory.
LEMMA SetattrMemory ==
  ASSUME NEW s, Fields(s), NEW ps, ps \in SUBSET Low, NEW t, t = setattr(s, ps, {})
  PROVE  t.mem = s.mem
  BY SetattrIs

\* What was copied is at the target, and unmapping the old range leaves it.
LEMMA MoveData ==
  ASSUME NEW s, NEW base, SpaceOK(base),
         NEW old \in Nat, NEW olen \in Nat, NEW nlen \in Nat, NEW target \in Nat,
         Multiple(old), Multiple(olen), Multiple(nlen), Multiple(target), olen < nlen, olen # 0,
         old + olen <= NumPages * PageSize, target + nlen <= NumPages * PageSize,
         PagesOf(target, target + nlen) \cap PagesOf(old, old + olen) = {},
         NEW cleared, cleared = base \/ cleared = unmap(base, target, nlen),
         NEW block, block = Copied(s, old, olen),
         NEW mapped, mapped = map_or_throw(cleared, target, nlen, {"r", "w"}),
         NEW copied, copied = WriteBlock(mapped, target, block),
         NEW t, t = unmap(copied, old, olen)
  PROVE  Fields(t) /\ DataKept(s, t, old, target, olen)
<1>1. PICK ps, qs : ps = PagesOf(target, target + nlen) /\ qs = PagesOf(old, old + olen)
  OBVIOUS
<1>2. ps = MapPages(target, nlen) /\ ps = SpanPages(target, nlen) /\ ps \subseteq Low
  BY <1>1, MultiplePages, MapBelow DEF Low
<1>3. qs = SpanPages(old, olen) /\ qs \subseteq Low
  BY <1>1, MultiplePages, SpanBelow DEF Low
<1>4. SpaceOK(cleared)
  BY <1>2, UnmapOK
<1>5. SpaceOK(mapped) /\ ps \subseteq MappedPages(mapped)
  BY <1>2, <1>4, MapOK
<1>6. DOMAIN block = 0 .. olen - 1 /\ \A i \in 0 .. olen - 1 : block[i] = s.mem[old + i]
  BY DEF Copied
<1>7. Cardinality(DOMAIN block) = olen
  <2>1. 0 \in Int /\ olen - 1 \in Int
    OBVIOUS
  <2>2. Cardinality(0 .. olen - 1) = IF 0 > olen - 1 THEN 0 ELSE (olen - 1) - 0 + 1
    BY <2>1, FS_Interval
  <2> QED
    BY <1>6, <2>2
<1>8. ASSUME NEW x \in target .. target + olen - 1
      PROVE  x \in Nat /\ PageOf(x) \in ps /\ x \in DOMAIN mapped.mem
  <2>1. x \in Nat /\ target <= x /\ x < target + nlen
    OBVIOUS
  <2>2. PageOf(x) \in Low
    <3>1. PageOf(x) \in Nat /\ PageOf(x) * PageSize \in Nat /\ PageOf(x) * PageSize <= x
      BY <2>1, PageBounds
    <3>2. NumPages * PageSize \in Nat
      BY Size
    <3>3. PageOf(x) * PageSize < NumPages * PageSize
      BY <2>1, <3>1, <3>2
    <3>4. PageOf(x) < NumPages
      BY <3>1, <3>3, Size, MultipleOrder
    <3> QED
      BY <3>1, <3>4, Size DEF Low
  <2>3. PageOf(x) \in ps
    BY <1>1, <2>1, <2>2, RangePage
  <2> QED
    BY <1>5, <2>1, <2>3, UnitsWhole DEF SpaceOK
<1>9. Written(mapped, target, olen) = target .. target + olen - 1
  <2>1. ~range_overflows(target, olen)
    <3>1. /\ NumPages * PageSize <= TotalPages * PageSize
          /\ NumPages * PageSize \in Int /\ TotalPages * PageSize \in Int
      BY Size, AddressAssumption, MultipleOrder
    <3> QED
      BY <3>1 DEF range_overflows, Top
  <2>2. \A x \in target .. target + olen - 1 : target .. x \subseteq DOMAIN mapped.mem
    BY <1>8
  <2> QED
    BY <2>1, <2>2 DEF Written
<1>10. SpaceOK(copied)
  BY <1>5, WriteBlockOK
<1>11. ASSUME NEW x \in target .. target + olen - 1
       PROVE  x \in DOMAIN copied.mem /\ copied.mem[x] = block[x - target]
  <2> DEFINE W == target .. target + olen - 1
             f == [a \in W |-> block[a - target]]
             m == Override(f, mapped.mem)
  <2>1. copied = [mapped EXCEPT !.mem = m]
    BY <1>7, <1>9 DEF WriteBlock
  <2>2. x \in DOMAIN m /\ m[x] = block[x - target]
    BY DEF Override
  <2> HIDE DEF m
  <2>3. copied = SpaceOf(m, mapped.readmap, mapped.writemap, mapped.execmap, mapped.dirtymap)
    BY <1>5, <2>1, MemField DEF SpaceOK
  <2>4. copied.mem = m
    BY <2>3, FieldsOf
  <2> QED
    BY <2>2, <2>4
<1>12. SpaceOK(t) /\ Keeps(copied, t, qs)
  BY <1>3, <1>10, UnmapOK
<1>13. ASSUME NEW i \in 0 .. olen - 1
       PROVE  target + i \in DOMAIN t.mem /\ t.mem[target + i] = s.mem[old + i]
  <2>1. PICK x : x = target + i
    OBVIOUS
  <2>2. x \in target .. target + olen - 1 /\ x - target = i
    BY <1>13, <2>1
  <2>3. x \in Nat /\ PageOf(x) \in ps
    BY <1>8, <2>2
  <2>4. PageOf(x) \notin qs
    BY <1>1, <2>3
  <2>5. x \in DOMAIN copied.mem /\ copied.mem[x] = s.mem[old + i]
    BY <1>6, <1>11, <1>13, <2>2
  <2> QED
    BY <1>12, <2>1, <2>3, <2>4, <2>5 DEF Keeps
<1>14. old \notin DOMAIN t.mem
  <2>1. page_floor(old) = old
    BY MultipleIff, AlignedPages
  <2>2. ~range_overflows(old, olen) /\ Ceilable(old + olen)
    <3>1. /\ TotalPages - 1 \in Int /\ NumPages \in Int /\ NumPages <= TotalPages - 1
          /\ (TotalPages - 1) + 1 = TotalPages
      BY Size, AddressAssumption
    <3>2. /\ NumPages * PageSize <= (TotalPages - 1) * PageSize
          /\ (TotalPages - 1) * PageSize + PageSize = TotalPages * PageSize
          /\ (TotalPages - 1) * PageSize \in Int
      <4>1. PICK q : q = TotalPages - 1
        OBVIOUS
      <4>2. q \in Int /\ q + 1 = TotalPages /\ NumPages <= q
        BY <3>1, <4>1
      <4>3. /\ q * PageSize \in Int /\ (q + 1) * PageSize = q * PageSize + PageSize
            /\ NumPages * PageSize <= q * PageSize
        BY <3>1, <4>2, Size, MultipleOrder
      <4> QED
        BY <4>1, <4>2, <4>3
    <3>3. NumPages * PageSize \in Int /\ TotalPages * PageSize \in Int
      BY Size
    <3> QED
      BY <3>2, <3>3, Size DEF range_overflows, Ceilable, Top
  <2>3. t = setattr([copied EXCEPT !.mem = Restrict(@, DOMAIN @ \ UnitsOf(qs))], qs, {})
    <3>1. ~(olen = 0 \/ range_overflows(old, olen) \/ ~Ceilable(page_floor(old) + olen))
      BY <2>1, <2>2
    <3>2. t = setattr([copied EXCEPT !.mem = Restrict(@, DOMAIN @ \ UnitsOf(SpanPages(old, olen)))],
                      SpanPages(old, olen), {})
      BY <3>1, Zenon DEF unmap
    <3> QED
      BY <1>3, <3>2
  <2>4. PICK m : m = Restrict(copied.mem, DOMAIN copied.mem \ UnitsOf(qs))
    OBVIOUS
  <2>5. PICK u : u = [copied EXCEPT !.mem = m]
    OBVIOUS
  <2>6. u = SpaceOf(m, copied.readmap, copied.writemap, copied.execmap, copied.dirtymap)
    BY <1>10, <2>5, MemField DEF SpaceOK
  <2>7. Fields(u) /\ u.mem = m
    BY <2>6, FieldsOf
  <2>8. t = setattr(u, qs, {})
    BY <2>3, <2>4, <2>5
  <2>9. t.mem = m
    <3>1. qs \in SUBSET Low
      BY <1>3
    <3>2. t.mem = u.mem
      BY <2>7, <2>8, <3>1, SetattrMemory
    <3> QED
      BY <2>7, <3>2
  <2>10. old \in UnitsOf(qs)
    <3>1. PageOf(old) \in Low
      <4>1. PageOf(old) \in Nat /\ PageOf(old) * PageSize \in Nat /\ PageOf(old) * PageSize <= old
        BY PageBounds
      <4>2. NumPages * PageSize \in Nat
        BY Size
      <4>3. PageOf(old) * PageSize < NumPages * PageSize
        BY <4>1, <4>2
      <4>4. PageOf(old) < NumPages
        BY <4>1, <4>3, Size, MultipleOrder
      <4> QED
        BY <4>1, <4>4, Size DEF Low
    <3>2. old <= old /\ old < old + olen
      OBVIOUS
    <3>3. PageOf(old) \in qs
      BY <1>1, <3>1, <3>2, RangePage
    <3>4. qs \in SUBSET Nat
      BY <1>3, Size DEF Low
    <3> QED
      BY <3>3, <3>4, UnitsIff
  <2> QED
    BY <2>4, <2>9, <2>10 DEF Restrict
<1> QED
  BY <1>12, <1>13, <1>14 DEF DataKept, SpaceOK

\* A call that fails says so.
LEMMA MremapFailed ==
  ASSUME NEW e, e # "none", NEW t, NEW drop, NEW pages,
         SyscallReturns(t, drop, Error(e), Done("mremap", pages, 0))
  PROVE  last'.rax.err # "none"
  BY DEF SyscallReturns, Done, DoneFrom, Error

\* The pages of a range from a page boundary, whether its length is rounded up or not.
LEMMA CeilRange ==
  ASSUME NEW a \in Nat, NEW n \in Nat, Multiple(a)
  PROVE  PagesOf(a, a + page_ceil(n)) = PagesOf(a, a + n)
<1> DEFINE c == page_ceil(n)
<1>1. c \in Nat /\ n <= c /\ \A m \in Int : n <= m * PageSize => c <= m * PageSize
  BY CeilFacts
<1> HIDE DEF c
<1>2. PICK k \in Nat : a = k * PageSize
  BY DEF Multiple
<1>3. ASSUME NEW p \in Nat, p * PageSize < a + c PROVE p * PageSize < a + n
  <2>1. PICK m : m = p - k
    OBVIOUS
  <2>2. m \in Int /\ p = m + k
    BY <2>1
  <2>3. m * PageSize \in Int /\ p * PageSize = m * PageSize + a
    <3>1. (m + k) * PageSize = m * PageSize + k * PageSize
      BY <2>2, Size
    <3> QED
      BY <1>2, <2>2, <3>1, Size
  <2>4. m * PageSize < c
    BY <1>1, <1>3, <2>3
  <2>5. ~(n <= m * PageSize)
    BY <1>1, <2>2, <2>3, <2>4
  <2> QED
    BY <2>3, <2>5
<1>4. ASSUME NEW p \in Nat, p * PageSize < a + n PROVE p * PageSize < a + c
  <2>1. p * PageSize \in Int
    BY Size
  <2> QED
    BY <1>1, <1>4, <2>1
<1>5. \A p \in 0 .. TotalPages - 1 : p * PageSize < a + c <=> p * PageSize < a + n
  BY <1>3, <1>4, Size
<1>6. PagesOf(a, a + c) = PagesOf(a, a + n)
  BY <1>5 DEF PagesOf
<1> QED
  BY <1>6 DEF c

LEMMA MremapMoveData ==
  ASSUME AllSpacesOK, Running, next_mremap \in Nat, NEW s, NEW gs, Tried(s, gs),
         NEW old \in Nat, NEW m \in Nat, NEW n \in Nat, NEW flags, NEW f \in Nat,
         NEW olen, olen = page_ceil(m), NEW nlen, nlen = page_ceil(n), olen < nlen, olen # 0,
         Multiple(old), old + olen <= NumPages * PageSize, old .. old + olen - 1 \subseteq DOMAIN as.mem,
         Canonical(f, n), RoomFor(s, next_mremap, n),
         "fixed" \in flags => PagesOf(f, f + n) \cap PagesOf(old, old + m) = {},
         MremapMove(s, old, olen, nlen, flags, f), last'.rax.err = "none"
  PROVE  DataKept(as, spaces'[current], last'.from, last'.rax.val, last'.moved)
<1> DEFINE fixed == "fixed" \in flags
           free == FreeRanges(s, next_mremap, nlen)
           target == IF fixed THEN f ELSE Lowest(free)
           replaces == fixed /\ ~range_is_unmapped(s, f, nlen)
           cleared == IF replaces THEN unmap(s, f, nlen) ELSE s
           mapped == map_or_throw(cleared, target, nlen, {"r", "w"})
           named == SpanPages(old, olen) \cup (IF fixed THEN MapPages(f, nlen) ELSE {})
           Reached == (fixed => page_aligned(f)) /\ (~fixed => free # {}) /\ ~range_overflows(target, nlen)
<1>1. olen \in Nat /\ nlen \in Nat /\ Multiple(olen) /\ Multiple(nlen)
  BY CeilFacts, MultipleIff
<1>2. ASSUME NEW e, e # "none", NEW t, NEW drop, NEW pages,
             SyscallReturns(t, drop, Error(e), Done("mremap", pages, 0))
      PROVE  FALSE
  BY <1>2, MremapFailed
<1>3. /\ Reached
      /\ SyscallReturns(unmap(WriteBlock(mapped, target, Copied(as, old, olen)), old, olen),
                        MapPages(target, nlen) \cup SpanPages(old, olen),
                        Value(target), DoneFrom("mremap", named, old, olen))
  BY <1>2 DEF MremapMove
<1>4. target \in Nat /\ Multiple(target) /\ Canonical(target, n)
  <2>1. CASE fixed
    BY <1>3, <2>1, MultipleIff
  <2>2. CASE ~fixed
    <3>1. Canonical(target, n)
      BY <1>3, <2>2 DEF RoomFor
    <3>2. target \in Nat /\ page_aligned(target)
      BY <1>1, <1>3, <2>2, FreeFound
    <3> QED
      BY <3>1, <3>2, MultipleIff
  <2> QED
    BY <2>1, <2>2
<1>5. target + nlen <= NumPages * PageSize
  <2> HIDE DEF target
  <2> QED
    BY <1>3, <1>4, CanonicalBelow
<1>6. PagesOf(target, target + nlen) \cap PagesOf(old, old + olen) = {}
  <2>1. CASE fixed
    <3>1. PagesOf(f, f + nlen) = PagesOf(f, f + n)
      BY <1>4, <2>1, CeilRange
    <3>2. PagesOf(old, old + olen) = PagesOf(old, old + m)
      BY CeilRange
    <3> QED
      BY <2>1, <3>1, <3>2
  <2>2. CASE ~fixed
    <3>1. PagesOf(target, target + nlen) \cap MappedPages(s) = {}
      BY <1>1, <1>3, <2>2, FreeFound
    <3>2. PagesOf(old, old + olen) \subseteq MappedPages(as)
      BY <1>1, RangeMapped DEF Running
    <3>3. MappedPages(as) \subseteq MappedPages(s)
      BY TriedKeeps
    <3> QED
      BY <3>1, <3>2, <3>3
  <2> QED
    BY <2>1, <2>2
<1>7. cleared = s \/ cleared = unmap(s, target, nlen)
  OBVIOUS
<1>8. PICK block : block = Copied(as, old, olen)
  OBVIOUS
<1>9. PICK copied : copied = WriteBlock(mapped, target, block)
  OBVIOUS
<1>10. PICK t : t = unmap(copied, old, olen)
  OBVIOUS
<1>11. PICK drop : drop = MapPages(target, nlen) \cup SpanPages(old, olen)
  OBVIOUS
<1>12. SyscallReturns(t, drop, Value(target), DoneFrom("mremap", named, old, olen))
  BY <1>3, <1>8, <1>9, <1>10, <1>11
<1>13. mapped = map_or_throw(cleared, target, nlen, {"r", "w"})
  OBVIOUS
<1>14. SpaceOK(s)
  BY DEF Tried
<1> HIDE DEF mapped, cleared, target, named
<1>15. Fields(t) /\ DataKept(as, t, old, target, olen)
  BY <1>1, <1>4, <1>5, <1>6, <1>7, <1>8, <1>9, <1>10, <1>13, <1>14, MoveData, ZenonT(60)
<1> QED
  BY <1>12, <1>15, MremapReturned

LEMMA SysMremapData ==
  ASSUME AllSpacesOK, Running, next_mremap \in Nat,
         NEW old \in Nat, NEW m \in Nat, NEW n \in Nat, NEW flags, NEW f \in Nat,
         Canonical(old, m), Canonical(old, n), Canonical(f, n), RoomToMove(old, m, n),
         "fixed" \in flags => PagesOf(f, f + n) \cap PagesOf(old, old + m) = {},
         SysMremap(old, m, n, flags, f), last'.rax.err = "none"
  PROVE  DataKept(as, spaces'[current], last'.from, last'.rax.val, last'.moved)
<1> DEFINE olen == page_ceil(m)
           nlen == page_ceil(n)
           growth == nlen - olen
           oend == old + olen
           inPlace == oend <= Top - 1 - growth /\ range_is_unmapped(as, oend, growth)
           copy_length == IF olen < nlen THEN olen ELSE nlen
           named == SpanPages(old, olen)
           Legal == /\ page_aligned(old) /\ ~range_overflows(old, olen)
                    /\ AccessError(as, old, copy_length) = "none"
           Succeeds(s, drop) ==
             SyscallReturns(s, drop, Value(old), DoneFrom("mremap", named, old, copy_length))
<1>1. olen \in Nat /\ nlen \in Nat /\ Multiple(olen) /\ Multiple(nlen)
  BY CeilFacts, MultipleIff
<1>2. ASSUME NEW e, e # "none", SyscallReturns(as, {}, Error(e), Done("mremap", {}, 0)) PROVE FALSE
  BY <1>2, MremapFailed
<1>3. ASSUME Legal
      PROVE  /\ Multiple(old) /\ old + olen <= NumPages * PageSize
             /\ copy_length # 0 /\ old .. old + copy_length - 1 \subseteq DOMAIN as.mem
  <2>1. Multiple(old) /\ old + olen <= NumPages * PageSize
    BY <1>3, MultipleIff, CanonicalBelow
  <2> HIDE DEF copy_length
  <2>2. copy_length # 0 /\ old .. old + copy_length - 1 \subseteq DOMAIN as.mem
    BY <1>3 DEF AccessError
  <2> QED
    BY <2>1, <2>2
<1>4. CASE /\ Legal /\ nlen <= olen
           /\ Succeeds(unmap(as, old + nlen, olen - nlen), InvalidatedPages(old + nlen, olen - nlen))
  <2> HIDE DEF olen, nlen, named
  <2>1. copy_length = nlen
    BY <1>1, <1>4
  <2>2. Multiple(old) /\ old + olen <= NumPages * PageSize /\ old .. old + nlen - 1 \subseteq DOMAIN as.mem
    BY <1>3, <1>4, <2>1
  <2>3. PICK t, drop : /\ t = unmap(as, old + nlen, olen - nlen)
                       /\ drop = InvalidatedPages(old + nlen, olen - nlen)
    OBVIOUS
  <2>4. Fields(t) /\ DataKept(as, t, old, old, nlen)
    BY <1>1, <1>4, <2>2, <2>3, ShrinkData DEF Running
  <2>5. SyscallReturns(t, drop, Value(old), DoneFrom("mremap", named, old, nlen))
    BY <1>4, <2>1, <2>3
  <2> QED
    BY <2>4, <2>5, MremapReturned
<1>5. ASSUME Legal, ~(nlen <= olen)
      PROVE  /\ olen < nlen /\ copy_length = olen /\ olen # 0 /\ old .. old + olen - 1 \subseteq DOMAIN as.mem
             /\ Multiple(old) /\ old + olen <= NumPages * PageSize
  <2>1. olen < nlen /\ copy_length = olen
    <3> HIDE DEF olen, nlen
    <3> QED
      BY <1>1, <1>5
  <2> QED
    BY <1>3, <1>5, <2>1
<1>6. ASSUME Legal, ~(nlen <= olen), inPlace
      PROVE  /\ oend \in Nat /\ Multiple(oend) /\ growth \in Nat /\ Multiple(growth) /\ growth # 0
             /\ oend + growth <= NumPages * PageSize
  <2>1. Multiple(old)
    BY <1>3, <1>6
  <2> HIDE DEF olen, nlen
  <2>2. old <= Top - 1 - nlen
    BY <1>1, <1>6, TopNat
  <2>3. old + nlen <= NumPages * PageSize
    BY <2>2, CanonicalBelow DEF nlen
  <2>4. old + olen \in Nat /\ Multiple(old + olen) /\ growth \in Nat /\ Multiple(growth) /\ growth # 0
    BY <1>1, <1>6, <2>1, MultipleSum
  <2>5. (old + olen) + growth = old + nlen
    BY <1>1
  <2> QED
    BY <2>3, <2>4, <2>5
<1>7. CASE /\ Legal /\ ~(nlen <= olen) /\ inPlace
           /\ Succeeds(map_or_throw(as, oend, growth, {"r", "w"}), MapPages(oend, growth))
  <2>1. /\ oend \in Nat /\ Multiple(oend) /\ growth \in Nat /\ Multiple(growth) /\ growth # 0
        /\ oend + growth <= NumPages * PageSize /\ range_is_unmapped(as, oend, growth)
    BY <1>6, <1>7
  <2>2. copy_length = olen /\ old .. old + olen - 1 \subseteq DOMAIN as.mem
    BY <1>5, <1>7
  <2>3. PICK t, drop : t = map_or_throw(as, oend, growth, {"r", "w"}) /\ drop = MapPages(oend, growth)
    OBVIOUS
  <2>4. SyscallReturns(t, drop, Value(old), DoneFrom("mremap", named, old, olen))
    BY <1>7, <2>2, <2>3
  <2> HIDE DEF named, growth, copy_length, oend, olen
  <2>5. Fields(t) /\ DataKept(as, t, old, old, olen)
    BY <1>1, <2>1, <2>2, <2>3, GrowData DEF Running
  <2> QED
    BY <2>4, <2>5, MremapReturned
<1>8. CASE /\ Legal /\ ~(nlen <= olen) /\ inPlace
           /\ MremapMove(HalfMapped(as, oend, growth), old, olen, nlen, flags, f)
  <2>1. PICK s, gs : Tried(s, gs) /\ s = HalfMapped(as, oend, growth)
    BY <1>6, <1>8, GrowTried
  <2>2. RoomFor(s, next_mremap, n) /\ MremapMove(s, old, olen, nlen, flags, f)
    BY <1>8, <2>1 DEF RoomToMove
  <2>3. /\ olen < nlen /\ olen # 0 /\ old .. old + olen - 1 \subseteq DOMAIN as.mem
        /\ Multiple(old) /\ old + olen <= NumPages * PageSize
    BY <1>5, <1>8
  <2> HIDE DEF oend, growth
  <2> QED
    BY <2>1, <2>2, <2>3, MremapMoveData
<1>9. CASE Legal /\ ~(nlen <= olen) /\ MremapMove(as, old, olen, nlen, flags, f)
  <2>1. RoomFor(as, next_mremap, n) /\ Tried(as, {})
    BY TriedNot DEF RoomToMove
  <2>2. /\ olen < nlen /\ olen # 0 /\ old .. old + olen - 1 \subseteq DOMAIN as.mem
        /\ Multiple(old) /\ old + olen <= NumPages * PageSize
    BY <1>5, <1>9
  <2> QED
    BY <1>9, <2>1, <2>2, MremapMoveData
<1> QED
  BY <1>2, <1>4, <1>7, <1>8, <1>9 DEF SysMremap

\* The step is not an mremap that completes.
NotMremap == last'.op # "mremap" \/ total' = total

\* A call on the memory is an mremap with arguments of this kind, or another call.
MremapMade ==
  \E a, f \in Addresses, m, n \in Lengths, flags \in SUBSET {"maymove", "fixed", "dontunmap"} :
    /\ Canonical(a, m) /\ Canonical(a, n) /\ Canonical(f, n) /\ RoomToMove(a, m, n)
    /\ "fixed" \in flags => PagesOf(f, f + n) \cap PagesOf(a, a + m) = {}
    /\ SysMremap(a, m, n, flags, f)

LEMMA MemoryCallMremap ==
  ASSUME MemoryCall
  PROVE  NotMremap \/ MremapMade
<1>1. ASSUME NEW r, SysBrk(r) PROVE NotMremap
  BY <1>1 DEF SysBrk, SyscallReturns, Done, DoneFrom, NotMremap
<1>2. ASSUME NEW a, NEW flags, NEW prot, NEW answer, NEW loaded,
             SysMmap(a, flags, prot, answer, loaded)
      PROVE  NotMremap
  BY <1>2 DEF SysMmap, SyscallReturns, Done, DoneFrom, NotMremap
<1>3. ASSUME NEW a, NEW n, SysMunmap(a, n) PROVE NotMremap
  BY <1>3 DEF SysMunmap, SyscallReturns, Done, DoneFrom, NotMremap
<1>4. ASSUME NEW a, NEW n, NEW prot, SysMprotect(a, n, prot) PROVE NotMremap
  BY <1>4 DEF SysMprotect, SyscallReturns, Done, DoneFrom, NotMremap
<1>5. CASE \E a, f \in Addresses, m, n \in Lengths,
              flags \in {{}, {"maymove"}, {"maymove", "fixed"}, {"fixed"}, {"maymove", "dontunmap"}} :
             /\ Uses("mremap") /\ Canonical(a, m) /\ Canonical(a, n) /\ Canonical(f, n)
             /\ RoomToMove(a, m, n)
             /\ IF "fixed" \in flags THEN PagesOf(f, f + n) \cap PagesOf(a, a + m) = {}
                                      ELSE f = Lowest(Addresses)
             /\ SysMremap(a, m, n, flags, f)
  <2>1. PICK a, f \in Addresses, m, n \in Lengths,
             flags \in {{}, {"maymove"}, {"maymove", "fixed"}, {"fixed"}, {"maymove", "dontunmap"}} :
             /\ Uses("mremap") /\ Canonical(a, m) /\ Canonical(a, n) /\ Canonical(f, n)
             /\ RoomToMove(a, m, n)
             /\ IF "fixed" \in flags THEN PagesOf(f, f + n) \cap PagesOf(a, a + m) = {}
                                      ELSE f = Lowest(Addresses)
             /\ SysMremap(a, m, n, flags, f)
    BY <1>5
  <2>2. flags \in SUBSET {"maymove", "fixed", "dontunmap"}
    OBVIOUS
  <2>3. "fixed" \in flags => PagesOf(f, f + n) \cap PagesOf(a, a + m) = {}
    BY <2>1
  <2> QED
    BY <2>1, <2>2, <2>3, Zenon DEF MremapMade
<1>6. CASE \E a \in Addresses, n \in Lengths, prot \in Prots, fixed \in {{}, {"fixed"}} :
             /\ Uses("mmap") /\ Canonical(a, n) /\ RoomFor(as, next_mmap, n)
             /\ fixed = {} => a = Lowest(Addresses)
             /\ \/ SysMmap([address |-> a, length |-> n, offset |-> 0],
                           fixed \cup {"shared", "anonymous"}, prot, "none", 0)
                \/ \E loaded \in 0 .. PageSize, answer \in LoaderAnswers :
                     /\ Uses("file") /\ loaded <= n
                     /\ SysMmap([address |-> a, length |-> n, offset |-> 0],
                                fixed \cup {"private"}, prot, answer, loaded)
  BY <1>2, <1>6, Zenon
<1>7. ASSUME NEW off, NEW flags, NEW prot,
             SysMmap([address |-> 0, length |-> 1, offset |-> off], flags, prot, "none", 0)
      PROVE  NotMremap
  BY <1>2, <1>7, Zenon
<1> QED
  BY <1>1, <1>3, <1>4, <1>5, <1>6, <1>7 DEF MemoryCall

LEMMA NextNotMremap ==
  ASSUME IoOK, [Next]_vars, ~(Instruction /\ MemoryCall)
  PROVE  NotMremap
<1>1. ASSUME Other PROVE NotMremap
  BY <1>1 DEF Other, NotMremap
<1>2. CASE Load \/ Start \/ (\E s \in Space : UserEdit(s)) \/ UNCHANGED vars
  BY <1>1, <1>2, OutsideFrame DEF Frame
<1>3. CASE GuestStep \/ SmallCall \/ FileCall
  BY <1>1, <1>3, GuestStepFrame, SmallCallFrame, FileCallFrame DEF Frame
<1>4. CASE DescriptorCall
  BY <1>1, <1>4, DescriptorCallOther
<1>5. CASE TransferCall
  <2>1. PICK g \in {1, 3}, a \in Addresses, n \in Lengths, answer \in Answers :
          \/ SysRead(g, a, n, answer)
          \/ \E op \in {"write", "pwrite"} : answer = "ok" /\ SysWrite(op, g, a, n)
          \/ SysGetdents64(g, a, n, answer)
          \/ \E path \in Addresses : SysReadlink(g, path, a, n, answer)
    BY <1>5 DEF TransferCall
  <2>2. CASE \E op \in {"write", "pwrite"} : SysWrite(op, g, a, n)
    <3>1. PICK op \in {"write", "pwrite"} : SysWrite(op, g, a, n)
      BY <2>2
    <3>2. total' = total \/ \E ret : FdCall(op, ret)
      BY <3>1 DEF SysWrite, machineVars
    <3> QED
      BY <3>2 DEF FdCall, Returns, SyscallReturns, Done, DoneFrom, NotMremap
  <2>3. CASE \/ SysRead(g, a, n, answer) \/ SysGetdents64(g, a, n, answer)
             \/ \E path \in Addresses : SysReadlink(g, path, a, n, answer)
    BY <1>1, <2>3, TransferFrame DEF Frame
  <2> QED
    BY <2>1, <2>2, <2>3
<1>6. CASE ContinueWrite
  <2>1. PICK n, answer : WriteChunk(n, answer)
    BY <1>6 DEF ContinueWrite
  <2>2. io.op # "mremap"
    BY DEF IoOK
  <2>3. total' = total \/ \E ret, c : last' = [Done(io.op, {}, c) EXCEPT !.rax = ret]
    BY <2>1 DEF WriteChunk, SyscallReturns, machineVars
  <2> QED
    BY <2>2, <2>3 DEF Done, DoneFrom, NotMremap
<1> QED
  BY <1>2, <1>3, <1>4, <1>5, <1>6 DEF Next, Instruction

(***************************************************************************)
(* mremap never loses data: whichever of its three ways it takes (shrink,  *)
(* grow in place, move), every unit it promises to keep is at the address  *)
(* it returns, and after a move the old range is gone.  For every size and *)
(* every alignment, a fixed target being apart from the old range.         *)
(***************************************************************************)
THEOREM LinuxMremapKeepsData == Spec => MremapKeepsData
<1> DEFINE A == last'.op = "mremap" /\ last'.rax.err = "none" /\ total' # total =>
                  LET old == spaces[current].mem
                      new == spaces'[current].mem
                  IN  /\ \A i \in 0 .. last'.moved - 1 :
                            /\ last'.rax.val + i \in DOMAIN new
                            /\ new[last'.rax.val + i] = old[last'.from + i]
                      /\ last'.rax.val # last'.from => last'.from \notin DOMAIN new
<1>1. MemInv /\ [Next]_vars => MemInv'
  BY MemInvNext
<1>2. ASSUME MemInv, [Next]_vars PROVE A
  <2>1. CASE NotMremap
    BY <2>1 DEF NotMremap
  <2>2. CASE ~NotMremap /\ last'.rax.err = "none"
    <3>1. Instruction /\ MemoryCall
      BY <1>2, <2>2, NextNotMremap DEF MemInv
    <3>2. MremapMade
      BY <2>2, <3>1, MemoryCallMremap
    <3>3. AllSpacesOK /\ Running /\ next_mremap \in Nat
      BY <1>2, <3>1 DEF MemInv, AllSpacesOK, MachineOK, CursorsOK, Running, Instruction, as
    <3>4. Addresses \subseteq Nat /\ Lengths \subseteq Nat
      BY <1>2, ArgumentsNat DEF MemInv
    <3>5. DataKept(as, spaces'[current], last'.from, last'.rax.val, last'.moved)
      <4>1. PICK a, f \in Addresses, m, n \in Lengths, flags \in SUBSET {"maymove", "fixed", "dontunmap"} :
              /\ Canonical(a, m) /\ Canonical(a, n) /\ Canonical(f, n) /\ RoomToMove(a, m, n)
              /\ "fixed" \in flags => PagesOf(f, f + n) \cap PagesOf(a, a + m) = {}
              /\ SysMremap(a, m, n, flags, f)
        BY <3>2, Zenon DEF MremapMade
      <4>2. a \in Nat /\ f \in Nat /\ m \in Nat /\ n \in Nat
        BY <3>4
      <4> QED
        BY <2>2, <3>3, <4>1, <4>2, SysMremapData
    <3> QED
      BY <3>5 DEF DataKept, as
  <2>3. CASE last'.rax.err # "none"
    BY <2>3
  <2> QED
    BY <2>1, <2>2, <2>3
<1>3. MemInv /\ [Next]_vars => [A]_vars
  BY <1>2
<1> QED
  BY <1>1, <1>3, MemInvInit, PTL DEF Spec, MremapKeepsData

-----------------------------------------------------------------------------
(***************************************************************************)
(* The initial stack: what the strings take.  SumFrom adds from the end of *)
(* the list, so a sum is related to the sums behind it by induction.       *)
(***************************************************************************)

\* Induction up to n, over a set of numbers.
LEMMA Upwards ==
  ASSUME NEW n \in Nat, NEW G, 0 \in G, \A k \in 0 .. n - 1 : k \in G => k + 1 \in G
  PROVE  0 .. n \subseteq G
<1> DEFINE bad == (0 .. n) \ G
<1>1. ASSUME bad # {} PROVE FALSE
  <2>1. bad \in SUBSET Nat
    OBVIOUS
  <2> HIDE DEF bad
  <2>2. PICK c \in bad : \A d \in bad : ~(<<d, c>> \in OpToRel(<, Nat))
    BY <1>1, <2>1, WFMin, NatLessThanWellFounded
  <2>3. \A d \in bad : ~(d < c)
    BY <2>1, <2>2 DEF OpToRel
  <2>4. c \in 0 .. n /\ c \notin G
    BY <2>2 DEF bad
  <2>5. c # 0
    BY <2>4
  <2>6. c - 1 \in 0 .. n - 1 /\ c - 1 \in 0 .. n /\ c - 1 < c /\ (c - 1) + 1 = c
    BY <2>4, <2>5
  <2>7. c - 1 \notin bad
    BY <2>3, <2>6
  <2>8. c - 1 \in G
    BY <2>6, <2>7 DEF bad
  <2> QED
    BY <2>4, <2>6, <2>8
<1> QED
  BY <1>1

\* The sums from place b to the end of the list.
SumsFrom(f, lens, b) ==
  f = [j \in b .. Len(lens) + 1 |-> IF j > Len(lens) THEN 0 ELSE lens[j] + f[j + 1]]

LEMMA SumsExist ==
  ASSUME NEW lens \in Seq(Nat)
  PROVE  \E f : SumsFrom(f, lens, 1)
<1>1. PICK n \in Nat : n = Len(lens)
  OBVIOUS
<1> DEFINE G == {k \in 0 .. n : \E f : SumsFrom(f, lens, n + 1 - k)}
<1>2. 0 \in G
  <2> DEFINE f == [j \in n + 1 .. n + 1 |-> 0]
  <2>1. DOMAIN f = n + 1 .. n + 1 /\ \A j \in n + 1 .. n + 1 : j > n /\ f[j] = 0
    OBVIOUS
  <2>2. f = [j \in n + 1 .. n + 1 |-> IF j > n THEN 0 ELSE lens[j] + f[j + 1]]
    BY <2>1
  <2>3. n + 1 - 0 = n + 1
    OBVIOUS
  <2>4. SumsFrom(f, lens, n + 1 - 0)
    BY <1>1, <2>2, <2>3 DEF SumsFrom
  <2> QED
    BY <2>4
<1>3. ASSUME NEW k \in 0 .. n - 1, k \in G PROVE k + 1 \in G
  <2>1. PICK f : SumsFrom(f, lens, n + 1 - k)
    BY <1>3
  <2>2. PICK b : b = n - k
    OBVIOUS
  <2>3. b \in 1 .. n /\ n + 1 - k = b + 1 /\ n + 1 - (k + 1) = b
    BY <2>2
  <2>4. f = [j \in b + 1 .. n + 1 |-> IF j > n THEN 0 ELSE lens[j] + f[j + 1]]
    BY <1>1, <2>1, <2>3 DEF SumsFrom
  <2> DEFINE g == [j \in b .. n + 1 |-> IF j = b THEN lens[b] + f[b + 1] ELSE f[j]]
  <2>5. ASSUME NEW j \in b .. n + 1
        PROVE  g[j] = IF j > n THEN 0 ELSE lens[j] + g[j + 1]
    <3>1. CASE j = b
      <4>1. ~(j > n) /\ b + 1 # b /\ b + 1 \in b .. n + 1 /\ b \in b .. n + 1
        BY <2>3, <3>1
      <4>2. g[b + 1] = f[b + 1] /\ g[b] = lens[b] + f[b + 1]
        BY <4>1
      <4> QED
        BY <3>1, <4>1, <4>2
    <3>2. CASE j # b /\ j > n
      <4>1. j \in b + 1 .. n + 1
        BY <2>3, <3>2
      <4>2. f[j] = 0
        BY <2>4, <3>2, <4>1
      <4> QED
        BY <3>2, <4>2
    <3>3. CASE j # b /\ ~(j > n)
      <4>1. j \in b + 1 .. n + 1 /\ j + 1 \in b .. n + 1 /\ j + 1 # b
        BY <2>3, <3>3
      <4>2. f[j] = lens[j] + f[j + 1]
        BY <2>4, <3>3, <4>1
      <4>3. g[j] = f[j] /\ g[j + 1] = f[j + 1]
        BY <3>3, <4>1
      <4> QED
        BY <3>3, <4>2, <4>3
    <3> QED
      BY <3>1, <3>2, <3>3
  <2>6. g = [j \in DOMAIN g |-> g[j]] /\ DOMAIN g = b .. n + 1
    OBVIOUS
  <2> HIDE DEF g
  <2>7. g = [j \in b .. n + 1 |-> IF j > n THEN 0 ELSE lens[j] + g[j + 1]]
    BY <2>5, <2>6
  <2>8. SumsFrom(g, lens, n + 1 - (k + 1))
    BY <1>1, <2>3, <2>7 DEF SumsFrom
  <2>9. k + 1 \in 0 .. n
    OBVIOUS
  <2> QED
    BY <2>8, <2>9
<1>4. 0 .. n \subseteq G
  <2> HIDE DEF G
  <2> QED
    BY <1>2, <1>3, Upwards
<1>5. n \in 0 .. n /\ n + 1 - n = 1
  OBVIOUS
<1>6. \E f : SumsFrom(f, lens, n + 1 - n)
  BY <1>4, <1>5
<1> QED
  BY <1>5, <1>6

\* The sums are numbers, at least the string they start with, at most the whole.
LEMMA SumFacts ==
  ASSUME NEW lens \in Seq(Nat)
  PROVE  /\ SumFrom(lens, 1) \in Nat
         /\ \A i \in 1 .. Len(lens) : /\ SumFrom(lens, i) \in Nat
                                      /\ lens[i] <= SumFrom(lens, i)
                                      /\ SumFrom(lens, i) <= SumFrom(lens, 1)
<1>1. PICK n \in Nat : n = Len(lens)
  OBVIOUS
<1> DEFINE sum == CHOOSE f : f = [j \in 1 .. Len(lens) + 1 |-> IF j > Len(lens) THEN 0 ELSE lens[j] + f[j + 1]]
<1>2. sum = [j \in 1 .. n + 1 |-> IF j > n THEN 0 ELSE lens[j] + sum[j + 1]]
  BY <1>1, SumsExist DEF SumsFrom
<1>3. \A i : SumFrom(lens, i) = sum[i]
  BY DEF SumFrom
<1> HIDE DEF sum
<1>4. sum[n + 1] = 0 /\ \A j \in 1 .. n : sum[j] = lens[j] + sum[j + 1]
  <2>1. n + 1 \in 1 .. n + 1 /\ n + 1 > n
    OBVIOUS
  <2>2. sum[n + 1] = 0
    BY <1>2, <2>1
  <2>3. ASSUME NEW j \in 1 .. n PROVE sum[j] = lens[j] + sum[j + 1]
    <3>1. j \in 1 .. n + 1 /\ ~(j > n)
      OBVIOUS
    <3> QED
      BY <1>2, <3>1
  <2> QED
    BY <2>2, <2>3
<1>5. \A j \in 1 .. n : lens[j] \in Nat
  BY <1>1
<1>6. \A j \in 1 .. n + 1 : sum[j] \in Nat
  <2> DEFINE G == {k \in 0 .. n : sum[n + 1 - k] \in Nat}
  <2>1. 0 \in G
    BY <1>4
  <2>2. ASSUME NEW k \in 0 .. n - 1, k \in G PROVE k + 1 \in G
    <3>1. PICK b : b = n - k
      OBVIOUS
    <3>2. b \in 1 .. n /\ n + 1 - k = b + 1 /\ n + 1 - (k + 1) = b /\ k + 1 \in 0 .. n
      BY <3>1
    <3>3. sum[b + 1] \in Nat
      BY <2>2, <3>2
    <3>4. sum[b] = lens[b] + sum[b + 1] /\ lens[b] \in Nat
      BY <1>4, <1>5, <3>2
    <3>5. sum[b] \in Nat
      BY <3>3, <3>4
    <3> QED
      BY <3>2, <3>5
  <2>3. 0 .. n \subseteq G
    <3> HIDE DEF G
    <3> QED
      BY <2>1, <2>2, Upwards
  <2>4. ASSUME NEW j \in 1 .. n + 1 PROVE sum[j] \in Nat
    <3>1. PICK k : k = n + 1 - j
      OBVIOUS
    <3>2. k \in 0 .. n /\ n + 1 - k = j
      BY <3>1
    <3>3. sum[n + 1 - k] \in Nat
      BY <2>3, <3>2
    <3> QED
      BY <3>2, <3>3
  <2> QED
    BY <2>4
<1>7. \A j \in 1 .. n : sum[j + 1] <= sum[j] /\ lens[j] <= sum[j]
  <2>1. ASSUME NEW j \in 1 .. n PROVE sum[j + 1] <= sum[j] /\ lens[j] <= sum[j]
    <3>1. sum[j + 1] \in Nat /\ lens[j] \in Nat /\ sum[j] = lens[j] + sum[j + 1]
      BY <1>4, <1>5, <1>6
    <3> QED
      BY <3>1
  <2> QED
    BY <2>1
<1>8. \A j \in 1 .. n + 1 : sum[j] <= sum[1]
  <2> DEFINE G == {k \in 0 .. n : sum[k + 1] <= sum[1]}
  <2>1. 0 \in G
    <3>1. sum[1] \in Nat
      BY <1>6
    <3>2. 0 + 1 = 1 /\ 0 \in 0 .. n
      OBVIOUS
    <3> QED
      BY <3>1, <3>2
  <2>2. ASSUME NEW k \in 0 .. n - 1, k \in G PROVE k + 1 \in G
    <3>1. PICK b : b = k + 1
      OBVIOUS
    <3>2. b \in 1 .. n /\ b + 1 \in 1 .. n + 1 /\ b \in 0 .. n /\ 1 \in 1 .. n + 1 /\ b \in 1 .. n + 1
      BY <3>1
    <3>3. sum[b] <= sum[1] /\ sum[b + 1] <= sum[b]
      BY <1>7, <2>2, <3>1, <3>2
    <3>4. sum[b] \in Nat /\ sum[1] \in Nat /\ sum[b + 1] \in Nat
      BY <1>6, <3>2
    <3>5. sum[b + 1] <= sum[1]
      BY <3>3, <3>4
    <3> QED
      BY <3>1, <3>2, <3>5
  <2>3. 0 .. n \subseteq G
    <3> HIDE DEF G
    <3> QED
      BY <2>1, <2>2, Upwards
  <2>4. ASSUME NEW j \in 1 .. n + 1 PROVE sum[j] <= sum[1]
    <3>1. PICK k : k = j - 1
      OBVIOUS
    <3>2. k \in 0 .. n /\ k + 1 = j
      BY <3>1
    <3>3. sum[k + 1] <= sum[1]
      BY <2>3, <3>2
    <3> QED
      BY <3>2, <3>3
  <2> QED
    BY <2>4
<1>9. 1 \in 1 .. n + 1 /\ \A i \in 1 .. n : i \in 1 .. n + 1
  OBVIOUS
<1> QED
  BY <1>1, <1>3, <1>6, <1>7, <1>8, <1>9

\* The strings lie behind one another below top.
LEMMA StringsPlaced ==
  ASSUME NEW lens \in Seq(Nat), NEW top \in Nat, NEW low, low = top - SumFrom(lens, 1),
         NEW at, at = StringsBelow(top, lens), NEW i \in 1 .. Len(lens)
  PROVE  at[i] \in Int /\ low <= at[i] /\ at[i] + lens[i] <= top /\ lens[i] \in Nat
<1>1. /\ SumFrom(lens, 1) \in Nat /\ SumFrom(lens, i) \in Nat
      /\ lens[i] <= SumFrom(lens, i) /\ SumFrom(lens, i) <= SumFrom(lens, 1)
  BY SumFacts
<1>2. at[i] = top - SumFrom(lens, i) /\ lens[i] \in Nat
  BY DEF StringsBelow
<1>3. PICK a, b : a = SumFrom(lens, i) /\ b = SumFrom(lens, 1)
  OBVIOUS
<1> QED
  BY <1>1, <1>2, <1>3

-----------------------------------------------------------------------------
\* The image: what mapping and writing leave in memory.

\* The pages of a range between two multiples of the page size.
LEMMA MultipleRange ==
  ASSUME NEW k \in Nat, NEW m \in Nat, NEW a, a = k * PageSize, NEW c, c = m * PageSize, m <= NumPages
  PROVE  PagesOf(a, c) = k .. m - 1
<1>1. PageOf(a) = k /\ c \in Int
  BY FirstUnit, Size
<1>2. ASSUME NEW p \in PagesOf(a, c) PROVE p \in k .. m - 1
  <2>1. p \in 0 .. TotalPages - 1 /\ k <= p /\ p * PageSize < m * PageSize
    BY <1>1, <1>2 DEF PagesOf
  <2>2. p \in Int /\ p < m
    BY <2>1, Size, MultipleOrder
  <2> QED
    BY <2>1, <2>2
<1>3. ASSUME NEW p \in k .. m - 1 PROVE p \in PagesOf(a, c)
  <2>1. p \in 0 .. TotalPages - 1 /\ p \in Int /\ k <= p /\ p + 1 <= m
    BY <1>3, AddressAssumption
  <2>2. (p + 1) * PageSize <= m * PageSize /\ (p + 1) * PageSize = p * PageSize + PageSize
        /\ p * PageSize \in Int /\ m * PageSize \in Int
    BY <2>1, Size, MultipleOrder
  <2>3. p * PageSize < c
    BY <2>2, Size
  <2> QED
    BY <1>1, <2>1, <2>3 DEF PagesOf
<1> QED
  BY <1>2, <1>3

\* The loader maps the pages from the first byte of a segment to its last.
LEMMA SegmentMaps ==
  ASSUME NEW a \in Nat, NEW n \in Nat \ {0}, a + n <= NumPages * PageSize
  PROVE  MapPages(page_floor(a), page_ceil(a + n) - page_floor(a)) = PageOf(a) .. PageOf(a + n - 1)
<1>1. PICK f, c, z : f = page_floor(a) /\ c = page_ceil(a + n) /\ z = a + n - 1
  OBVIOUS
<1>2. a + n \in Nat /\ z \in Nat /\ NumPages \in Int /\ a <= z /\ z + 1 = a + n
  BY <1>1, Size
<1>3. PICK k \in Nat : k = PageOf(a) /\ f = k * PageSize /\ f <= a /\ f \in Nat
  BY <1>1, PageBounds
<1>4. PICK m \in Nat : c = m * PageSize
  BY <1>1, <1>2, CeilFacts
<1>5. c \in Nat /\ a + n <= c /\ c <= NumPages * PageSize
  BY <1>1, <1>2, CeilFacts
<1>6. PICK e \in Nat : /\ e = PageOf(z) /\ e * PageSize \in Nat
                       /\ e * PageSize <= z /\ z < e * PageSize + PageSize
  BY <1>2, PageBounds
<1>7. (e + 1) * PageSize = e * PageSize + PageSize /\ (m + 1) * PageSize = m * PageSize + PageSize
  BY Size, MultipleOrder
<1>8. e + 1 = m
  <2>1. c <= (e + 1) * PageSize
    <3>1. a + n <= (e + 1) * PageSize /\ e + 1 \in Int
      BY <1>2, <1>6, <1>7, Size
    <3> QED
      BY <1>1, <1>2, <3>1, CeilFacts
  <2>2. e * PageSize < m * PageSize
    BY <1>2, <1>4, <1>5, <1>6
  <2>3. e < m
    BY <2>2, Size, MultipleOrder
  <2>4. m * PageSize < (e + 1 + 1) * PageSize
    <3>1. (e + 1 + 1) * PageSize = (e + 1) * PageSize + PageSize /\ (e + 1) * PageSize \in Int
      <4>1. e + 1 \in Int
        OBVIOUS
      <4> QED
        BY <4>1, Size, MultipleOrder
    <3> QED
      BY <1>4, <1>5, <2>1, <3>1, Size
  <2>5. m < e + 1 + 1
    <3>1. e + 1 + 1 \in Int
      OBVIOUS
    <3> QED
      BY <2>4, <3>1, Size, MultipleOrder
  <2> QED
    BY <2>3, <2>5
<1>9. m <= NumPages
  <2>1. m * PageSize < (NumPages + 1) * PageSize
    <3>1. (NumPages + 1) * PageSize = NumPages * PageSize + PageSize /\ NumPages * PageSize \in Int
      BY <1>2, Size, MultipleOrder
    <3> QED
      BY <1>4, <1>5, <3>1, Size
  <2>2. m < NumPages + 1
    <3>1. NumPages + 1 \in Int
      BY Size
    <3> QED
      BY <2>1, <3>1, Size, MultipleOrder
  <2> QED
    BY <2>2, Size
<1>10. Multiple(f) /\ Multiple(c) /\ f <= c
  BY <1>2, <1>3, <1>4, <1>5 DEF Multiple
<1>11. PICK b : b = c - f
  OBVIOUS
<1>12. b \in Nat /\ Multiple(b) /\ f + b = c
  <2>1. c - f \in Nat /\ Multiple(c - f)
    BY <1>3, <1>5, <1>10, MultipleSum
  <2>2. f + (c - f) = c
    BY <1>3, <1>5
  <2> QED
    BY <1>11, <2>1, <2>2
<1>13. MapPages(f, b) = PagesOf(f, c)
  BY <1>3, <1>10, <1>12, MultiplePages
<1>14. PagesOf(f, c) = k .. m - 1
  BY <1>3, <1>4, <1>9, MultipleRange
<1>15. m - 1 = e
  BY <1>8
<1> QED
  BY <1>1, <1>3, <1>6, <1>11, <1>13, <1>14, <1>15

\* setattr() makes the rights of its pages what it was given.
LEMMA SetattrRights ==
  ASSUME NEW s, Fields(s), NEW ps \in SUBSET Low, NEW prot \in SUBSET {"r", "w", "x"},
         NEW t, t = setattr(s, ps, prot), NEW p \in ps
  PROVE  protection_at(t, p) = prot
<1> DEFINE r == Shadow(s.readmap, ps, "r" \in prot)
           w == Shadow(s.writemap, ps, "w" \in prot)
           x == Shadow(s.execmap, ps, "x" \in prot)
<1>1. t = [s EXCEPT !.readmap = r, !.writemap = w, !.execmap = x]
  BY DEF setattr
<1>2. p \in r <=> "r" \in prot
  BY ShadowBits
<1>3. p \in w <=> "w" \in prot
  BY ShadowBits
<1>4. p \in x <=> "x" \in prot
  BY ShadowBits
<1> HIDE DEF r, w, x
<1>5. t = SpaceOf(s.mem, r, w, x, s.dirtymap)
  BY <1>1, RightFields
<1>6. t.readmap = r /\ t.writemap = w /\ t.execmap = x
  BY <1>5, FieldsOf
<1>7. pageid(p) = p
  BY LowId
<1>8. protection_at(t, p) = (IF "r" \in prot THEN {"r"} ELSE {}) \cup (IF "w" \in prot THEN {"w"} ELSE {})
                              \cup (IF "x" \in prot THEN {"x"} ELSE {})
  BY <1>2, <1>3, <1>4, <1>6, <1>7 DEF protection_at
<1>9. prot = {z \in {"r", "w", "x"} : z \in prot}
  OBVIOUS
<1> QED
  BY <1>8, <1>9

\* What is outside the changed pages keeps its protection.
LEMMA ProtectionKept ==
  ASSUME NEW s, NEW t, NEW ps, Keeps(s, t, ps), NEW p \in Low, p \notin ps
  PROVE  protection_at(t, p) = protection_at(s, p)
<1>1. pageid(p) = p
  BY LowId
<1>2. /\ p \in t.readmap <=> p \in s.readmap
      /\ p \in t.writemap <=> p \in s.writemap
      /\ p \in t.execmap <=> p \in s.execmap
  BY DEF Keeps
<1> QED
  BY <1>1, <1>2 DEF protection_at

\* map(): fresh zeroed pages with the rights asked for.
LEMMA MapIs ==
  ASSUME NEW s, SpaceOK(s), NEW a, NEW b, NEW ps, ps = MapPages(a, b), ps \subseteq Low,
         NEW prot \in SUBSET {"r", "w", "x"}, NEW t, t = map_or_throw(s, a, b, prot)
  PROVE  /\ \A x \in Nat : PageOf(x) \in ps => x \in DOMAIN t.mem /\ t.mem[x] = 0
         /\ \A p \in ps : protection_at(t, p) = prot
<1>1. PICK u : u = FreshPages(s, ps)
  OBVIOUS
<1>2. t = setattr(u, ps, prot)
  BY <1>1 DEF map_or_throw
<1>3. ps \in SUBSET Low
  OBVIOUS
<1>4. SpaceOK(u) /\ ps \subseteq MappedPages(u)
  BY <1>1, <1>3, FreshOK
<1>5. Fields(u) /\ t.mem = u.mem
  <2>1. SpaceOK(t) /\ Keeps(u, t, ps) /\ t.mem = u.mem
    BY <1>2, <1>3, <1>4, SetattrOK
  <2> QED
    BY <1>4, <2>1 DEF SpaceOK
<1>6. \A p \in ps : protection_at(t, p) = prot
  BY <1>2, <1>3, <1>5, SetattrRights
<1> DEFINE m == Override([x \in UnitsOf(ps) |-> 0], s.mem)
<1>7. u.mem = m
  <2>1. u = [s EXCEPT !.mem = m]
    BY <1>1 DEF FreshPages
  <2> HIDE DEF m
  <2>2. u = SpaceOf(m, s.readmap, s.writemap, s.execmap, s.dirtymap)
    BY <2>1, MemField DEF SpaceOK
  <2> QED
    BY <2>2, FieldsOf
<1>8. \A x \in UnitsOf(ps) : x \in DOMAIN m /\ m[x] = 0
  BY DEF Override
<1>9. \A x : x \in UnitsOf(ps) <=> x \in Nat /\ PageOf(x) \in ps
  BY <1>3, LowId, UnitsIff
<1> HIDE DEF m
<1> QED
  BY <1>5, <1>6, <1>7, <1>8, <1>9

\* write() of a mapped range.
LEMMA WriteIs ==
  ASSUME NEW s, SpaceOK(s), NEW a \in Int, NEW n \in Nat, NEW v, NEW t, t = write(s, a, n, v),
         a .. a + n - 1 \subseteq DOMAIN s.mem, ~range_overflows(a, n)
  PROVE  /\ \A x \in a .. a + n - 1 : t.mem[x] = v
         /\ \A x \in DOMAIN s.mem : x \notin a .. a + n - 1 => t.mem[x] = s.mem[x]
         /\ \A p : protection_at(t, p) = protection_at(s, p)
         /\ DOMAIN t.mem = DOMAIN s.mem
<1> DEFINE W == Written(s, a, n)
           m == Override([x \in W |-> v], s.mem)
<1>1. W = a .. a + n - 1
  <2>1. CASE n = 0
    BY <2>1 DEF Written
  <2>2. CASE n # 0
    <3>1. W = {x \in a .. a + n - 1 : a .. x \subseteq DOMAIN s.mem}
      BY <2>2 DEF Written
    <3>2. ASSUME NEW x \in a .. a + n - 1 PROVE a .. x \subseteq a .. a + n - 1
      OBVIOUS
    <3>3. \A x \in a .. a + n - 1 : a .. x \subseteq DOMAIN s.mem
      BY <3>2
    <3> QED
      BY <3>1, <3>3
  <2> QED
    BY <2>1, <2>2
<1>2. t = [s EXCEPT !.mem = m]
  BY DEF write
<1>3. /\ \A x \in W : m[x] = v
      /\ \A x \in DOMAIN s.mem : x \notin W => m[x] = s.mem[x]
      /\ DOMAIN m = DOMAIN s.mem
  BY <1>1 DEF Override
<1> HIDE DEF m, W
<1>4. t = SpaceOf(m, s.readmap, s.writemap, s.execmap, s.dirtymap)
  BY <1>2, MemField DEF SpaceOK
<1>5. t.mem = m /\ t.readmap = s.readmap /\ t.writemap = s.writemap /\ t.execmap = s.execmap
  BY <1>4, FieldsOf
<1>6. \A p : protection_at(t, p) = protection_at(s, p)
  BY <1>5 DEF protection_at
<1> QED
  BY <1>1, <1>3, <1>5, <1>6

\* The strings that lie in memory.
LEMMA StringsIs ==
  ASSUME NEW s, SpaceOK(s), NEW at, NEW lens, NEW mark, NEW t, t = WriteStrings(s, at, lens, mark)
  PROVE  /\ \A i \in DOMAIN lens : \A x \in at[i] .. at[i] + lens[i] - 1 :
              x \in DOMAIN s.mem => t.mem[x] = mark
         /\ \A x \in DOMAIN s.mem : (\A i \in DOMAIN lens : x \notin at[i] .. at[i] + lens[i] - 1)
                                       => t.mem[x] = s.mem[x]
         /\ \A p : protection_at(t, p) = protection_at(s, p)
         /\ DOMAIN t.mem = DOMAIN s.mem
<1> DEFINE U == UNION {at[i] .. at[i] + lens[i] - 1 : i \in DOMAIN lens}
           W == U \cap DOMAIN s.mem
           m == Override([x \in W |-> mark], s.mem)
<1>1. t = [s EXCEPT !.mem = m]
  BY DEF WriteStrings
<1>2. /\ \A x \in W : m[x] = mark
      /\ \A x \in DOMAIN s.mem : x \notin W => m[x] = s.mem[x]
      /\ DOMAIN m = DOMAIN s.mem
  BY DEF Override
<1>3. /\ \A i \in DOMAIN lens : at[i] .. at[i] + lens[i] - 1 \subseteq U
      /\ \A x \in U : \E i \in DOMAIN lens : x \in at[i] .. at[i] + lens[i] - 1
  OBVIOUS
<1>4. \A x : x \in W <=> x \in U /\ x \in DOMAIN s.mem
  OBVIOUS
<1> HIDE DEF m, W, U
<1>5. t = SpaceOf(m, s.readmap, s.writemap, s.execmap, s.dirtymap)
  BY <1>1, MemField DEF SpaceOK
<1>6. t.mem = m /\ t.readmap = s.readmap /\ t.writemap = s.writemap /\ t.execmap = s.execmap
  BY <1>5, FieldsOf
<1>7. \A p : protection_at(t, p) = protection_at(s, p)
  BY <1>6 DEF protection_at
<1>8. ASSUME NEW i \in DOMAIN lens, NEW x \in at[i] .. at[i] + lens[i] - 1, x \in DOMAIN s.mem
      PROVE  t.mem[x] = mark
  BY <1>2, <1>3, <1>4, <1>6, <1>8
<1>9. ASSUME NEW x \in DOMAIN s.mem, \A i \in DOMAIN lens : x \notin at[i] .. at[i] + lens[i] - 1
      PROVE  t.mem[x] = s.mem[x]
  BY <1>2, <1>3, <1>4, <1>6, <1>9
<1> QED
  BY <1>2, <1>6, <1>7, <1>8, <1>9

-----------------------------------------------------------------------------
\* The image: its segments one after the other.

\* Segment g is in memory: its file bytes, zeroes behind them, its protection.
SegmentIn(s, g) ==
  \A x \in g.vaddr .. g.vaddr + g.memsz - 1 :
    /\ x \in DOMAIN s.mem
    /\ s.mem[x] = IF x < g.vaddr + g.filesz THEN 1 ELSE 0
    /\ protection_at(s, PageOf(x)) = g.prot

\* A segment that is loaded, and lies below 2^48.
Loadable(g) ==
  /\ g \in Segment /\ g.memsz # 0 /\ ~Refused(g)
  /\ g.vaddr + g.memsz <= NumPages * PageSize

LEMMA SegmentLoadable ==
  ASSUME program \in Programs, NEW i \in 1 .. Len(program.image.segs), NEW g, g = program.image.segs[i],
         g.memsz # 0, ~Refused(g)
  PROVE  Loadable(g)
<1>1. /\ g \in Segment
      /\ \/ g.vaddr + g.memsz <= NumPages * PageSize
         \/ g.vaddr > TotalPages * PageSize - 1 - g.memsz
         \/ g.memsz = 0
  BY SegmentOf
<1>2. ~(g.vaddr > TotalPages * PageSize - 1 - g.memsz)
  BY DEF Refused, Top
<1> QED
  BY <1>1, <1>2 DEF Loadable

\* The pages of a segment that is loaded.
LEMMA LoadablePages ==
  ASSUME NEW g, Loadable(g)
  PROVE  /\ SegmentPages(g) \subseteq Low
         /\ MapPages(page_floor(g.vaddr), page_ceil(g.vaddr + g.memsz) - page_floor(g.vaddr)) = SegmentPages(g)
         /\ \A x \in g.vaddr .. g.vaddr + g.memsz - 1 : x \in Nat /\ PageOf(x) \in SegmentPages(g)
<1>1. PICK a, n : a = g.vaddr /\ n = g.memsz
  OBVIOUS
<1>2. a \in Nat /\ n \in Nat \ {0} /\ n \in Nat /\ a + n <= NumPages * PageSize
  BY <1>1 DEF Loadable, Segment
<1>3. SegmentPages(g) = PageOf(a) .. PageOf(a + n - 1)
  BY <1>1 DEF SegmentPages, Loadable
<1>4. MapPages(page_floor(a), page_ceil(a + n) - page_floor(a)) = PageOf(a) .. PageOf(a + n - 1)
  BY <1>2, SegmentMaps
<1>5. MapPages(page_floor(a), page_ceil(a + n) - page_floor(a)) \subseteq Low
  BY <1>2, SegmentLow
<1>6. ASSUME NEW x \in a .. a + n - 1 PROVE x \in Nat /\ PageOf(x) \in PageOf(a) .. PageOf(a + n - 1)
  <2>1. PICK z : z = a + n - 1
    OBVIOUS
  <2>2. x \in Nat /\ z \in Nat /\ a <= x /\ x <= z
    BY <1>2, <2>1
  <2>3. PageOf(a) <= PageOf(x) /\ PageOf(x) <= PageOf(z)
    BY <1>2, <2>2, PageMono
  <2>4. PageOf(a) \in Nat /\ PageOf(x) \in Nat /\ PageOf(z) \in Nat
    BY <1>2, <2>2, PageBounds
  <2>5. PageOf(x) \in PageOf(a) .. PageOf(z)
    BY <2>3, <2>4
  <2> QED
    BY <2>1, <2>2, <2>5
<1> QED
  BY <1>1, <1>3, <1>4, <1>5, <1>6

\* A segment stays as it is while other pages change.
LEMMA SegmentKept ==
  ASSUME NEW g, (g.memsz = 0 /\ g \in Segment) \/ Loadable(g), NEW s, SegmentIn(s, g),
         NEW t, NEW ps, Keeps(s, t, ps), ps \cap SegmentPages(g) = {}
  PROVE  SegmentIn(t, g)
<1>1. CASE g.memsz = 0 /\ g \in Segment
  <2>1. g.vaddr .. g.vaddr + g.memsz - 1 = {}
    BY <1>1 DEF Segment
  <2> QED
    BY <2>1 DEF SegmentIn
<1>2. CASE Loadable(g)
  <2>1. ASSUME NEW x \in g.vaddr .. g.vaddr + g.memsz - 1
        PROVE  /\ x \in DOMAIN t.mem /\ t.mem[x] = IF x < g.vaddr + g.filesz THEN 1 ELSE 0
               /\ protection_at(t, PageOf(x)) = g.prot
    <3>1. x \in Nat /\ PageOf(x) \in SegmentPages(g) /\ PageOf(x) \in Low
      BY <1>2, LoadablePages
    <3>2. PageOf(x) \notin ps
      BY <3>1
    <3>3. /\ x \in DOMAIN s.mem
          /\ s.mem[x] = IF x < g.vaddr + g.filesz THEN 1 ELSE 0
          /\ protection_at(s, PageOf(x)) = g.prot
      BY <2>1 DEF SegmentIn
    <3>4. x \in DOMAIN t.mem /\ t.mem[x] = s.mem[x]
      BY <3>1, <3>2, <3>3 DEF Keeps
    <3>5. protection_at(t, PageOf(x)) = protection_at(s, PageOf(x))
      BY <3>1, <3>2, ProtectionKept
    <3> QED
      BY <3>3, <3>4, <3>5
  <2> QED
    BY <2>1 DEF SegmentIn
<1> QED
  BY <1>1, <1>2

\* Loading a segment puts it into memory and changes its pages only.
LEMMA SegmentLoaded ==
  ASSUME NEW g, Loadable(g), NEW s, SpaceOK(s),
         NEW t, t = write(map_or_throw(s, page_floor(g.vaddr),
                                       page_ceil(g.vaddr + g.memsz) - page_floor(g.vaddr), g.prot),
                          g.vaddr, g.filesz, 1)
  PROVE  SegmentIn(t, g) /\ Keeps(s, t, SegmentPages(g)) /\ SpaceOK(t)
<1>1. PICK a, b, ps : /\ a = page_floor(g.vaddr)
                      /\ b = page_ceil(g.vaddr + g.memsz) - page_floor(g.vaddr)
                      /\ ps = SegmentPages(g)
  OBVIOUS
<1>2. /\ ps \subseteq Low /\ ps = MapPages(a, b)
      /\ \A x \in g.vaddr .. g.vaddr + g.memsz - 1 : x \in Nat /\ PageOf(x) \in ps
  BY <1>1, LoadablePages
<1>3. PICK m : m = map_or_throw(s, a, b, g.prot)
  OBVIOUS
<1>4. t = write(m, g.vaddr, g.filesz, 1)
  BY <1>1, <1>3
<1>5. /\ g.vaddr \in Nat /\ g.memsz \in Nat /\ g.filesz \in Nat /\ g.filesz <= g.memsz
      /\ g.prot \in SUBSET {"r", "w", "x"}
      /\ g.vaddr + g.memsz <= NumPages * PageSize
  BY DEF Loadable, Segment, Refused
<1>6. SpaceOK(m) /\ Keeps(s, m, ps)
  BY <1>2, <1>3, MapOK
<1>7. /\ \A x \in Nat : PageOf(x) \in ps => x \in DOMAIN m.mem /\ m.mem[x] = 0
      /\ \A p \in ps : protection_at(m, p) = g.prot
  BY <1>2, <1>3, <1>5, MapIs
<1>8. g.vaddr .. g.vaddr + g.filesz - 1 \subseteq g.vaddr .. g.vaddr + g.memsz - 1
  BY <1>5
<1>9. g.vaddr .. g.vaddr + g.filesz - 1 \subseteq DOMAIN m.mem
  BY <1>2, <1>7, <1>8
<1>10. ~range_overflows(g.vaddr, g.filesz)
  <2>1. NumPages * PageSize <= Top /\ NumPages * PageSize \in Int /\ Top \in Int
    <3>1. NumPages <= TotalPages /\ NumPages \in Int /\ TotalPages \in Int
      BY AddressAssumption
    <3> QED
      BY <3>1, Size, MultipleOrder DEF Top
  <2>2. g.vaddr + g.filesz <= Top
    BY <1>5, <2>1
  <2> QED
    BY <1>5, <2>1, <2>2 DEF range_overflows
<1>11. /\ \A x \in g.vaddr .. g.vaddr + g.filesz - 1 : t.mem[x] = 1
       /\ \A x \in DOMAIN m.mem : x \notin g.vaddr .. g.vaddr + g.filesz - 1 => t.mem[x] = m.mem[x]
       /\ \A p : protection_at(t, p) = protection_at(m, p)
       /\ DOMAIN t.mem = DOMAIN m.mem
  <2>1. g.vaddr \in Int
    BY <1>5
  <2> QED
    BY <1>4, <1>5, <1>6, <1>9, <1>10, <2>1, WriteIs
<1>12. SegmentIn(t, g)
  <2>1. ASSUME NEW x \in g.vaddr .. g.vaddr + g.memsz - 1
        PROVE  /\ x \in DOMAIN t.mem /\ t.mem[x] = IF x < g.vaddr + g.filesz THEN 1 ELSE 0
               /\ protection_at(t, PageOf(x)) = g.prot
    <3>1. x \in Nat /\ PageOf(x) \in ps /\ x \in DOMAIN m.mem /\ m.mem[x] = 0
      BY <1>2, <1>7
    <3>2. protection_at(t, PageOf(x)) = g.prot
      BY <1>7, <1>11, <3>1
    <3>3. x < g.vaddr + g.filesz <=> x \in g.vaddr .. g.vaddr + g.filesz - 1
      BY <1>5, <3>1
    <3> QED
      BY <1>11, <3>1, <3>2, <3>3
  <2> QED
    BY <2>1 DEF SegmentIn
<1>13. SpaceOK(t) /\ Keeps(m, t, {PageOf(x) : x \in Written(m, g.vaddr, g.filesz)})
  BY <1>4, <1>6, WriteOK
<1>14. {PageOf(x) : x \in Written(m, g.vaddr, g.filesz)} \subseteq ps
  <2>1. Written(m, g.vaddr, g.filesz) \subseteq g.vaddr .. g.vaddr + g.memsz - 1
    BY <1>8, WrittenIn
  <2> QED
    BY <1>2, <2>1
<1>15. Keeps(m, t, ps)
  BY <1>13, <1>14, KeepsMore
<1>16. Keeps(s, t, ps \cup ps) /\ ps \cup ps = ps
  BY <1>6, <1>15, KeepsThen
<1> QED
  BY <1>1, <1>12, <1>13, <1>16

\* Nothing outside the changed pages becomes mapped.
LEMMA MappedKept ==
  ASSUME NEW s, NEW t, SpaceOK(t), NEW ps, Keeps(s, t, ps)
  PROVE  MappedPages(t) \subseteq MappedPages(s) \cup ps
<1> SUFFICES ASSUME NEW x \in DOMAIN t.mem, PageOf(x) \notin ps PROVE PageOf(x) \in MappedPages(s)
  BY DEF MappedPages
<1>1. x \in Nat
  BY DEF SpaceOK, WholePages
<1>2. x \in DOMAIN s.mem
  BY <1>1 DEF Keeps
<1> QED
  BY <1>2 DEF MappedPages

(***************************************************************************)
(* The loader has put the segments it is done with into memory, and has    *)
(* mapped neither the stack nor the page below it.                         *)
(***************************************************************************)
Placed(s, g) == SegmentIn(s, g) /\ (g.memsz = 0 \/ ~Refused(g))

ImageOK(phase, n, s, segs) ==
  /\ phase = "header" => n = 1 /\ DOMAIN s.mem = {}
  /\ phase = "segments" =>
       /\ \A i \in 1 .. Len(segs) : i < n => Placed(s, segs[i])
       /\ \A p \in MappedPages(s) : p + 1 < NumPages - StackPages

ImageInv == ImageOK(loader.phase, loader.seg, spaces[Home], program.image.segs)

LEMMA ImageInvInit == Init => ImageInv
<1> SUFFICES ASSUME Init PROVE ImageInv
  OBVIOUS
<1>1. loader.phase = "header" /\ loader.seg = 1
  BY DEF Init
<1>2. spaces[Home] = EmptySpace
  BY HomeSpace DEF Init
<1>3. DOMAIN spaces[Home].mem = {}
  BY <1>2 DEF EmptySpace
<1> QED
  BY <1>1, <1>3 DEF ImageInv, ImageOK

LEMMA HeaderImage ==
  ASSUME LoaderOK, ImageInv, LoadHeader, program' = program
  PROVE  ImageInv'
<1>1. loader.phase = "header" /\ loader.seg = 1 /\ DOMAIN spaces[Home].mem = {} /\ spaces' = spaces
  BY DEF ImageInv, ImageOK, LoadHeader, LoadFails
<1>2. PICK ph \in {"segments", "failed"} : loader' = [loader EXCEPT !.phase = ph]
  BY DEF LoadHeader, LoadFails
<1>3. loader'.phase # "header" /\ loader'.seg = 1
  BY <1>1, <1>2 DEF LoaderOK
<1>4. MappedPages(spaces[Home]) = {}
  BY <1>1 DEF MappedPages
<1>5. program'.image.segs \in Seq(Segment)
  BY ProgramAssumption DEF LoaderOK
<1>6. \A i \in 1 .. Len(program'.image.segs) : ~(i < 1)
  BY <1>5
<1>7. spaces'[Home] = spaces[Home]
  BY <1>1
<1> QED
  BY <1>3, <1>4, <1>6, <1>7 DEF ImageInv, ImageOK

LEMMA SegmentImage ==
  ASSUME SegmentsApart, AllSpacesOK, LoaderOK, ImageInv, LoadSegment, program' = program
  PROVE  ImageInv'
<1>0. PICK q : q = program.image.segs
  OBVIOUS
<1>1. PICK n : n = loader.seg
  OBVIOUS
<1>2. PICK g : g = q[n]
  OBVIOUS
<1>3. /\ q \in Seq(Segment) /\ Len(q) \in Nat /\ program \in Programs
      /\ n \in Nat \ {0} /\ n <= Len(q) /\ loader.phase = "segments"
  <2>1. q \in Seq(Segment)
    BY <1>0, ProgramAssumption DEF LoaderOK
  <2> QED
    BY <1>0, <1>1, <2>1 DEF LoaderOK, LoadSegment
<1>4. n \in 1 .. Len(q) /\ g \in Segment
  BY <1>2, <1>3
<1>5. PICK s : s = spaces[Home]
  OBVIOUS
<1>6. /\ \A i \in 1 .. Len(q) : i < n => Placed(s, q[i])
      /\ \A p \in MappedPages(s) : p + 1 < NumPages - StackPages
  BY <1>0, <1>1, <1>3, <1>5 DEF ImageInv, ImageOK
<1>7. CASE LoadFails
  <2>1. loader'.phase = "failed"
    BY <1>7 DEF LoadFails, LoaderOK
  <2> QED
    BY <2>1 DEF ImageInv, ImageOK
<1>8. ASSUME NEW t, spaces'[Home] = t, loader' = [loader EXCEPT !.seg = @ + 1],
             \A i \in 1 .. Len(q) : i <= n => Placed(t, q[i]),
             \A p \in MappedPages(t) : p + 1 < NumPages - StackPages
      PROVE  ImageInv'
  <2>1. loader'.phase = "segments" /\ loader'.seg = n + 1
    BY <1>1, <1>3, <1>8 DEF LoaderOK
  <2>2. \A i \in 1 .. Len(q) : i < n + 1 => i <= n
    BY <1>3
  <2>4. \A i \in 1 .. Len(q) : i < n + 1 => Placed(t, q[i])
    BY <1>3, <1>8, <2>2
  <2>5. \A p \in MappedPages(t) : p + 1 < NumPages - StackPages
    BY <1>8
  <2>6. ImageOK("segments", n + 1, t, q)
    BY <1>3, <2>4, <2>5 DEF ImageOK
  <2> QED
    BY <1>0, <1>8, <2>1, <2>6 DEF ImageInv
<1>9. CASE g.memsz = 0 /\ ~LoadFails
  <2>1. loader' = [loader EXCEPT !.seg = @ + 1] /\ spaces' = spaces
    BY <1>0, <1>1, <1>2, <1>9 DEF LoadSegment
  <2>2. SegmentIn(s, g)
    <3>1. g.vaddr .. g.vaddr + g.memsz - 1 = {}
      BY <1>4, <1>9 DEF Segment
    <3> QED
      BY <3>1 DEF SegmentIn
  <2>3. \A i \in 1 .. Len(q) : i <= n => i < n \/ i = n
    BY <1>3
  <2>4. \A i \in 1 .. Len(q) : i <= n => Placed(s, q[i])
    BY <1>2, <1>3, <1>6, <1>9, <2>2, <2>3 DEF Placed
  <2> QED
    BY <1>5, <1>6, <1>8, <2>1, <2>4
<1>10. CASE g.memsz # 0 /\ ~LoadFails
  <2>1. PICK t : t = write(map_or_throw(s, page_floor(g.vaddr),
                                        page_ceil(g.vaddr + g.memsz) - page_floor(g.vaddr), g.prot),
                           g.vaddr, g.filesz, 1)
    OBVIOUS
  <2>2. ~Refused(g) /\ loader' = [loader EXCEPT !.seg = @ + 1] /\ spaces' = [spaces EXCEPT ![Home] = t]
    BY <1>0, <1>1, <1>2, <1>5, <1>10, <2>1 DEF LoadSegment
  <2>3. Loadable(g)
    BY <1>0, <1>2, <1>3, <1>4, <1>10, <2>2, SegmentLoadable
  <2>4. SpaceOK(s) /\ spaces'[Home] = t
    BY <1>5, <2>2, HomeSpace DEF AllSpacesOK
  <2>5. SegmentIn(t, g) /\ Keeps(s, t, SegmentPages(g)) /\ SpaceOK(t)
    BY <2>1, <2>3, <2>4, SegmentLoaded
  <2>6. ASSUME NEW i \in 1 .. Len(q), i <= n
        PROVE  Placed(t, q[i])
    <3>1. CASE i = n
      BY <1>2, <2>2, <2>5, <3>1 DEF Placed
    <3>2. CASE i # n
      <4>1. i < n
        BY <1>3, <2>6, <3>2
      <4>2. Placed(s, q[i])
        BY <1>3, <1>6, <4>1
      <4>3. SegmentPages(g) \cap SegmentPages(q[i]) = {}
        BY <1>0, <1>2, <1>3, <1>4, <3>2 DEF SegmentsApart
      <4>4. PICK h : h = q[i]
        OBVIOUS
      <4>5. (h.memsz = 0 /\ h \in Segment) \/ Loadable(h)
        <5>1. h \in Segment
          BY <1>3, <4>4
        <5> QED
          BY <1>0, <1>3, <4>2, <4>4, <5>1, SegmentLoadable DEF Placed
      <4>6. SegmentIn(t, h)
        BY <2>5, <4>2, <4>3, <4>4, <4>5, SegmentKept DEF Placed
      <4> QED
        BY <4>2, <4>4, <4>6 DEF Placed
    <3> QED
      BY <3>1, <3>2
  <2>7. \A p \in MappedPages(t) : p + 1 < NumPages - StackPages
    <3>1. MappedPages(t) \subseteq MappedPages(s) \cup SegmentPages(g)
      BY <2>5, MappedKept
    <3>2. \A p \in SegmentPages(g) : p + 1 < NumPages - StackPages
      BY <1>0, <1>2, <1>3, <1>4 DEF SegmentsApart
    <3> QED
      BY <1>6, <3>1, <3>2
  <2> QED
    BY <1>8, <2>2, <2>4, <2>6, <2>7
<1> QED
  BY <1>7, <1>9, <1>10

-----------------------------------------------------------------------------
\* The initial stack.

StackSpan == NumPages - StackPages .. NumPages - 1

LEMMA StackRange ==
  /\ NumPages - StackPages \in Nat
  /\ stack_base \in Nat /\ stack_top \in Nat /\ stack_base <= stack_top /\ stack_top <= Top /\ Top \in Nat
  /\ stack_base = (NumPages - StackPages) * PageSize /\ stack_top = NumPages * PageSize
  /\ MapPages(stack_base, stack_top - stack_base) = StackSpan
  /\ StackSpan \subseteq Low
<1>1. StackPages \in Nat /\ StackPages <= NumPages /\ NumPages \in Nat /\ PageSize \in Nat /\ PageSize > 0
      /\ TotalPages \in Nat /\ NumPages <= TotalPages
  BY ProgramAssumption, Size, AddressAssumption
<1>2. PICK k : k = NumPages - StackPages
  OBVIOUS
<1>3. k \in Nat /\ k <= NumPages /\ k \in Int /\ NumPages \in Int /\ TotalPages \in Int /\ StackPages \in Int
  BY <1>1, <1>2
<1>4. PICK a, b, c, d : a = k * PageSize /\ b = StackPages * PageSize /\ c = NumPages * PageSize /\ d = TotalPages * PageSize
  OBVIOUS
<1>5. a \in Nat /\ b \in Nat /\ c \in Nat /\ d \in Nat
  BY <1>1, <1>3, <1>4
<1>6. a + b = c
  <2>1. (k + StackPages) * PageSize = k * PageSize + StackPages * PageSize
    BY <1>1, <1>3
  <2>2. k + StackPages = NumPages
    BY <1>1, <1>2
  <2> QED
    BY <1>4, <2>1, <2>2
<1>7. c <= d
  BY <1>1, <1>3, <1>4, MultipleOrder
<1>8. stack_top = c /\ stack_base = a /\ stack_top - stack_base = b /\ Top = d
  BY <1>4, <1>5, <1>6 DEF stack_top, stack_base, Top
<1>9. Multiple(a) /\ Multiple(b)
  BY <1>1, <1>3, <1>4 DEF Multiple
<1>10. MapPages(a, b) = PagesOf(a, a + b)
  BY <1>5, <1>9, MultiplePages
<1>11. PagesOf(a, c) = k .. NumPages - 1
  BY <1>1, <1>3, <1>4, MultipleRange
<1>12. k .. NumPages - 1 \subseteq Low
  BY <1>3 DEF Low
<1>13. MapPages(stack_base, stack_top - stack_base) = StackSpan
  BY <1>2, <1>6, <1>8, <1>10, <1>11 DEF StackSpan
<1>14. stack_base \in Nat /\ stack_top \in Nat /\ stack_base <= stack_top /\ stack_top <= Top /\ Top \in Nat
  BY <1>5, <1>6, <1>7, <1>8
<1>15. stack_base = (NumPages - StackPages) * PageSize /\ stack_top = NumPages * PageSize
  BY <1>2, <1>4, <1>8
<1> QED
  BY <1>2, <1>3, <1>12, <1>13, <1>14, <1>15 DEF StackSpan

\* The units of the stack are those of its pages; what is mapped before is below.
LEMMA StackUnits ==
  ASSUME NEW x \in Nat
  PROVE  /\ stack_base <= x /\ x < stack_top => PageOf(x) \in StackSpan
         /\ PageOf(x) + 1 < NumPages - StackPages => x + 1 < stack_base
<1>1. PICK k, q, a, c : k = NumPages - StackPages /\ q = PageOf(x) /\ a = stack_base /\ c = stack_top
  OBVIOUS
<1>2. k \in Int /\ NumPages \in Int /\ a \in Nat /\ c \in Nat /\ a = k * PageSize /\ c = NumPages * PageSize
  BY <1>1, StackRange, Size
<1>3. /\ q \in Nat /\ q \in Int /\ q + 1 \in Int /\ q * PageSize \in Nat
      /\ q * PageSize <= x /\ x < q * PageSize + PageSize
  BY <1>1, PageBounds
<1>4. (q + 1) * PageSize = q * PageSize + PageSize
  BY <1>3, Size, MultipleOrder
<1>5. ASSUME a <= x, x < c PROVE q \in k .. NumPages - 1
  <2>1. k * PageSize < (q + 1) * PageSize
    BY <1>2, <1>3, <1>4, <1>5, Size
  <2>2. k < q + 1
    BY <1>2, <1>3, <2>1, Size, MultipleOrder
  <2>3. q * PageSize < NumPages * PageSize
    BY <1>2, <1>3, <1>5
  <2>4. q < NumPages
    BY <1>2, <1>3, <2>3, Size, MultipleOrder
  <2> QED
    BY <1>2, <1>3, <2>2, <2>4
<1>6. ASSUME q + 1 < k PROVE x + 1 < a
  <2>1. PICK r : r = q + 2
    OBVIOUS
  <2>2. r \in Int /\ r <= k /\ r = (q + 1) + 1
    BY <1>2, <1>3, <1>6, <2>1
  <2>3. r * PageSize <= k * PageSize
    BY <1>2, <2>2, Size, MultipleOrder
  <2>4. r * PageSize = (q + 1) * PageSize + PageSize
    BY <1>3, <2>2, Size, MultipleOrder
  <2> QED
    BY <1>2, <1>3, <1>4, <2>3, <2>4, Size
<1> QED
  BY <1>1, <1>5, <1>6 DEF StackSpan

\* The numbers of setup_stack: where the block of words comes to lie.
Aligned(base, r, top, al, n, x) ==
  /\ al = r - (r % 2) /\ n <= (al - base) % top
  /\ x = (al - n) - ((al - n) % 2)

LEMMA StackNumbers ==
  ASSUME NEW base \in Nat, base % 2 = 0, NEW r \in Nat, base <= r, NEW top \in Nat, r < top,
         NEW al, NEW n \in Nat, NEW x, Aligned(base, r, top, al, n, x)
  PROVE  x \in Nat /\ base <= x /\ x + n <= r /\ x % 2 = 0
<1>0. al = r - (r % 2) /\ n <= (al - base) % top /\ x = (al - n) - ((al - n) % 2)
  BY DEF Aligned
<1>1. al \in Nat /\ al <= r /\ base <= al /\ al % 2 = 0
  BY <1>0
<1>2. PICK d : d = al - base
  OBVIOUS
<1>3. d \in Nat /\ d < top
  BY <1>1, <1>2
<1>4. d % top = d
  BY <1>3
<1>5. n <= d
  BY <1>0, <1>2, <1>4
<1>6. PICK e : e = al - n
  OBVIOUS
<1>7. e \in Nat /\ base <= e /\ x = e - (e % 2)
  BY <1>0, <1>1, <1>2, <1>5, <1>6
<1>8. x \in Nat /\ x <= e /\ base <= x /\ x % 2 = 0
  BY <1>7
<1> QED
  BY <1>1, <1>6, <1>7, <1>8

LEMMA EvenBase == ASSUME PageSize % 2 = 0 PROVE stack_base % 2 = 0
<1>1. PICK h \in Nat : PageSize = 2 * h
  <2>1. PageSize = 2 * (PageSize \div 2) /\ PageSize \div 2 \in Nat
    BY Size
  <2> QED
    BY <2>1
<1>2. PICK k \in Nat : stack_base = k * PageSize
  BY StackRange
<1>3. k * (2 * h) = 2 * (k * h) /\ k * h \in Nat
  OBVIOUS
<1>4. PICK z \in Nat : z = k * h
  BY <1>3
<1>5. stack_base = 2 * z
  BY <1>1, <1>2, <1>3, <1>4
<1> QED
  BY <1>5

\* t is s with the strings lens at the addresses at, or with n units at a, marked.
Strings(s, t, at, lens, mark) ==
  /\ \A i \in DOMAIN lens : \A y \in at[i] .. at[i] + lens[i] - 1 : y \in DOMAIN s.mem => t.mem[y] = mark
  /\ \A y \in DOMAIN s.mem : (\A i \in DOMAIN lens : y \notin at[i] .. at[i] + lens[i] - 1)
                                => t.mem[y] = s.mem[y]
  /\ \A p : protection_at(t, p) = protection_at(s, p)
  /\ DOMAIN t.mem = DOMAIN s.mem

Block(s, t, a, n, mark) ==
  /\ \A y \in a .. a + n - 1 : t.mem[y] = mark
  /\ \A y \in DOMAIN s.mem : y \notin a .. a + n - 1 => t.mem[y] = s.mem[y]
  /\ \A p : protection_at(t, p) = protection_at(s, p)
  /\ DOMAIN t.mem = DOMAIN s.mem

\* The strings lie between low and top.
Between(at, lens, low, top) ==
  \A i \in DOMAIN lens : at[i] \in Int /\ low <= at[i] /\ at[i] + lens[i] <= top /\ lens[i] \in Nat

\* n units at from hold the mark.
Filled(s, from, n, mark) == \A y \in from .. from + n - 1 : s.mem[y] = mark

\* The units in us are the same in s and t.
Same(s, t, us) == \A y \in DOMAIN s.mem : y \in us => y \in DOMAIN t.mem /\ t.mem[y] = s.mem[y]

LEMMA StringsKeep ==
  ASSUME NEW s, NEW t, NEW at, NEW lens, NEW mark, Strings(s, t, at, lens, mark),
         NEW low \in Nat, NEW top \in Nat, Between(at, lens, low, top), DOMAIN s.mem \subseteq Nat
  PROVE  Same(s, t, {y \in Nat : y < low \/ top <= y})
<1> SUFFICES ASSUME NEW y \in DOMAIN s.mem, y < low \/ top <= y
             PROVE  y \in DOMAIN t.mem /\ t.mem[y] = s.mem[y]
  BY DEF Same
<1>1. y \in Nat
  OBVIOUS
<1>2. ASSUME NEW i \in DOMAIN lens PROVE y \notin at[i] .. at[i] + lens[i] - 1
  <2>1. PICK b, k : b = at[i] /\ k = lens[i]
    OBVIOUS
  <2>2. b \in Int /\ k \in Nat /\ low <= b /\ b + k <= top
    BY <2>1 DEF Between
  <2>3. y \notin b .. b + k - 1
    BY <1>1, <2>2
  <2> QED
    BY <2>1, <2>3
<1> QED
  BY <1>2 DEF Strings

LEMMA BlockKeeps ==
  ASSUME NEW s, NEW t, NEW a \in Nat, NEW n \in Nat, NEW mark, Block(s, t, a, n, mark),
         NEW low \in Nat, NEW top \in Nat, low <= a, a + n <= top, DOMAIN s.mem \subseteq Nat
  PROVE  Same(s, t, {y \in Nat : y < low \/ top <= y})
<1> SUFFICES ASSUME NEW y \in DOMAIN s.mem, y < low \/ top <= y
             PROVE  y \in DOMAIN t.mem /\ t.mem[y] = s.mem[y]
  BY DEF Same
<1>1. y \notin a .. a + n - 1
  OBVIOUS
<1> QED
  BY <1>1 DEF Block

Window(low, top) == {y \in Nat : low <= y /\ y < top}

\* Everything from low to top is mapped.
Spans(s, low, top) == \A y \in Nat : low <= y /\ y < top => y \in DOMAIN s.mem

LEMMA StringsFill ==
  ASSUME NEW s, NEW t, NEW at, NEW lens, NEW mark, Strings(s, t, at, lens, mark),
         NEW low \in Nat, NEW top \in Nat, Between(at, lens, low, top),
         Spans(s, low, top), NEW u, Same(t, u, Window(low, top)), NEW i \in DOMAIN lens
  PROVE  Filled(u, at[i], lens[i], mark)
<1>1. PICK b, k : b = at[i] /\ k = lens[i]
  OBVIOUS
<1>2. b \in Int /\ k \in Nat /\ low <= b /\ b + k <= top
  BY <1>1 DEF Between
<1>3. ASSUME NEW y \in b .. b + k - 1 PROVE u.mem[y] = mark
  <2>1. y \in Nat /\ low <= y /\ y < top
    BY <1>2
  <2>2. y \in DOMAIN s.mem
    BY <2>1 DEF Spans
  <2>3. y \in DOMAIN t.mem /\ t.mem[y] = mark
    BY <1>1, <2>2 DEF Strings
  <2> QED
    BY <2>1, <2>3 DEF Same, Window
<1> QED
  BY <1>1, <1>3 DEF Filled

LEMMA SameThen ==
  ASSUME NEW s, NEW t, NEW u, NEW us, NEW vs, NEW ws, Same(s, t, us), Same(t, u, vs),
         ws \subseteq us, ws \subseteq vs
  PROVE  Same(s, u, ws)
  BY DEF Same

\* The four writes of setup_stack and the places where they go.
Places(base, x, n, r, low, high, top) ==
  base <= x /\ x + n <= r /\ r + 2 = low /\ low <= high /\ high <= top

Covers(m, base, top) == DOMAIN m.mem \subseteq Nat /\ Spans(m, base, top)

Laid(base, x, n, r, low, high, top, m, at, envp, below, argv, u, v, w, t) ==
  /\ {base, x, n, r, low, high, top} \subseteq Nat
  /\ Places(base, x, n, r, low, high, top) /\ Covers(m, base, top)
  /\ Between(at, envp, high, top) /\ Between(below, argv, low, high)
  /\ Strings(m, u, at, envp, EnvMark) /\ Strings(u, v, below, argv, ArgMark)
  /\ Block(v, w, r, 2, RandomMark) /\ Block(w, t, x, n, WordMark)

LEMMA StackMarks ==
  ASSUME NEW base, NEW x, NEW n, NEW r, NEW low, NEW high, NEW top, NEW m, NEW at, NEW envp,
         NEW below, NEW argv, NEW u, NEW v, NEW w, NEW t,
         Laid(base, x, n, r, low, high, top, m, at, envp, below, argv, u, v, w, t)
  PROVE  /\ Same(m, t, {y \in Nat : y < base})
         /\ \A p : protection_at(t, p) = protection_at(m, p)
         /\ \A i \in DOMAIN argv : Filled(t, below[i], argv[i], ArgMark)
         /\ \A i \in DOMAIN envp : Filled(t, at[i], envp[i], EnvMark)
         /\ Filled(t, r, 2, RandomMark) /\ Filled(t, x, n, WordMark)
<1>0. /\ base \in Nat /\ x \in Nat /\ n \in Nat /\ r \in Nat /\ low \in Nat /\ high \in Nat /\ top \in Nat
      /\ base <= x /\ x + n <= r /\ r + 2 = low /\ low <= high /\ high <= top
      /\ DOMAIN m.mem \subseteq Nat /\ \A y \in Nat : base <= y /\ y < top => y \in DOMAIN m.mem
      /\ Between(at, envp, high, top) /\ Between(below, argv, low, high)
      /\ Strings(m, u, at, envp, EnvMark) /\ Strings(u, v, below, argv, ArgMark)
      /\ Block(v, w, r, 2, RandomMark) /\ Block(w, t, x, n, WordMark)
  BY DEF Laid, Places, Covers, Spans
<1> USE <1>0
<1>1. DOMAIN u.mem = DOMAIN m.mem /\ DOMAIN v.mem = DOMAIN m.mem /\ DOMAIN w.mem = DOMAIN m.mem
  BY DEF Strings, Block
<1>2. \A p : protection_at(t, p) = protection_at(m, p)
  BY DEF Strings, Block
<1>3. /\ Same(m, u, {y \in Nat : y < high \/ top <= y})
      /\ Same(u, v, {y \in Nat : y < low \/ high <= y})
  BY <1>1, StringsKeep
<1>4. Same(v, w, {y \in Nat : y < base \/ low <= y})
  <2>1. base <= r /\ r + 2 <= low /\ 2 \in Nat
    OBVIOUS
  <2> QED
    BY <1>1, <2>1, BlockKeeps
<1>5. Same(w, t, {y \in Nat : y < base \/ r <= y})
  BY <1>1, BlockKeeps
<1>6. Same(v, t, {y \in Nat : y < base \/ low <= y})
  <2>1. {y \in Nat : y < base \/ low <= y} \subseteq {y \in Nat : y < base \/ r <= y}
    OBVIOUS
  <2> QED
    BY <1>4, <1>5, <2>1, SameThen
<1>7. Same(u, t, {y \in Nat : y < base \/ high <= y})
  <2>1. /\ {y \in Nat : y < base \/ high <= y} \subseteq {y \in Nat : y < base \/ low <= y}
        /\ {y \in Nat : y < base \/ high <= y} \subseteq {y \in Nat : y < low \/ high <= y}
    OBVIOUS
  <2> QED
    BY <1>3, <1>6, <2>1, SameThen
<1>8. Same(m, t, {y \in Nat : y < base})
  <2>1. /\ {y \in Nat : y < base} \subseteq {y \in Nat : y < base \/ high <= y}
        /\ {y \in Nat : y < base} \subseteq {y \in Nat : y < high \/ top <= y}
    OBVIOUS
  <2> QED
    BY <1>3, <1>7, <2>1, SameThen
<1>9. ASSUME NEW i \in DOMAIN argv PROVE Filled(t, below[i], argv[i], ArgMark)
  <2>1. Same(v, t, Window(low, high))
    <3>1. Window(low, high) \subseteq {y \in Nat : y < base \/ low <= y}
      BY DEF Window
    <3> QED
      BY <1>6, <3>1 DEF Same
  <2>2. Spans(u, low, high)
    BY <1>1 DEF Spans
  <2> QED
    BY <2>1, <2>2, StringsFill
<1>10. ASSUME NEW i \in DOMAIN envp PROVE Filled(t, at[i], envp[i], EnvMark)
  <2>1. Same(u, t, Window(high, top))
    <3>1. Window(high, top) \subseteq {y \in Nat : y < base \/ high <= y}
      BY DEF Window
    <3> QED
      BY <1>7, <3>1 DEF Same
  <2>2. Spans(m, high, top)
    BY DEF Spans
  <2> QED
    BY <2>1, <2>2, StringsFill
<1>11. Filled(t, r, 2, RandomMark)
  <2> SUFFICES ASSUME NEW y \in r .. r + 2 - 1 PROVE t.mem[y] = RandomMark
    BY DEF Filled
  <2>1. y \in Nat /\ base <= y /\ y < top /\ r <= y
    OBVIOUS
  <2>2. y \in DOMAIN w.mem
    BY <1>1, <2>1
  <2>3. w.mem[y] = RandomMark
    BY DEF Block
  <2> QED
    BY <1>5, <2>1, <2>2, <2>3 DEF Same
<1>12. Filled(t, x, n, WordMark)
  BY DEF Block, Filled
<1> QED
  BY <1>2, <1>8, <1>9, <1>10, <1>11, <1>12

\* What was mapped in s is the same in t.
Kept(s, t) ==
  \A y \in DOMAIN s.mem : /\ y \in DOMAIN t.mem /\ t.mem[y] = s.mem[y]
                          /\ protection_at(t, PageOf(y)) = protection_at(s, PageOf(y))

\* The image is below the page that precedes the stack.
LEMMA ImageBelow ==
  ASSUME NEW s, SpaceOK(s), \A p \in MappedPages(s) : p + 1 < NumPages - StackPages, NEW y \in DOMAIN s.mem
  PROVE  y \in Nat /\ y + 1 < stack_base /\ PageOf(y) \in Low /\ PageOf(y) \notin StackSpan
<1>1. y \in Nat /\ PageOf(y) \in MappedPages(s) /\ PageOf(y) \in Low
  BY DEF SpaceOK, WholePages, MappedPages
<1>2. PageOf(y) + 1 < NumPages - StackPages
  BY <1>1
<1>3. y + 1 < stack_base
  BY <1>1, <1>2, StackUnits
<1>4. PICK k, q : k = NumPages - StackPages /\ q = PageOf(y)
  OBVIOUS
<1>5. k \in Int /\ q \in Int /\ q + 1 < k
  BY <1>1, <1>2, <1>4, StackRange DEF Low
<1>6. q \notin k .. NumPages - 1
  BY <1>5
<1> QED
  BY <1>1, <1>3, <1>4, <1>6 DEF StackSpan

LEMMA StackMapped ==
  ASSUME NEW s, SpaceOK(s), \A p \in MappedPages(s) : p + 1 < NumPages - StackPages,
         NEW a, a = stack_base, NEW b, b = stack_top - stack_base,
         NEW prot \in SUBSET {"r", "w", "x"}, NEW m, m = map_or_throw(s, a, b, prot)
  PROVE  /\ SpaceOK(m) /\ DOMAIN m.mem \subseteq Nat /\ Kept(s, m)
         /\ \A y \in DOMAIN s.mem : y \in Nat /\ y + 1 < stack_base
         /\ \A y \in Nat : stack_base <= y /\ y < stack_top => y \in DOMAIN m.mem
         /\ \A y \in DOMAIN m.mem : y + 1 < stack_base \/ stack_base <= y
<1>1. PICK ps : ps = StackSpan
  OBVIOUS
<1>2. ps = MapPages(a, b) /\ ps \subseteq Low
  BY <1>1, StackRange
<1>3. SpaceOK(m) /\ Keeps(s, m, ps)
  BY <1>2, MapOK
<1>4. \A y \in Nat : PageOf(y) \in ps => y \in DOMAIN m.mem
  BY <1>2, MapIs
<1>5. DOMAIN m.mem \subseteq Nat
  BY <1>3 DEF SpaceOK, WholePages
<1>6. \A y \in DOMAIN s.mem : y \in Nat /\ y + 1 < stack_base /\ PageOf(y) \in Low /\ PageOf(y) \notin ps
  BY <1>1, ImageBelow
<1>7. \A y \in Nat : stack_base <= y /\ y < stack_top => y \in DOMAIN m.mem
  BY <1>1, <1>4, StackUnits
<1>8. ASSUME NEW y \in DOMAIN m.mem PROVE y + 1 < stack_base \/ stack_base <= y
  <2>1. y \in Nat
    BY <1>5
  <2>2. CASE y \in DOMAIN s.mem
    BY <1>6, <2>2
  <2>3. CASE y \notin DOMAIN s.mem
    <3>1. PageOf(y) \in ps
      BY <1>3, <2>1, <2>3 DEF Keeps
    <3>2. PICK k, q : k = NumPages - StackPages /\ q = PageOf(y)
      OBVIOUS
    <3>3. k \in Int /\ q \in Int /\ k <= q
      <4>1. k \in Int /\ q \in k .. NumPages - 1
        BY <1>1, <3>1, <3>2, StackRange DEF StackSpan
      <4> QED
        BY <4>1, Size
    <3>4. k * PageSize <= q * PageSize
      BY <3>3, Size, MultipleOrder
    <3>5. stack_base = k * PageSize /\ stack_base \in Nat
      BY <3>2, StackRange
    <3>6. q * PageSize <= y /\ q * PageSize \in Nat
      BY <2>1, <3>2, PageBounds
    <3> QED
      BY <2>1, <3>4, <3>5, <3>6
  <2> QED
    BY <2>2, <2>3
<1>9. ASSUME NEW y \in DOMAIN s.mem
      PROVE  /\ y \in DOMAIN m.mem /\ m.mem[y] = s.mem[y]
             /\ protection_at(m, PageOf(y)) = protection_at(s, PageOf(y))
  <2>1. y \in Nat /\ PageOf(y) \in Low /\ PageOf(y) \notin ps
    BY <1>6
  <2>2. y \in DOMAIN m.mem /\ m.mem[y] = s.mem[y]
    BY <1>3, <2>1 DEF Keeps
  <2>3. protection_at(m, PageOf(y)) = protection_at(s, PageOf(y))
    BY <1>3, <2>1, ProtectionKept
  <2> QED
    BY <2>2, <2>3
<1>10. Kept(s, m)
  BY <1>9 DEF Kept
<1> QED
  BY <1>3, <1>5, <1>6, <1>7, <1>8, <1>10

\* A range that is mapped, with the page below the stack unmapped, is in the stack.
LEMMA RandomPlaced ==
  ASSUME NEW base \in Nat, NEW D, D \subseteq Nat, \A y \in D : y + 1 < base \/ base <= y,
         NEW r \in Int, base <= r + 2, r .. r + 2 - 1 \subseteq D
  PROVE  r \in Nat /\ base <= r
<1>1. r \in D /\ r + 1 \in D
  OBVIOUS
<1>2. (r + 1 < base \/ base <= r) /\ ((r + 1) + 1 < base \/ base <= r + 1)
  BY <1>1
<1> QED
  BY <1>1, <1>2

LEMMA AccessIn ==
  ASSUME NEW s, NEW a, NEW n, AccessError(s, a, n) = "none"
  PROVE  a .. a + n - 1 \subseteq DOMAIN s.mem /\ ~range_overflows(a, n)
  BY DEF AccessError

LEMMA WritesBlock ==
  ASSUME NEW s, SpaceOK(s), NEW a \in Int, NEW n \in Nat, NEW mark, AccessError(s, a, n) = "none",
         NEW t, t = write(s, a, n, mark)
  PROVE  Block(s, t, a, n, mark) /\ SpaceOK(t) /\ a .. a + n - 1 \subseteq DOMAIN s.mem
<1>1. a .. a + n - 1 \subseteq DOMAIN s.mem /\ ~range_overflows(a, n)
  BY AccessIn
<1>2. SpaceOK(t)
  BY WriteOK
<1>3. Block(s, t, a, n, mark)
  BY <1>1, WriteIs DEF Block
<1> QED
  BY <1>1, <1>2, <1>3

LEMMA WritesStrings ==
  ASSUME NEW s, SpaceOK(s), NEW at, NEW lens, NEW mark, NEW t, t = WriteStrings(s, at, lens, mark)
  PROVE  Strings(s, t, at, lens, mark) /\ SpaceOK(t) /\ DOMAIN t.mem = DOMAIN s.mem
<1>1. Strings(s, t, at, lens, mark)
  BY StringsIs DEF Strings
<1> QED
  BY <1>1, StringsOK DEF Strings

LEMMA StringsBetween ==
  ASSUME NEW lens \in Seq(Nat), NEW top \in Nat, NEW low, low = top - SumFrom(lens, 1),
         NEW at, at = StringsBelow(top, lens)
  PROVE  Between(at, lens, low, top)
<1>1. DOMAIN lens = 1 .. Len(lens)
  OBVIOUS
<1> QED
  BY <1>1, StringsPlaced DEF Between

\* What setup_stack computes when nothing fails: m, u, v, w, t are the states of
\* memory after the mapping, the two groups of strings, the random bytes and the words.
Built(s, m, u, v, w, t, envp, argv, at, below, high, low, r, al, n, x) ==
  /\ m = map_or_throw(s, stack_base, stack_top - stack_base, {"r", "w"})
  /\ at = StringsBelow(stack_top, envp) /\ high = stack_top - SumFrom(envp, 1)
  /\ below = StringsBelow(high, argv) /\ low = high - SumFrom(argv, 1)
  /\ SumFrom(envp, 1) + SumFrom(argv, 1) <= stack_top - stack_base
  /\ u = WriteStrings(m, at, envp, EnvMark) /\ v = WriteStrings(u, below, argv, ArgMark)
  /\ r = low - 2 /\ AccessError(v, r, 2) = "none" /\ w = write(v, r, 2, RandomMark)
  /\ al = r - (r % 2) /\ n <= (al - stack_base) % Top
  /\ x = (al - n) - ((al - n) % 2) /\ AccessError(w, x, n) = "none"
  /\ t = write(w, x, n, WordMark)

\* n units at from, inside the stack, hold the mark.
Marked(s, from, n, mark) == from >= stack_base /\ from + n <= stack_top /\ Filled(s, from, n, mark)

LEMMA StackWritten ==
  ASSUME PageSize % 2 = 0, NEW s, SpaceOK(s), \A p \in MappedPages(s) : p + 1 < NumPages - StackPages,
         NEW envp \in Seq(Nat), NEW argv \in Seq(Nat), NEW n \in Nat,
         NEW m, NEW u, NEW v, NEW w, NEW t, NEW at, NEW below, NEW high, NEW low, NEW r, NEW al, NEW x,
         Built(s, m, u, v, w, t, envp, argv, at, below, high, low, r, al, n, x)
  PROVE  /\ Kept(s, t)
         /\ \A i \in DOMAIN argv : Marked(t, below[i], argv[i], ArgMark)
         /\ \A i \in DOMAIN envp : Marked(t, at[i], envp[i], EnvMark)
         /\ Marked(t, r, 2, RandomMark) /\ Marked(t, x, n, WordMark) /\ x % 2 = 0
<1>1. PICK base, top : base = stack_base /\ top = stack_top
  OBVIOUS
<1>2. /\ base \in Nat /\ top \in Nat /\ base <= top /\ top <= Top /\ Top \in Nat /\ base % 2 = 0
  BY <1>1, StackRange, EvenBase
<1>3. PICK se, sa : se = SumFrom(envp, 1) /\ sa = SumFrom(argv, 1)
  OBVIOUS
<1>4. se \in Nat /\ sa \in Nat
  BY <1>3, SumFacts
<1>5. high = top - se /\ low = high - sa /\ se + sa <= top - base /\ r = low - 2
  BY <1>1, <1>3 DEF Built
<1>6. /\ high \in Nat /\ low \in Nat /\ base <= low /\ low <= high /\ high <= top
      /\ r \in Int /\ r + 2 = low
  BY <1>2, <1>4, <1>5
<1>7. /\ SpaceOK(m) /\ DOMAIN m.mem \subseteq Nat /\ Kept(s, m)
      /\ \A y \in DOMAIN s.mem : y \in Nat /\ y + 1 < base
      /\ \A y \in Nat : base <= y /\ y < top => y \in DOMAIN m.mem
      /\ \A y \in DOMAIN m.mem : y + 1 < base \/ base <= y
  <2>1. PICK a, b, prot : a = stack_base /\ b = stack_top - stack_base /\ prot = {"r", "w"}
    OBVIOUS
  <2>2. prot \in SUBSET {"r", "w", "x"} /\ m = map_or_throw(s, a, b, prot)
    BY <2>1 DEF Built
  <2> QED
    BY <1>1, <2>1, <2>2, StackMapped
<1>8. Strings(m, u, at, envp, EnvMark) /\ SpaceOK(u) /\ DOMAIN u.mem = DOMAIN m.mem
  <2>1. u = WriteStrings(m, at, envp, EnvMark)
    BY Zenon DEF Built
  <2>2. PICK mark : mark = EnvMark
    OBVIOUS
  <2> QED
    BY <1>7, <2>1, <2>2, WritesStrings
<1>9. Strings(u, v, below, argv, ArgMark) /\ SpaceOK(v) /\ DOMAIN v.mem = DOMAIN u.mem
  <2>1. v = WriteStrings(u, below, argv, ArgMark)
    BY Zenon DEF Built
  <2>2. PICK mark : mark = ArgMark
    OBVIOUS
  <2> QED
    BY <1>8, <2>1, <2>2, WritesStrings
<1>10. Block(v, w, r, 2, RandomMark) /\ SpaceOK(w) /\ r .. r + 2 - 1 \subseteq DOMAIN m.mem
  <2>1. 2 \in Nat /\ AccessError(v, r, 2) = "none" /\ w = write(v, r, 2, RandomMark)
    BY DEF Built
  <2> QED
    BY <1>6, <1>8, <1>9, <2>1, WritesBlock
<1>11. r \in Nat /\ base <= r
  <2>1. base <= r + 2
    BY <1>6
  <2> QED
    BY <1>2, <1>6, <1>7, <1>10, <2>1, RandomPlaced
<1>12. x \in Nat /\ base <= x /\ x + n <= r /\ x % 2 = 0
  <2>1. r < Top /\ Top \in Nat
    BY <1>2, <1>6
  <2>2. Aligned(base, r, Top, al, n, x)
    BY <1>1 DEF Built, Aligned
  <2> QED
    BY <1>2, <1>11, <2>1, <2>2, StackNumbers
<1>13. Block(w, t, x, n, WordMark)
  <2>1. x \in Int /\ AccessError(w, x, n) = "none" /\ t = write(w, x, n, WordMark)
    BY <1>12 DEF Built
  <2> QED
    BY <1>10, <2>1, WritesBlock
<1>14. Between(at, envp, high, top) /\ Between(below, argv, low, high)
  <2>1. at = StringsBelow(top, envp) /\ high = top - SumFrom(envp, 1)
    BY <1>1 DEF Built
  <2>2. below = StringsBelow(high, argv) /\ low = high - SumFrom(argv, 1)
    BY DEF Built
  <2>3. Between(at, envp, high, top)
    BY <1>2, <2>1, StringsBetween
  <2>4. Between(below, argv, low, high)
    BY <1>6, <2>2, StringsBetween
  <2> QED
    BY <2>3, <2>4
<1>15. /\ Same(m, t, {y \in Nat : y < base})
       /\ \A p : protection_at(t, p) = protection_at(m, p)
       /\ \A i \in DOMAIN argv : Filled(t, below[i], argv[i], ArgMark)
       /\ \A i \in DOMAIN envp : Filled(t, at[i], envp[i], EnvMark)
       /\ Filled(t, r, 2, RandomMark) /\ Filled(t, x, n, WordMark)
  <2>1. Places(base, x, n, r, low, high, top) /\ Covers(m, base, top)
    BY <1>6, <1>7, <1>12 DEF Places, Covers, Spans
  <2>2. Laid(base, x, n, r, low, high, top, m, at, envp, below, argv, u, v, w, t)
    BY <1>2, <1>6, <1>8, <1>9, <1>10, <1>11, <1>12, <1>13, <1>14, <2>1 DEF Laid
  <2> QED
    BY <2>2, StackMarks, Zenon
<1>16. Kept(s, t)
  <2> SUFFICES ASSUME NEW y \in DOMAIN s.mem
               PROVE  /\ y \in DOMAIN t.mem /\ t.mem[y] = s.mem[y]
                      /\ protection_at(t, PageOf(y)) = protection_at(s, PageOf(y))
    BY DEF Kept
  <2>1. y \in DOMAIN m.mem /\ m.mem[y] = s.mem[y] /\ protection_at(m, PageOf(y)) = protection_at(s, PageOf(y))
    BY <1>7 DEF Kept
  <2>2. y \in {z \in Nat : z < base}
    BY <1>2, <1>7
  <2>3. y \in DOMAIN t.mem /\ t.mem[y] = m.mem[y]
    BY <1>15, <2>1, <2>2 DEF Same
  <2> QED
    BY <1>15, <2>1, <2>3
<1>17. ASSUME NEW i \in DOMAIN argv PROVE Marked(t, below[i], argv[i], ArgMark)
  <2>1. PICK b, k : b = below[i] /\ k = argv[i]
    OBVIOUS
  <2>2. b \in Int /\ k \in Nat /\ low <= b /\ b + k <= high
    BY <1>14, <2>1 DEF Between
  <2>3. b >= base /\ b + k <= top
    BY <1>2, <1>6, <2>2
  <2> QED
    BY <1>1, <1>15, <2>1, <2>3 DEF Marked
<1>18. ASSUME NEW i \in DOMAIN envp PROVE Marked(t, at[i], envp[i], EnvMark)
  <2>1. PICK b, k : b = at[i] /\ k = envp[i]
    OBVIOUS
  <2>2. b \in Int /\ k \in Nat /\ high <= b /\ b + k <= top
    BY <1>14, <2>1 DEF Between
  <2>3. b >= base /\ b + k <= top
    BY <1>2, <1>6, <2>2
  <2> QED
    BY <1>1, <1>15, <2>1, <2>3 DEF Marked
<1>19. Marked(t, r, 2, RandomMark) /\ Marked(t, x, n, WordMark)
  <2>1. r >= base /\ r + 2 <= top /\ x >= base /\ x + n <= top
    BY <1>2, <1>6, <1>11, <1>12
  <2> QED
    BY <1>1, <1>15, <2>1 DEF Marked
<1> QED
  BY <1>12, <1>16, <1>17, <1>18, <1>19

(***************************************************************************)
(* The program is in memory as the loader left it.                         *)
(***************************************************************************)
InMemory(s, st, pr) ==
  /\ \A i \in 1 .. Len(pr.image.segs) : SegmentIn(s, pr.image.segs[i])
  /\ \A i \in DOMAIN pr.argv : Marked(s, st.argv[i], pr.argv[i], ArgMark)
  /\ \A i \in DOMAIN pr.envp : Marked(s, st.envp[i], pr.envp[i], EnvMark)
  /\ Marked(s, st.random, 2, RandomMark) /\ Marked(s, st.rsp, st.words, WordMark)
  /\ st.rsp % 2 = 0

LoadedInv ==
  loader.phase = "loaded" /\ total = 0 /\ last.op = "none" => InMemory(spaces[Home], loader.stack, program)

LEMMA SetupStackIs ==
  ASSUME LoaderOK, SetupStack, loader'.phase = "loaded"
  PROVE  /\ loader.phase = "segments" /\ loader.seg > Len(program.image.segs)
         /\ \E m, u, v, w, t, at, below, high, low, r, al, n, x :
              /\ Built(spaces[Home], m, u, v, w, t, program.envp, program.argv, at, below, high, low, r, al, n, x)
              /\ n = 3 + Len(program.argv) + Len(program.envp) + AuxWords
              /\ spaces' = [spaces EXCEPT ![Home] = t]
              /\ loader'.stack = [rsp |-> x, argv |-> below, envp |-> at, random |-> r, words |-> n]
<1>1. loader.phase = "segments" /\ loader.seg > Len(program.image.segs)
  BY DEF SetupStack
<1>2. ~LoadFails
  <2>1. LoadFails => loader'.phase = "failed"
    BY DEF LoadFails, LoaderOK
  <2> QED
    BY <2>1
<1> DEFINE envp == program.envp
           argv == program.argv
           m == map_or_throw(spaces[Home], stack_base, stack_top - stack_base, {"r", "w"})
           high == stack_top - SumFrom(envp, 1)
           low == high - SumFrom(argv, 1)
           at == StringsBelow(stack_top, envp)
           below == StringsBelow(high, argv)
           u == WriteStrings(m, at, envp, EnvMark)
           v == WriteStrings(u, below, argv, ArgMark)
           r == low - 2
           w == write(v, r, 2, RandomMark)
           al == r - (r % 2)
           n == 3 + Len(argv) + Len(envp) + AuxWords
           x == (al - n) - ((al - n) % 2)
           t == write(w, x, n, WordMark)
           st == [rsp |-> x, argv |-> below, envp |-> at, random |-> r, words |-> n]
<1>3. /\ SumFrom(envp, 1) + SumFrom(argv, 1) <= stack_top - stack_base
      /\ AccessError(v, r, 2) = "none"
      /\ n <= (al - stack_base) % Top
      /\ AccessError(w, x, n) = "none"
      /\ spaces' = [spaces EXCEPT ![Home] = t]
      /\ loader' = [loader EXCEPT !.phase = "loaded", !.stack = st]
  BY <1>2, Zenon DEF SetupStack
<1>4. Built(spaces[Home], m, u, v, w, t, envp, argv, at, below, high, low, r, al, n, x)
  BY <1>3, Zenon DEF Built
<1> HIDE DEF envp, argv, m, high, low, at, below, u, v, r, w, al, x, t, st
<1>5. loader'.stack = st
  BY <1>3 DEF LoaderOK
<1>6. loader'.stack = [rsp |-> x, argv |-> below, envp |-> at, random |-> r, words |-> n]
  BY <1>5, Zenon DEF st
<1>7. n = 3 + Len(program.argv) + Len(program.envp) + AuxWords
  BY DEF argv, envp
<1> HIDE DEF n
<1>8. Built(spaces[Home], m, u, v, w, t, program.envp, program.argv, at, below, high, low, r, al, n, x)
  BY <1>4 DEF argv, envp
<1>9. spaces' = [spaces EXCEPT ![Home] = t]
  BY <1>3
<1> QED
  BY <1>1, <1>6, <1>7, <1>8, <1>9, Zenon

LEMMA SegmentStays ==
  ASSUME NEW g, NEW s, NEW t, SegmentIn(s, g), Kept(s, t)
  PROVE  SegmentIn(t, g)
<1> SUFFICES ASSUME NEW y \in g.vaddr .. g.vaddr + g.memsz - 1
             PROVE  /\ y \in DOMAIN t.mem
                    /\ t.mem[y] = IF y < g.vaddr + g.filesz THEN 1 ELSE 0
                    /\ protection_at(t, PageOf(y)) = g.prot
  BY DEF SegmentIn
<1>1. /\ y \in DOMAIN s.mem
      /\ s.mem[y] = IF y < g.vaddr + g.filesz THEN 1 ELSE 0
      /\ protection_at(s, PageOf(y)) = g.prot
  BY DEF SegmentIn
<1> QED
  BY <1>1 DEF Kept

LEMMA StackLoads ==
  ASSUME PageSize % 2 = 0, AllSpacesOK, LoaderOK, ImageInv, SetupStack, program' = program,
         loader'.phase = "loaded"
  PROVE  InMemory(spaces'[Home], loader'.stack, program')
<1>1. PICK pr, s : pr = program /\ s = spaces[Home]
  OBVIOUS
<1>2. PICK m, u, v, w, t, at, below, high, low, r, al, n, x :
           /\ Built(spaces[Home], m, u, v, w, t, program.envp, program.argv, at, below, high, low, r, al, n, x)
           /\ n = 3 + Len(program.argv) + Len(program.envp) + AuxWords
           /\ spaces' = [spaces EXCEPT ![Home] = t]
           /\ loader'.stack = [rsp |-> x, argv |-> below, envp |-> at, random |-> r, words |-> n]
  BY SetupStackIs, Zenon
<1>3. /\ loader.phase = "segments" /\ loader.seg > Len(pr.image.segs)
      /\ Built(s, m, u, v, w, t, pr.envp, pr.argv, at, below, high, low, r, al, n, x)
      /\ n = 3 + Len(pr.argv) + Len(pr.envp) + AuxWords
      /\ spaces' = [spaces EXCEPT ![Home] = t]
      /\ loader'.stack = [rsp |-> x, argv |-> below, envp |-> at, random |-> r, words |-> n]
  BY <1>1, <1>2, SetupStackIs
<1>4. pr.argv \in Seq(Nat) /\ pr.envp \in Seq(Nat) /\ pr.image.segs \in Seq(Segment) /\ AuxWords \in Nat
  BY <1>1, ProgramAssumption DEF LoaderOK
<1>5. n \in Nat
  <2>1. PICK ka, ke : ka = Len(pr.argv) /\ ke = Len(pr.envp)
    OBVIOUS
  <2>2. ka \in Nat /\ ke \in Nat /\ AuxWords \in Nat
    BY <1>4, <2>1
  <2>3. n = 3 + ka + ke + AuxWords
    BY <1>3, <2>1, Zenon
  <2> QED
    BY <2>2, <2>3
<1>6. SpaceOK(s) /\ spaces'[Home] = t
  BY <1>1, <1>3, HomeSpace DEF AllSpacesOK
<1>7. PICK q, k : q = pr.image.segs /\ k = loader.seg
  OBVIOUS
<1>8. /\ \A i \in 1 .. Len(q) : i < k => Placed(s, q[i])
      /\ \A p \in MappedPages(s) : p + 1 < NumPages - StackPages
  BY <1>1, <1>3, <1>7 DEF ImageInv, ImageOK
<1>9. \A i \in 1 .. Len(q) : i < k
  <2>1. Len(q) \in Nat /\ k \in Nat /\ k > Len(q)
    BY <1>3, <1>4, <1>7 DEF LoaderOK
  <2> QED
    BY <2>1
<1>10. PICK envp, argv : envp = pr.envp /\ argv = pr.argv
  OBVIOUS
<1>11. /\ Kept(s, t)
       /\ \A i \in DOMAIN argv : Marked(t, below[i], argv[i], ArgMark)
       /\ \A i \in DOMAIN envp : Marked(t, at[i], envp[i], EnvMark)
       /\ Marked(t, r, 2, RandomMark) /\ Marked(t, x, n, WordMark) /\ x % 2 = 0
  <2>1. Built(s, m, u, v, w, t, envp, argv, at, below, high, low, r, al, n, x)
    BY <1>3, <1>10
  <2>2. envp \in Seq(Nat) /\ argv \in Seq(Nat)
    BY <1>4, <1>10
  <2> QED
    BY <1>5, <1>6, <1>8, <2>1, <2>2, StackWritten
<1>12. \A i \in 1 .. Len(q) : SegmentIn(t, q[i])
  <2> SUFFICES ASSUME NEW i \in 1 .. Len(q) PROVE SegmentIn(t, q[i])
    OBVIOUS
  <2>1. SegmentIn(s, q[i])
    BY <1>8, <1>9 DEF Placed
  <2> QED
    BY <1>11, <2>1, SegmentStays
<1>13. PICK st : st = loader'.stack
  OBVIOUS
<1>14. st.rsp = x /\ st.argv = below /\ st.envp = at /\ st.random = r /\ st.words = n
  BY <1>3, <1>13
<1>15. InMemory(t, st, pr)
  BY <1>7, <1>10, <1>11, <1>12, <1>14 DEF InMemory
<1> QED
  BY <1>1, <1>6, <1>13, <1>15

LEMMA LoadLoads ==
  ASSUME SegmentsApart, PageSize % 2 = 0, AllSpacesOK, LoaderOK, ImageInv, Load
  PROVE  ImageInv' /\ LoadedInv'
<1>1. program' = program
  BY DEF Load
<1>2. CASE LoadHeader
  <2>1. ImageInv'
    BY <1>1, <1>2, HeaderImage
  <2>2. loader'.phase # "loaded"
    BY <1>2 DEF LoadHeader, LoadFails, LoaderOK
  <2> QED
    BY <2>1, <2>2 DEF LoadedInv
<1>3. CASE LoadSegment
  <2>1. ImageInv'
    BY <1>1, <1>3, SegmentImage
  <2>2. loader'.phase # "loaded"
    <3>1. loader.phase = "segments"
      BY <1>3 DEF LoadSegment
    <3>2. loader' = [loader EXCEPT !.phase = "failed"] \/ loader' = [loader EXCEPT !.seg = @ + 1]
      BY <1>3 DEF LoadSegment, LoadFails
    <3> QED
      BY <3>1, <3>2 DEF LoaderOK
  <2> QED
    BY <2>1, <2>2 DEF LoadedInv
<1>4. CASE SetupStack
  <2>1. loader'.phase \in {"failed", "loaded"}
    <3>1. \/ loader' = [loader EXCEPT !.phase = "failed"]
          \/ \E st : loader' = [loader EXCEPT !.phase = "loaded", !.stack = st]
      BY <1>4 DEF SetupStack, LoadFails
    <3> QED
      BY <3>1 DEF LoaderOK
  <2>2. ImageInv'
    BY <2>1 DEF ImageInv, ImageOK
  <2>3. LoadedInv'
    <3>1. CASE loader'.phase = "loaded"
      BY <1>1, <1>4, <3>1, StackLoads DEF LoadedInv
    <3>2. CASE loader'.phase # "loaded"
      BY <3>2 DEF LoadedInv
    <3> QED
      BY <3>1, <3>2
  <2> QED
    BY <2>2, <2>3
<1> QED
  BY <1>2, <1>3, <1>4 DEF Load

\* The bytes and the protection of the process are what they were.
SameHome ==
  /\ spaces'[Home].mem = spaces[Home].mem /\ spaces'[Home].readmap = spaces[Home].readmap
  /\ spaces'[Home].writemap = spaces[Home].writemap /\ spaces'[Home].execmap = spaces[Home].execmap

\* A step of the process leaves what the loader has built, or is the first
\* instruction, page fault or edit after it.
Afterwards == \/ UNCHANGED <<spaces, total, last>>
              \/ loader.phase = "loaded" /\ SameHome /\ UNCHANGED <<total, last>>
              \/ loader.phase = "loaded" /\ (total' # 0 \/ last'.op # "none")

LEMMA RetiresCount == ASSUME MachineOK, Retires PROVE total' # 0
<1>1. total \in Nat /\ total' = total + 1
  BY MachineAssumption DEF MachineOK, Retires, Retire
<1> QED
  BY <1>1

LEMMA FaultNamed == ASSUME PageFault PROVE last'.op # "none"
  BY DEF PageFault, Done, DoneFrom

LEMMA InstructionAfter ==
  ASSUME MemInv, Instruction
  PROVE  Afterwards
<1>1. MachineOK /\ loader.phase = "loaded"
  BY InstructionOK DEF MemInv
<1>2. CASE Retires \/ PageFault
  BY <1>1, <1>2, RetiresCount, FaultNamed DEF Afterwards
<1>3. CASE GuestStep
  <2>1. Retires \/ PageFault \/ \E p : p \in Nat /\ FetchAhead(p)
    <3>1. Addresses \subseteq Nat
      BY ArgumentsNat DEF MemInv
    <3> QED
      BY <1>3, <3>1, PageBounds DEF GuestStep, Execute, GuestStore, Retires
  <2>2. ASSUME NEW p \in Nat, FetchAhead(p) PROVE Afterwards
    <3>1. AllSpacesOK /\ Running
      BY <2>2 DEF MemInv, AllSpacesOK, MachineOK, Running, FetchAhead, as
    <3>2. Decoded(p)
      BY <2>2, <3>1, DecodeIs DEF FetchAhead
    <3>3. SameHome
      BY <3>2, HomeSpace DEF Decoded, SameHome, as
    <3> QED
      BY <1>1, <2>2, <3>3 DEF FetchAhead, Afterwards
  <2> QED
    BY <1>2, <2>1, <2>2
<1>4. CASE TransferCall
  <2>1. UNCHANGED machineVars \/ Retires
    BY <1>4, TransferCallRetires
  <2> QED
    BY <1>2, <2>1 DEF Afterwards, machineVars
<1> QED
  BY <1>2, <1>3, <1>4, MemoryCallRetires, SmallCallRetires, DescriptorCallRetires, FileCallRetires
     DEF Instruction

LEMMA NextAfter ==
  ASSUME MemInv, [Next]_vars, ~Load
  PROVE  Afterwards /\ program' = program /\ loader' = loader
<1>1. program' = program /\ loader' = loader
  BY NextProceeds DEF Proceeds
<1> SUFFICES Afterwards
  BY <1>1
<1>2. CASE Start
  BY <1>2 DEF Start, MachineRun, Afterwards
<1>3. ASSUME NEW s \in Space, UserEdit(s) PROVE Afterwards
  <2>1. loader.phase = "loaded" /\ \E ps : last' = Done("user", ps, 0)
    BY <1>3 DEF UserEdit
  <2>2. last'.op = "user"
    BY <2>1 DEF Done, DoneFrom
  <2> QED
    BY <2>1, <2>2 DEF Afterwards
<1>4. CASE Instruction
  BY <1>4, InstructionAfter
<1>5. CASE ContinueWrite
  <2>1. UNCHANGED machineVars \/ Retires
    BY <1>5 DEF ContinueWrite, WriteChunk, SyscallReturns, Retires
  <2>2. CASE UNCHANGED machineVars
    BY <2>2 DEF machineVars, Afterwards
  <2>3. CASE Retires
    <3>1. current # NoSpace /\ MachineOK
      BY <2>3, RetiresOK DEF MemInv
    <3>2. loader.phase = "loaded"
      BY <3>1 DEF MemInv, LoaderOK
    <3> QED
      BY <2>3, <3>1, <3>2, RetiresCount DEF Afterwards
  <2> QED
    BY <2>1, <2>2, <2>3
<1>6. CASE UNCHANGED vars
  BY <1>6 DEF vars, machineVars, Afterwards
<1> QED
  BY <1>2, <1>3, <1>4, <1>5, <1>6 DEF Next

LEMMA InMemorySays ==
  ASSUME LoaderOK, LoadedInv
  PROVE  ProgramLoaded
<1> SUFFICES ASSUME loader.phase = "loaded", total = 0, last.op = "none"
             PROVE  /\ \A i \in 1 .. Len(program.image.segs) :
                          \A j \in 0 .. program.image.segs[i].memsz - 1 :
                            /\ spaces[Home].mem[program.image.segs[i].vaddr + j]
                                 = IF j < program.image.segs[i].filesz THEN 1 ELSE 0
                            /\ protection_at(spaces[Home], PageOf(program.image.segs[i].vaddr + j))
                                 = program.image.segs[i].prot
                    /\ InMemory(spaces[Home], loader.stack, program)
  BY DEF ProgramLoaded, InMemory, Marked, Filled
<1>1. PICK s, q : s = spaces[Home] /\ q = program.image.segs
  OBVIOUS
<1>2. InMemory(spaces[Home], loader.stack, program)
  BY DEF LoadedInv
<1>3. q \in Seq(Segment)
  BY <1>1, ProgramAssumption DEF LoaderOK
<1>4. ASSUME NEW i \in 1 .. Len(q), NEW j \in 0 .. q[i].memsz - 1
      PROVE  /\ s.mem[q[i].vaddr + j] = IF j < q[i].filesz THEN 1 ELSE 0
             /\ protection_at(s, PageOf(q[i].vaddr + j)) = q[i].prot
  <2>1. PICK g, y : g = q[i] /\ y = q[i].vaddr + j
    OBVIOUS
  <2>2. g \in Segment /\ SegmentIn(s, g)
    BY <1>1, <1>2, <1>3, <2>1 DEF InMemory
  <2>3. g.vaddr \in Nat /\ g.memsz \in Nat /\ g.filesz \in Nat /\ j \in Nat /\ j < g.memsz /\ y = g.vaddr + j
    BY <2>1, <2>2 DEF Segment
  <2>4. y \in g.vaddr .. g.vaddr + g.memsz - 1 /\ (y < g.vaddr + g.filesz <=> j < g.filesz)
    BY <2>3
  <2>5. s.mem[y] = (IF y < g.vaddr + g.filesz THEN 1 ELSE 0) /\ protection_at(s, PageOf(y)) = g.prot
    BY <2>2, <2>4 DEF SegmentIn
  <2> QED
    BY <2>1, <2>4, <2>5
<1> QED
  BY <1>1, <1>2, <1>4

\* InMemory looks at the bytes and the protection only.
LEMMA SameInMemory ==
  ASSUME NEW s, NEW t, t.mem = s.mem, t.readmap = s.readmap, t.writemap = s.writemap,
         t.execmap = s.execmap, NEW st, NEW pr, InMemory(s, st, pr)
  PROVE  InMemory(t, st, pr)
<1>1. \A p : protection_at(t, p) = protection_at(s, p)
  BY DEF protection_at
<1>2. \A g : SegmentIn(s, g) => SegmentIn(t, g)
  BY <1>1 DEF SegmentIn
<1>3. ASSUME NEW a, NEW n, NEW x, Marked(s, a, n, x) PROVE Marked(t, a, n, x)
  BY <1>3 DEF Marked, Filled
<1> QED
  BY <1>2, <1>3 DEF InMemory

LoadingInv == MemInv /\ ImageInv /\ LoadedInv

LEMMA LoadingInit == Init => LoadingInv
<1>1. Init => LoadedInv
  BY DEF Init, LoadedInv
<1> QED
  BY <1>1, MemInvInit, ImageInvInit DEF LoadingInv

LEMMA LoadingNext ==
  ASSUME SegmentsApart, PageSize % 2 = 0, LoadingInv, [Next]_vars
  PROVE  LoadingInv'
<1>1. MemInv'
  BY MemInvNext DEF LoadingInv
<1>2. CASE Load
  BY <1>1, <1>2, LoadLoads DEF LoadingInv, MemInv
<1>3. CASE ~Load
  <2>1. Afterwards /\ program' = program /\ loader' = loader
    BY <1>3, NextAfter DEF LoadingInv
  <2>2. CASE UNCHANGED <<spaces, total, last>>
    <3>1. spaces'[Home] = spaces[Home] /\ total' = total /\ last' = last
      BY <2>2
    <3> QED
      BY <1>1, <2>1, <3>1 DEF LoadingInv, ImageInv, LoadedInv
  <2>3. CASE loader.phase = "loaded" /\ (total' # 0 \/ last'.op # "none")
    <3>1. ImageInv'
      BY <2>1, <2>3 DEF ImageInv, ImageOK
    <3>2. LoadedInv'
      BY <2>3 DEF LoadedInv
    <3> QED
      BY <1>1, <3>1, <3>2 DEF LoadingInv
  <2>4. CASE loader.phase = "loaded" /\ SameHome /\ UNCHANGED <<total, last>>
    <3>1. ImageInv'
      BY <2>1, <2>4 DEF ImageInv, ImageOK
    <3>2. LoadedInv'
      <4>1. SUFFICES ASSUME total = 0, last.op = "none" PROVE InMemory(spaces'[Home], loader.stack, program)
        BY <2>1, <2>4 DEF LoadedInv
      <4>2. InMemory(spaces[Home], loader.stack, program)
        BY <2>4, <4>1 DEF LoadingInv, LoadedInv
      <4> QED
        BY <2>4, <4>2, SameInMemory DEF SameHome
    <3> QED
      BY <1>1, <3>1, <3>2 DEF LoadingInv
  <2> QED
    BY <2>1, <2>2, <2>3, <2>4 DEF Afterwards
<1> QED
  BY <1>2, <1>3

(***************************************************************************)
(* x86sim-linux loads every static program whose segments lie apart, for   *)
(* every even page size, stack size, list of arguments and environment:    *)
(* when load_elf and setup_stack have returned, each segment is in memory  *)
(* with its bytes, zeroes and protection, and the strings, the random      *)
(* bytes and the block of words are intact, inside the stack, and rsp is   *)
(* aligned.  The unsigned distance that setup_stack tests may be that of a *)
(* negative difference; the unmapped page below the stack is what makes    *)
(* the copy of the random bytes fail first.                                *)
(***************************************************************************)
THEOREM LinuxProgramLoaded ==
  ASSUME SegmentsApart, PageSize % 2 = 0
  PROVE  Spec => []ProgramLoaded
<1>1. LoadingInv /\ [Next]_vars => LoadingInv'
  BY LoadingNext
<1>2. LoadingInv => ProgramLoaded
  BY InMemorySays DEF LoadingInv, MemInv
<1> QED
  BY <1>1, <1>2, LoadingInit, PTL DEF Spec
=============================================================================
