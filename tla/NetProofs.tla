------------------------------ MODULE NetProofs ------------------------------
(***************************************************************************)
(* Proofs about the network core, for every size of the tables, every set   *)
(* of ports and addresses, and every lifetime of an ARP entry: the types,   *)
(* the way of a TCP connection, and that the tables implement NetService.   *)
(*                                                                         *)
(* UDP: Listing is what a port has in the table, in the order of the table. *)
(* A loop that moves entries without changing their order (Carries) leaves  *)
(* it alone; an entry behind all others is listed last; the first one is    *)
(* what a receive takes.  The ring: Content reads it without modulo.  ARP:  *)
(* with one entry for each address the first one is the only one.  TCP:     *)
(* Onward is what TcpOneWay says of one connection.                         *)
(***************************************************************************)
EXTENDS Net, SlotLemmas

\* The data of the datagrams of table g at the places S, in the order of the table.
Listing(g, S) == [n \in 1 .. Cardinality(S) |-> g[Nth(S, n)].data]

\* It is a sequence.
LEMMA ListingSeq ==
    ASSUME NEW g, NEW S, S \subseteq Nat, IsFiniteSet(S)
    PROVE  /\ Cardinality(S) \in Nat
           /\ Listing(g, S) \in Seq({g[i].data : i \in S})
           /\ Len(Listing(g, S)) = Cardinality(S)
           /\ \A n \in 1 .. Cardinality(S) : Listing(g, S)[n] = g[Nth(S, n)].data
<1>1. Cardinality(S) \in Nat
  BY FS_CardinalityType
<1>2. \A n \in 1 .. Cardinality(S) : Nth(S, n) \in S
  BY NthPlace
<1>3. \A n \in 1 .. Cardinality(S) : g[Nth(S, n)].data \in {g[i].data : i \in S}
  BY <1>2
<1> QED BY <1>1, <1>3 DEF Listing

\* f takes the entries of table g at the places S to the places T of table h.
Carries(f, g, S, h, T) ==
    /\ S \subseteq Nat /\ IsFiniteSet(S) /\ T \subseteq Nat
    /\ Moves(f, S, T)
    /\ \A i \in S : h[f[i]] = g[i]

\* Datagrams that move without changing their order are listed as before: what
\* qos_net_udp_recv and udp_drop_port_datagrams do to the ones they keep.
LEMMA ListingMoved ==
    ASSUME NEW g, NEW h, NEW S, NEW T, NEW f, Carries(f, g, S, h, T)
    PROVE  Listing(h, T) = Listing(g, S)
<1>1. /\ Cardinality(T) = Cardinality(S)
      /\ \A n \in 1 .. Cardinality(S) : Nth(T, n) = f[Nth(S, n)]
  <2>1. S \subseteq Nat /\ IsFiniteSet(S) /\ T \subseteq Nat /\ Moves(f, S, T)
    BY DEF Carries
  <2> QED BY <2>1, NthMoved, Zenon
<1>2. \A n \in 1 .. Cardinality(S) : Nth(S, n) \in S
  BY NthPlace DEF Carries
<1>3. \A n \in 1 .. Cardinality(S) : h[Nth(T, n)].data = g[Nth(S, n)].data
  BY <1>1, <1>2 DEF Carries
<1> QED BY <1>1, <1>3 DEF Listing

\* A datagram behind all others of its port is listed last.
LEMMA ListingAppended ==
    ASSUME NEW g, NEW h, NEW S, S \subseteq Nat, IsFiniteSet(S), NEW m \in Nat,
           \A i \in S : i < m, \A i \in S : h[i] = g[i]
    PROVE  Listing(h, S \cup {m}) = Append(Listing(g, S), h[m].data)
<1> DEFINE T == S \cup {m}
           V == {g[i].data : i \in S} \cup {h[m].data}
           c == Cardinality(S)
           new == Append(Listing(g, S), h[m].data)
<1>1. /\ Cardinality(T) = c + 1 /\ \A n \in 1 .. c : Nth(T, n) = Nth(S, n)
      /\ Nth(T, c + 1) = m
  BY NthAppended
<1> HIDE DEF T
<1>2. \A n \in 1 .. c : Nth(S, n) \in S
  BY NthPlace
<1>3. c \in Nat /\ Len(Listing(g, S)) = c /\ Listing(g, S) \in Seq({g[i].data : i \in S})
  BY ListingSeq
<1>4. Listing(g, S) \in Seq(V) /\ h[m].data \in V
  BY <1>3
<1>4a. \A n \in 1 .. c : Listing(g, S)[n] = g[Nth(S, n)].data
  BY ListingSeq
<1> HIDE DEF V, c
<1>5. new \in Seq(V) /\ Len(new) = c + 1
  BY <1>3, <1>4
<1>6. new = [n \in 1 .. c + 1 |-> new[n]]
  BY <1>5, SeqOfPlaces
<1>7. \A n \in 1 .. c + 1 : new[n] = IF n = c + 1 THEN h[m].data ELSE Listing(g, S)[n]
  BY <1>3, <1>4
<1> HIDE DEF new
<1>8. \A n \in 1 .. c + 1 : new[n] = h[Nth(T, n)].data
  <2> TAKE n \in 1 .. c + 1
  <2>1. CASE n = c + 1
    BY <1>1, <1>7, <2>1
  <2>2. CASE n # c + 1
    <3>1. n \in 1 .. c
      BY <1>3, <2>2
    <3> QED BY <1>1, <1>2, <1>4a, <1>7, <2>2, <3>1
  <2> QED BY <2>1, <2>2
<1> QED BY <1>1, <1>6, <1>8 DEF Listing, T, new

\* Without its first datagram a port has the tail of its list.
LEMMA ListingRemoved ==
    ASSUME NEW g, NEW S, S \subseteq Nat, IsFiniteSet(S), NEW m \in S, \A i \in S : m <= i
    PROVE  Listing(g, S) # <<>> /\ Listing(g, S \ {m}) = Tail(Listing(g, S))
<1> DEFINE T == S \ {m}
           V == {g[i].data : i \in S}
           c == Cardinality(S)
           old == Listing(g, S)
<1>1. Cardinality(T) = c - 1 /\ \A n \in 1 .. Cardinality(T) : Nth(T, n) = Nth(S, n + 1)
  BY NthRemoved
<1> HIDE DEF T
<1>2. c \in Nat /\ Len(old) = c /\ old \in Seq(V)
      /\ \A n \in 1 .. c : old[n] = g[Nth(S, n)].data
  BY ListingSeq
<1>3. c # 0
  BY FS_EmptySet
<1> HIDE DEF V, c, old
<1>4. old # <<>>
  BY <1>2, <1>3
<1>5. Tail(old) \in Seq(V) /\ Len(Tail(old)) = c - 1
  BY <1>2, <1>3, <1>4
<1>6. Tail(old) = [n \in 1 .. c - 1 |-> Tail(old)[n]]
  BY <1>5, SeqOfPlaces
<1>7. \A n \in 1 .. c - 1 : Tail(old)[n] = old[n + 1]
  BY <1>2, <1>3, <1>4
<1>8. \A n \in 1 .. c - 1 : Tail(old)[n] = g[Nth(T, n)].data
  <2> TAKE n \in 1 .. c - 1
  <2>1. n + 1 \in 1 .. c
    BY <1>2
  <2> QED BY <1>1, <1>2, <1>7, <2>1
<1>9. Listing(g, T) = Tail(old)
  BY <1>1, <1>6, <1>8 DEF Listing
<1> QED BY <1>4, <1>9 DEF T, old
----------------------------------------------------------------------------
\* What the datagrams table holds, and the places of a port in table g.
Entries == Datagrams \cup {Hole}
PlacesOf(g, port) == {i \in DOMAIN g : g[i].dst_port = port}
OtherPlaces(g, port) == {i \in DOMAIN g : g[i].dst_port # port}

\* An entry is for a port or cleared.
LEMMA EntryPort == ASSUME NEW d \in Entries PROVE d.dst_port \in Ports \cup {0}
BY DEF Entries, Datagrams, Hole

\* The places of a table are finitely many numbers.
LEMMA FewPlaces ==
    ASSUME NEW g \in Seq(Entries), NEW T, T \subseteq DOMAIN g
    PROVE  T \subseteq Nat /\ T \subseteq 1 .. Len(g) /\ IsFiniteSet(T)
<1>1. T \subseteq 1 .. Len(g) /\ Len(g) \in Nat
  OBVIOUS
<1>2. IsFiniteSet(1 .. Len(g))
  BY <1>1, FS_Interval
<1> QED BY <1>1, <1>2, FS_Subset

\* Table g without its entry m.
Without(g, m) == [j \in 1 .. Len(g) - 1 |-> g[IF j < m THEN j ELSE j + 1]]

\* Table h has the datagrams of g but the one at m, every port in its order.
Received(g, m, h) ==
    /\ h \in Seq(Entries) /\ Len(h) = Len(g) - 1
    /\ \A j \in DOMAIN h : \E i \in DOMAIN g : h[j] = g[i]
    /\ \A q : Listing(h, PlacesOf(h, q)) = Listing(g, PlacesOf(g, q) \ {m})

\* qos_net_udp_recv takes one datagram out and moves the ones behind it up: every
\* port keeps the others in their order.
LEMMA RecvKeeps ==
    ASSUME NEW g \in Seq(Entries), NEW m \in 1 .. Len(g), NEW h,
           h = Without(g, m)
    PROVE  Received(g, m, h)
<1> DEFINE Back(j) == IF j < m THEN j ELSE j + 1
<1>1. Len(g) \in Nat /\ \A j \in 1 .. Len(g) - 1 : Back(j) \in 1 .. Len(g)
  OBVIOUS
<1>2. \A i \in 1 .. Len(g) : g[i] \in Entries
  OBVIOUS
<1>3. \A j \in 1 .. Len(g) - 1 : h[j] = g[Back(j)]
  BY DEF Without
<1>4. h \in Seq(Entries) /\ Len(h) = Len(g) - 1 /\ DOMAIN h = 1 .. Len(g) - 1
  <2>1. \A j \in 1 .. Len(g) - 1 : h[j] \in Entries
    BY <1>1, <1>2, <1>3
  <2>2. h = [j \in 1 .. Len(g) - 1 |-> h[j]]
    BY DEF Without
  <2>2a. h \in [1 .. Len(g) - 1 -> Entries]
    BY <2>1, <2>2, Zenon
  <2>3. Len(g) - 1 \in Nat
    BY <1>1
  <2> QED BY <2>2a, <2>3
<1>5. \A j \in DOMAIN h : \E i \in DOMAIN g : h[j] = g[i]
  BY <1>1, <1>3, <1>4
<1>6. ASSUME NEW q PROVE Listing(h, PlacesOf(h, q)) = Listing(g, PlacesOf(g, q) \ {m})
  <2> DEFINE S == PlacesOf(g, q) \ {m}
             T == PlacesOf(h, q)
             f == [i \in S |-> IF i < m THEN i ELSE i - 1]
  <2>1. S \subseteq DOMAIN g /\ T \subseteq DOMAIN h /\ DOMAIN g = 1 .. Len(g)
    BY DEF PlacesOf
  <2>2. S \subseteq Nat /\ IsFiniteSet(S) /\ T \subseteq Nat
    BY <1>4, <2>1, FewPlaces
  <2>3. \A i \in S : /\ i \in 1 .. Len(g) /\ i # m /\ g[i].dst_port = q
                     /\ f[i] \in 1 .. Len(g) - 1 /\ Back(f[i]) = i
    <3> TAKE i \in S
    <3>1. i \in 1 .. Len(g) /\ i # m /\ g[i].dst_port = q
      BY <2>1 DEF PlacesOf
    <3>2. PICK k : k = f[i]
      OBVIOUS
    <3>3. k = IF i < m THEN i ELSE i - 1
      BY <3>2
    <3>4. k \in 1 .. Len(g) - 1 /\ Back(k) = i
      BY <1>1, <3>1, <3>3
    <3> QED BY <3>1, <3>2, <3>4
  <2>4. \A i \in S : f[i] \in T
    <3> TAKE i \in S
    <3>1. PICK k : k = f[i]
      OBVIOUS
    <3>2. k \in 1 .. Len(g) - 1 /\ Back(k) = i /\ g[i].dst_port = q
      BY <2>3, <3>1
    <3>3. k \in 1 .. Len(h) /\ h[k] = g[i]
      BY <1>3, <1>4, <3>2
    <3>4. k \in T
      BY <3>2, <3>3 DEF PlacesOf
    <3> QED BY <3>1, <3>4
  <2>4a. \A i \in S : h[f[i]] = g[i]
    BY <1>3, <1>4, <2>3
  <2>5. \A i, j \in S : i < j => f[i] < f[j]
    BY <1>1, <2>3
  <2>6. \A t \in T : \E i \in S : f[i] = t
    <3> TAKE t \in T
    <3>1. t \in 1 .. Len(g) - 1 /\ h[t].dst_port = q
      BY <1>4 DEF PlacesOf
    <3>2. Back(t) \in 1 .. Len(g) /\ Back(t) # m /\ g[Back(t)].dst_port = q
      BY <1>1, <1>3, <3>1
    <3>3. Back(t) \in S
      BY <2>1, <3>2 DEF PlacesOf
    <3>4. f[Back(t)] = t
      BY <1>1, <3>1, <3>3
    <3> QED BY <3>3, <3>4
  <2>7. Moves(f, S, T)
    <3>1. f \in [S -> T]
      BY <2>4
    <3> HIDE DEF f, S, T
    <3> QED BY <2>5, <2>6, <3>1 DEF Moves
  <2> HIDE DEF f, S, T
  <2>7a. Carries(f, g, S, h, T)
    BY <2>2, <2>4a, <2>7 DEF Carries
  <2>8. Listing(h, T) = Listing(g, S)
    BY <2>7a, ListingMoved
  <2> QED BY <2>8 DEF S, T
<1> QED BY <1>4, <1>5, <1>6 DEF Received

\* The places udp_drop_port_datagrams keeps are no more than the table has.
LEMMA KeptFew ==
    ASSUME NEW g \in Seq(Entries), NEW K, K \subseteq DOMAIN g
    PROVE  /\ K \subseteq Nat /\ K \subseteq 1 .. Len(g) /\ IsFiniteSet(K)
           /\ Cardinality(K) \in Nat /\ Cardinality(K) <= Len(g)
           /\ \A n \in 1 .. Cardinality(K) : Nth(K, n) \in K /\ RankIn(K, Nth(K, n)) = n
           /\ \A i \in K : RankIn(K, i) \in 1 .. Cardinality(K) /\ Nth(K, RankIn(K, i)) = i
           /\ \A i, j \in K : i < j => RankIn(K, i) < RankIn(K, j)
<1>1. K \subseteq Nat /\ K \subseteq 1 .. Len(g) /\ IsFiniteSet(K) /\ Len(g) \in Nat
  BY FewPlaces
<1>2. IsFiniteSet(1 .. Len(g)) /\ Cardinality(1 .. Len(g)) = Len(g)
  <2>1. PICK n \in Nat : n = Len(g)
    OBVIOUS
  <2>2. IsFiniteSet(1 .. n) /\ Cardinality(1 .. n) = n
    BY FS_Interval
  <2> QED BY <2>1, <2>2
<1>3. Cardinality(K) <= Cardinality(1 .. Len(g))
  BY <1>1, <1>2, FS_Subset
<1>4. /\ \A n \in 1 .. Cardinality(K) : Nth(K, n) \in K /\ RankIn(K, Nth(K, n)) = n
      /\ \A i \in K : Nth(K, RankIn(K, i)) = i
  BY <1>1, NthPlace
<1>5. /\ Cardinality(K) \in Nat /\ \A i \in K : RankIn(K, i) \in 1 .. Cardinality(K)
      /\ \A i, j \in K : i < j => RankIn(K, i) < RankIn(K, j)
  BY <1>1, RankBounds
<1> QED BY <1>1, <1>2, <1>3, <1>4, <1>5

\* Table h is g with the entries at the places K moved to the front.
Compacted(g, K, h) ==
    /\ h \in Seq(Entries) /\ Len(h) = Len(g)
    /\ \A j \in 1 .. Cardinality(K) : h[j] = g[Nth(K, j)]
    /\ \A j \in 1 .. Len(g) : j \notin 1 .. Cardinality(K) => h[j] = Hole

\* Its two loops write every entry up to g_udp_count: kept ones, then cleared ones.
LEMMA DropShape ==
    ASSUME NEW g \in Seq(Entries), NEW K, K \subseteq DOMAIN g, NEW h,
           h = [i \in DOMAIN g |-> IF i <= Cardinality(K) THEN g[Nth(K, i)] ELSE Hole]
    PROVE  Compacted(g, K, h)
<1>1. PICK c : c = Cardinality(K)
  OBVIOUS
<1>2. /\ K \subseteq 1 .. Len(g) /\ c \in Nat /\ c <= Len(g)
      /\ \A n \in 1 .. c : Nth(K, n) \in K
  BY <1>1, KeptFew
<1>3. DOMAIN g = 1 .. Len(g) /\ Len(g) \in Nat /\ \A i \in 1 .. Len(g) : g[i] \in Entries
  OBVIOUS
<1>4. /\ \A j \in 1 .. c : h[j] = g[Nth(K, j)]
      /\ \A j \in 1 .. Len(g) : j \notin 1 .. c => h[j] = Hole
  <2>1. \A j \in 1 .. Len(g) : h[j] = IF j <= c THEN g[Nth(K, j)] ELSE Hole
    BY <1>1, <1>3
  <2> QED BY <1>2, <1>3, <2>1
<1>5. \A j \in 1 .. Len(g) : h[j] \in Entries
  BY <1>2, <1>3, <1>4 DEF Entries
<1>6. h \in [1 .. Len(g) -> Entries]
  BY <1>3, <1>5
<1>7. h \in Seq(Entries) /\ Len(h) = Len(g)
  BY <1>3, <1>6
<1> QED BY <1>1, <1>4, <1>7 DEF Compacted

\* udp_drop_port_datagrams: every other port keeps its datagrams in their order,
\* the one that is closed has none left.
LEMMA DropKeeps ==
    ASSUME NEW g \in Seq(Entries), NEW port \in Ports, NEW K, K = OtherPlaces(g, port),
           NEW h, Compacted(g, K, h)
    PROVE  /\ \A j \in DOMAIN h : h[j] = Hole \/ \E i \in K : h[j] = g[i]
           /\ PlacesOf(h, port) = {}
           /\ \A q \in Ports \ {port} :
                 Listing(h, PlacesOf(h, q)) = Listing(g, PlacesOf(g, q))
<1>0. PICK c : c = Cardinality(K)
  OBVIOUS
<1>0a. K \subseteq DOMAIN g
  BY DEF OtherPlaces
<1>1. /\ DOMAIN g = 1 .. Len(g) /\ Len(g) \in Nat /\ DOMAIN h = 1 .. Len(g)
      /\ h \in Seq(Entries)
  BY DEF Compacted
<1>2. K \subseteq Nat /\ K \subseteq 1 .. Len(g) /\ c \in Nat /\ c <= Len(g)
  BY <1>0, <1>0a, KeptFew
<1>4. \A n \in 1 .. c : Nth(K, n) \in K /\ RankIn(K, Nth(K, n)) = n
  BY <1>0, <1>0a, KeptFew
<1>5. /\ \A i \in K : RankIn(K, i) \in 1 .. c /\ Nth(K, RankIn(K, i)) = i
      /\ \A i, j \in K : i < j => RankIn(K, i) < RankIn(K, j)
  BY <1>0, <1>0a, KeptFew
<1>6. /\ \A j \in 1 .. c : h[j] = g[Nth(K, j)]
      /\ \A j \in 1 .. Len(g) : j \notin 1 .. c => h[j] = Hole
  BY <1>0 DEF Compacted
<1>7. \A j \in 1 .. Len(g) : h[j] = Hole \/ \E i \in K : h[j] = g[i]
  BY <1>4, <1>6
<1>9. Hole.dst_port = 0 /\ 0 \notin Ports
  BY NetAssumption DEF Hole
<1>10. PlacesOf(h, port) = {}
  BY <1>1, <1>7, <1>9 DEF PlacesOf, OtherPlaces
<1>11. ASSUME NEW q \in Ports \ {port}
       PROVE  Listing(h, PlacesOf(h, q)) = Listing(g, PlacesOf(g, q))
  <2> DEFINE S == PlacesOf(g, q)
             T == PlacesOf(h, q)
             f == [i \in S |-> RankIn(K, i)]
  <2>1. S \subseteq DOMAIN g /\ T \subseteq DOMAIN h /\ S \subseteq K
    BY DEF PlacesOf, OtherPlaces
  <2>2. S \subseteq Nat /\ IsFiniteSet(S) /\ T \subseteq Nat
    BY <1>1, <2>1, FewPlaces
  <2>3. \A i \in S : f[i] \in 1 .. c /\ h[f[i]] = g[i] /\ g[i].dst_port = q
    BY <1>5, <1>6, <2>1 DEF PlacesOf
  <2>3a. \A i \in S : h[f[i]] = g[i]
    BY <2>3
  <2>4. \A i \in S : f[i] \in T
    <3>1. 1 .. c \subseteq 1 .. Len(g)
      BY <1>1, <1>2
    <3> QED BY <1>1, <2>3, <3>1 DEF PlacesOf
  <2>5. \A i, j \in S : i < j => f[i] < f[j]
    BY <1>5, <2>1
  <2>6. \A t \in T : \E i \in S : f[i] = t
    <3> TAKE t \in T
    <3>1. t \in 1 .. Len(g) /\ h[t].dst_port = q /\ q # 0
      BY <1>1, <1>9 DEF PlacesOf
    <3>2. t \in 1 .. c
      BY <1>6, <1>9, <3>1
    <3>3. Nth(K, t) \in K /\ g[Nth(K, t)].dst_port = q /\ RankIn(K, Nth(K, t)) = t
      BY <1>4, <1>6, <3>1, <3>2
    <3>4. Nth(K, t) \in S
      BY <1>1, <1>2, <3>3 DEF PlacesOf
    <3> QED BY <3>3, <3>4
  <2>7. Moves(f, S, T)
    <3>1. f \in [S -> T]
      BY <2>4
    <3> HIDE DEF f, S, T
    <3> QED BY <2>5, <2>6, <3>1 DEF Moves
  <2> HIDE DEF f, S, T
  <2>7a. Carries(f, g, S, h, T)
    BY <2>2, <2>3a, <2>7 DEF Carries
  <2>8. Listing(h, T) = Listing(g, S)
    BY <2>7a, ListingMoved
  <2> QED BY <2>8 DEF S, T
<1> QED BY <1>1, <1>7, <1>10, <1>11
----------------------------------------------------------------------------
\* The inductive invariant of UDP: what waits is for a bound port or cleared.
UdpInv ==
    /\ g_udp_ports \subseteq Ports /\ IsFiniteSet(g_udp_ports)
    /\ Cardinality(g_udp_ports) <= UdpPortMax
    /\ g_udp_datagrams \in Seq(Entries) /\ Len(g_udp_datagrams) <= UdpMaxDatagrams
    /\ \A i \in DOMAIN g_udp_datagrams :
          g_udp_datagrams[i].dst_port \in g_udp_ports \cup {0}

\* A port without datagrams lists none.
LEMMA ListingEmpty == ASSUME NEW g PROVE Listing(g, {}) = <<>>
<1>1. IsFiniteSet({}) /\ Cardinality({}) = 0
  BY FS_EmptySet
<1>2. Listing(g, {}) \in Seq({g[i].data : i \in {}}) /\ Len(Listing(g, {})) = 0
  BY <1>1, ListingSeq
<1> QED BY <1>2

\* A mailbox is the listing of the places of its port.
LEMMA InboxIsListing ==
    ASSUME NEW port
    PROVE  /\ Inbox(port) = Listing(g_udp_datagrams, PlacesOf(g_udp_datagrams, port))
           /\ Inbox(port)' = Listing(g_udp_datagrams', PlacesOf(g_udp_datagrams', port))
BY DEF Inbox, For, Listing, PlacesOf

\* qos_net_udp_bind: the port that is opened has nothing waiting, because the last
\* qos_net_udp_unbind cleared what was sent to its earlier owner.
LEMMA BindStep ==
    ASSUME UdpInv, NEW port \in Ports, UdpBind(port)
    PROVE  /\ UdpInv'
           /\ Inbox(port) = <<>>
           /\ port \notin g_udp_ports /\ g_udp_ports' = g_udp_ports \cup {port}
           /\ \A q \in Ports : Inbox(q)' = Inbox(q)
<1>1. /\ port \notin g_udp_ports /\ g_udp_ports' = g_udp_ports \cup {port}
      /\ g_udp_datagrams' = g_udp_datagrams /\ Cardinality(g_udp_ports) < UdpPortMax
  BY DEF UdpBind, UdpMayBind
<1>2. PlacesOf(g_udp_datagrams, port) = {}
  BY <1>1, NetAssumption DEF UdpInv, PlacesOf
<1>3. Inbox(port) = <<>>
  BY <1>2, InboxIsListing, ListingEmpty
<1>4. \A q \in Ports : Inbox(q)' = Inbox(q)
  BY <1>1, InboxIsListing
<1>5. IsFiniteSet(g_udp_ports') /\ Cardinality(g_udp_ports') = Cardinality(g_udp_ports) + 1
  BY <1>1, FS_AddElement DEF UdpInv
<1>6. Cardinality(g_udp_ports') <= UdpPortMax
  BY <1>1, <1>5, FS_CardinalityType, NetAssumption DEF UdpInv
<1>7. UdpInv'
  BY <1>1, <1>5, <1>6 DEF UdpInv
<1> QED BY <1>1, <1>3, <1>4, <1>7

\* qos_net_udp_unbind empties the mailbox of the port and no other.
LEMMA UnbindStep ==
    ASSUME UdpInv, NEW port \in Ports, UdpUnbind(port)
    PROVE  /\ UdpInv'
           /\ Inbox(port)' = <<>>
           /\ port \in g_udp_ports /\ g_udp_ports' = g_udp_ports \ {port}
           /\ \A q \in Ports \ {port} : Inbox(q)' = Inbox(q)
<1> DEFINE K == OtherPlaces(g_udp_datagrams, port)
<1>1. port \in g_udp_ports /\ g_udp_ports' = g_udp_ports \ {port}
  BY DEF UdpUnbind
<1>2. K \subseteq DOMAIN g_udp_datagrams /\ g_udp_datagrams \in Seq(Entries)
  BY DEF UdpInv, OtherPlaces
<1>3. g_udp_datagrams' = [i \in DOMAIN g_udp_datagrams |->
          IF i <= Cardinality(K) THEN g_udp_datagrams[Nth(K, i)] ELSE Hole]
  BY DEF UdpUnbind, DropDatagrams, Kept, OtherPlaces
<1> HIDE DEF K
<1>4. Compacted(g_udp_datagrams, K, g_udp_datagrams')
  BY <1>2, <1>3, DropShape
<1>5. /\ \A j \in DOMAIN g_udp_datagrams' :
            g_udp_datagrams'[j] = Hole \/ \E i \in K : g_udp_datagrams'[j] = g_udp_datagrams[i]
      /\ PlacesOf(g_udp_datagrams', port) = {}
      /\ \A q \in Ports \ {port} :
            Listing(g_udp_datagrams', PlacesOf(g_udp_datagrams', q))
               = Listing(g_udp_datagrams, PlacesOf(g_udp_datagrams, q))
  BY <1>2, <1>4, DropKeeps DEF K
<1>6. Inbox(port)' = <<>>
  BY <1>5, InboxIsListing, ListingEmpty
<1>7. \A q \in Ports \ {port} : Inbox(q)' = Inbox(q)
  BY <1>5, InboxIsListing
<1>8. IsFiniteSet(g_udp_ports') /\ Cardinality(g_udp_ports') <= UdpPortMax
  <2>1. IsFiniteSet(g_udp_ports') /\ Cardinality(g_udp_ports') <= Cardinality(g_udp_ports)
    BY <1>1, FS_Subset DEF UdpInv
  <2>2. Cardinality(g_udp_ports) \in Nat /\ Cardinality(g_udp_ports') \in Nat
    BY <2>1, FS_CardinalityType DEF UdpInv
  <2> QED BY <2>1, <2>2, NetAssumption DEF UdpInv
<1>9. g_udp_datagrams' \in Seq(Entries) /\ Len(g_udp_datagrams') <= UdpMaxDatagrams
  BY <1>4 DEF Compacted, UdpInv
<1>10. \A j \in DOMAIN g_udp_datagrams' : g_udp_datagrams'[j].dst_port \in g_udp_ports' \cup {0}
  <2> TAKE j \in DOMAIN g_udp_datagrams'
  <2>1. CASE g_udp_datagrams'[j] = Hole
    BY <2>1 DEF Hole
  <2>2. CASE \E i \in K : g_udp_datagrams'[j] = g_udp_datagrams[i]
    BY <1>1, <2>2 DEF K, OtherPlaces, UdpInv
  <2> QED BY <1>5, <2>1, <2>2
<1>11. UdpInv'
  BY <1>1, <1>8, <1>9, <1>10 DEF UdpInv
<1> QED BY <1>1, <1>6, <1>7, <1>11

\* qos_net_udp_send to this machine puts the datagram last in its mailbox.
LEMMA SendStep ==
    ASSUME UdpInv, NEW port \in Ports, NEW data \in Data, UdpSend(port, data)
    PROVE  /\ UdpInv'
           /\ port \in g_udp_ports /\ g_udp_ports' = g_udp_ports
           /\ Inbox(port)' = Append(Inbox(port), data)
           /\ \A q \in Ports \ {port} : Inbox(q)' = Inbox(q)
<1>1. PICK g \in Seq(Entries) : g = g_udp_datagrams
  BY DEF UdpInv
<1>2. PICK d \in Entries : d = [dst_port |-> port, data |-> data]
  BY DEF Entries, Datagrams
<1>3. d.dst_port = port /\ d.data = data
  BY <1>2
<1>4. PICK h : h = Append(g, d)
  OBVIOUS
<1>5. PICK m \in Nat : m = Len(g) + 1
  OBVIOUS
<1>6. /\ port \in g_udp_ports /\ g_udp_ports' = g_udp_ports /\ Len(g) < UdpMaxDatagrams
      /\ g_udp_datagrams' = h
  BY <1>1, <1>2, <1>4 DEF UdpSend, UdpMaySend
<1>7. /\ h \in Seq(Entries) /\ Len(h) = m /\ DOMAIN h = 1 .. m /\ DOMAIN g = 1 .. m - 1
      /\ h[m] = d /\ \A i \in 1 .. m - 1 : h[i] = g[i]
  BY <1>4, <1>5
<1>8. PlacesOf(h, port) = PlacesOf(g, port) \cup {m}
  BY <1>3, <1>5, <1>7 DEF PlacesOf
<1>9. \A q \in Ports \ {port} : PlacesOf(h, q) = PlacesOf(g, q)
  BY <1>3, <1>5, <1>7 DEF PlacesOf
<1>10. \A q : /\ PlacesOf(g, q) \subseteq Nat /\ IsFiniteSet(PlacesOf(g, q))
              /\ \A i \in PlacesOf(g, q) : i < m
              /\ \A i \in PlacesOf(g, q) : h[i] = g[i]
  <2> TAKE q
  <2>1. PlacesOf(g, q) \subseteq DOMAIN g
    BY DEF PlacesOf
  <2>2. PlacesOf(g, q) \subseteq 1 .. m - 1 /\ IsFiniteSet(PlacesOf(g, q))
    BY <1>7, <2>1, FewPlaces
  <2> QED BY <1>7, <2>2
<1>11. Listing(h, PlacesOf(h, port)) = Append(Listing(g, PlacesOf(g, port)), data)
  BY <1>3, <1>7, <1>8, <1>10, ListingAppended
<1>12. \A q \in Ports \ {port} : Listing(h, PlacesOf(h, q)) = Listing(g, PlacesOf(g, q))
  <2> TAKE q \in Ports \ {port}
  <2>1. \A n \in 1 .. Cardinality(PlacesOf(g, q)) : Nth(PlacesOf(g, q), n) \in PlacesOf(g, q)
    BY <1>10, NthPlace
  <2> QED BY <1>9, <1>10, <2>1 DEF Listing
<1>13. Inbox(port)' = Append(Inbox(port), data)
  BY <1>1, <1>6, <1>11, InboxIsListing
<1>14. \A q \in Ports \ {port} : Inbox(q)' = Inbox(q)
  BY <1>1, <1>6, <1>12, InboxIsListing
<1>15. Len(h) <= UdpMaxDatagrams
  BY <1>5, <1>6, <1>7, NetAssumption
<1>16. \A i \in DOMAIN h : h[i].dst_port \in g_udp_ports \cup {0}
  BY <1>1, <1>3, <1>5, <1>6, <1>7 DEF UdpInv
<1>17. UdpInv'
  BY <1>6, <1>7, <1>15, <1>16 DEF UdpInv
<1> QED BY <1>6, <1>13, <1>14, <1>17

\* qos_net_udp_recv takes the first datagram of its mailbox.
LEMMA RecvStep ==
    ASSUME UdpInv, NEW port \in Ports, UdpRecv(port)
    PROVE  /\ UdpInv'
           /\ g_udp_ports' = g_udp_ports
           /\ Inbox(port) # <<>> /\ Inbox(port)' = Tail(Inbox(port))
           /\ \A q \in Ports \ {port} : Inbox(q)' = Inbox(q)
<1>1. PICK g \in Seq(Entries) : g = g_udp_datagrams
  BY DEF UdpInv
<1>2. PICK m : m = Min(For(port))
  OBVIOUS
<1>3. /\ For(port) = PlacesOf(g, port) /\ For(port) # {} /\ g_udp_ports' = g_udp_ports
      /\ g_udp_datagrams' = Without(g, m)
  BY <1>1, <1>2 DEF UdpRecv, MovedUp, For, PlacesOf, Without
<1>4. PICK h : h = g_udp_datagrams'
  OBVIOUS
<1>5. \A q : PlacesOf(g, q) \subseteq DOMAIN g
  BY DEF PlacesOf
<1>6. \A q : PlacesOf(g, q) \subseteq Nat /\ IsFiniteSet(PlacesOf(g, q))
  BY <1>5, FewPlaces
<1>7. m \in PlacesOf(g, port) /\ \A i \in PlacesOf(g, port) : m <= i
  <2>1. \E x \in For(port) : \A y \in For(port) : x <= y
    BY <1>3, <1>6, LeastSlot
  <2> QED BY <1>2, <1>3, <2>1 DEF Min
<1>8. m \in 1 .. Len(g)
  BY <1>5, <1>7
<1>9. /\ h \in Seq(Entries) /\ Len(h) = Len(g) - 1
      /\ \A j \in DOMAIN h : \E i \in DOMAIN g : h[j] = g[i]
      /\ \A q : Listing(h, PlacesOf(h, q)) = Listing(g, PlacesOf(g, q) \ {m})
  <2>1. h = Without(g, m)
    BY <1>3, <1>4
  <2>2. Received(g, m, h)
    BY <1>8, <2>1, RecvKeeps
  <2> QED BY <2>2 DEF Received
<1>10. /\ Listing(g, PlacesOf(g, port)) # <<>>
       /\ Listing(g, PlacesOf(g, port) \ {m}) = Tail(Listing(g, PlacesOf(g, port)))
  BY <1>6, <1>7, ListingRemoved
<1>11. \A q \in Ports \ {port} : PlacesOf(g, q) \ {m} = PlacesOf(g, q)
  BY <1>7 DEF PlacesOf
<1>12. Inbox(port) # <<>> /\ Inbox(port)' = Tail(Inbox(port))
  BY <1>1, <1>4, <1>9, <1>10, InboxIsListing
<1>13. \A q \in Ports \ {port} : Inbox(q)' = Inbox(q)
  BY <1>1, <1>4, <1>9, <1>11, InboxIsListing
<1>14. Len(h) <= UdpMaxDatagrams
  BY <1>1, <1>8, <1>9, NetAssumption DEF UdpInv
<1>15. \A j \in DOMAIN h : h[j].dst_port \in g_udp_ports \cup {0}
  BY <1>1, <1>9 DEF UdpInv
<1>16. UdpInv'
  BY <1>3, <1>4, <1>9, <1>14, <1>15 DEF UdpInv
<1> QED BY <1>3, <1>12, <1>13, <1>16
----------------------------------------------------------------------------
\* The tail of the ring is where its count says.
RingInv == RingTypeOK /\ g_tail = (g_head + g_count) % MaxQueue

\* The place of the ring that is i behind h, without modulo.
Behind(h, i) == IF h + i < MaxQueue THEN h + i ELSE h + i - MaxQueue

\* The modulo of the ring's indices wraps at most once.
LEMMA PlaceBehind ==
    ASSUME NEW h \in Places, NEW i \in 0 .. MaxQueue
    PROVE  (h + i) % MaxQueue = Behind(h, i) /\ Behind(h, i) \in Places
<1>1. /\ MaxQueue \in Nat \ {0} /\ h \in Nat /\ h < MaxQueue
      /\ i \in Nat /\ i <= MaxQueue
  BY NetAssumption DEF Places
<1>2. (h + i) % MaxQueue = IF h + i < MaxQueue THEN h + i ELSE h + i - MaxQueue
  BY <1>1, WrapOnce
<1> QED BY <1>1, <1>2 DEF Behind, Places

\* The c packets of ring r from place h on.
Content(r, h, c) == [i \in 1 .. c |-> r[Behind(h, i - 1)]]

\* The packets are a sequence of c.
LEMMA ContentSeq ==
    ASSUME NEW r \in [Places -> Packets \cup {NoPacket}], NEW h \in Places,
           NEW c \in 0 .. MaxQueue
    PROVE  /\ Content(r, h, c) \in Seq(Packets \cup {NoPacket}) /\ Len(Content(r, h, c)) = c
           /\ \A i \in 1 .. c : Content(r, h, c)[i] = r[Behind(h, i - 1)]
<1>1. c \in Nat /\ \A i \in 1 .. c : i - 1 \in 0 .. MaxQueue
  BY NetAssumption
<1>2. \A i \in 1 .. c : r[Behind(h, i - 1)] \in Packets \cup {NoPacket}
  BY <1>1, PlaceBehind
<1> QED BY <1>1, <1>2 DEF Content

\* Waiting as the code walks the ring, with modulo.
Walk(r, h, c) == [i \in 1 .. c |-> r[(h + i - 1) % MaxQueue]]

\* Both ways to read the ring agree.
LEMMA WalkIsContent ==
    ASSUME NEW r, NEW h \in Places, NEW c \in 0 .. MaxQueue
    PROVE  Walk(r, h, c) = Content(r, h, c)
<1>1. c \in Nat /\ c <= MaxQueue /\ MaxQueue \in Nat
  BY NetAssumption
<1>2. \A i \in 1 .. c : (h + i - 1) % MaxQueue = Behind(h, i - 1)
  <2> TAKE i \in 1 .. c
  <2>1. i - 1 \in 0 .. MaxQueue /\ h + i - 1 = h + (i - 1)
    BY <1>1 DEF Places
  <2> QED BY <1>1, <2>1, PlaceBehind
<1> QED BY <1>2 DEF Walk, Content

\* Waiting is the walk from g_head, before and after a step.
LEMMA WaitingIsWalk ==
    /\ Waiting = Walk(g_packets, g_head, g_count)
    /\ Waiting' = Walk(g_packets', g_head', g_count')
BY DEF Waiting, Walk

\* qos_net_enqueue_packet writes behind the last packet and touches none that waits.
LEMMA EnqueueStep ==
    ASSUME RingInv, NEW packet \in Packets, EnqueuePacket(packet)
    PROVE  RingInv' /\ Waiting' = Append(Waiting, packet)
<1> DEFINE V == Packets \cup {NoPacket}
<1>1. PICK N \in Nat \ {0} : N = MaxQueue
  BY NetAssumption
<1>2. PICK r \in [Places -> V], h \in Places, c \in 0 .. MaxQueue :
         r = g_packets /\ h = g_head /\ c = g_count
  BY DEF RingInv, RingTypeOK
<1>3. /\ c < N /\ c \in Nat /\ h \in Nat /\ h < N
      /\ c + 1 \in 0 .. MaxQueue /\ Places = 0 .. N - 1
  BY <1>1, <1>2 DEF EnqueuePacket, Places
<1>4. PICK t \in Places : t = g_tail /\ t = Behind(h, c)
  BY <1>2, PlaceBehind DEF RingInv
<1>5. PICK s : s = [r EXCEPT ![t] = packet]
  OBVIOUS
<1>6. /\ s \in [Places -> V] /\ s[t] = packet /\ \A p \in Places : p # t => s[p] = r[p]
  BY <1>5
<1>7. g_packets' = s /\ g_tail' = (t + 1) % MaxQueue /\ g_count' = c + 1 /\ g_head' = h
  BY <1>2, <1>4, <1>5 DEF EnqueuePacket
<1>8. g_tail' = (h + (c + 1)) % MaxQueue
  <2>1. 1 \in 0 .. MaxQueue
    BY <1>1
  <2>2. (t + 1) % MaxQueue = Behind(t, 1) /\ (h + (c + 1)) % MaxQueue = Behind(h, c + 1)
    BY <1>3, <2>1, PlaceBehind
  <2>3. Behind(t, 1) = Behind(h, c + 1)
    BY <1>1, <1>3, <1>4 DEF Behind
  <2> QED BY <1>7, <2>2, <2>3
<1>9. g_tail' \in Places
  BY <1>3, <1>8, PlaceBehind
<1>10. RingInv'
  BY <1>3, <1>6, <1>7, <1>8, <1>9 DEF RingInv, RingTypeOK
<1>11. \A i \in 1 .. c : Behind(h, i - 1) \in Places /\ Behind(h, i - 1) # t
  BY <1>1, <1>3, <1>4 DEF Behind
<1>12. PICK q \in Seq(V) : q = Content(r, h, c) /\ Len(q) = c
                           /\ \A i \in 1 .. c : q[i] = r[Behind(h, i - 1)]
  BY ContentSeq
<1>13. PICK a : a = Append(q, packet)
  OBVIOUS
<1>14. a \in Seq(V) /\ Len(a) = c + 1
  BY <1>12, <1>13
<1>15. \A i \in 1 .. c + 1 : a[i] = IF i = c + 1 THEN packet ELSE q[i]
  BY <1>3, <1>12, <1>13
<1>16. \A i \in 1 .. c + 1 : a[i] = s[Behind(h, i - 1)]
  <2> TAKE i \in 1 .. c + 1
  <2>1. CASE i = c + 1
    <3>1. i - 1 = c
      BY <1>3, <2>1
    <3> QED BY <1>4, <1>6, <1>15, <2>1, <3>1
  <2>2. CASE i # c + 1
    <3>1. i \in 1 .. c
      BY <1>3, <2>2
    <3> QED BY <1>6, <1>11, <1>12, <1>15, <2>2, <3>1
  <2> QED BY <2>1, <2>2
<1>17. a = [i \in 1 .. c + 1 |-> a[i]]
  BY <1>14, SeqOfPlaces
<1>18. a = Content(s, h, c + 1)
  BY <1>16, <1>17 DEF Content
<1>19. Waiting = q
  BY <1>2, <1>12, WaitingIsWalk, WalkIsContent
<1>20. Waiting' = Content(s, h, c + 1)
  BY <1>3, <1>7, WaitingIsWalk, WalkIsContent
<1> QED BY <1>10, <1>13, <1>18, <1>19, <1>20

\* qos_net_dequeue_packet takes the first packet.
LEMMA DequeueStep ==
    ASSUME RingInv, DequeuePacket
    PROVE  RingInv' /\ Waiting # <<>> /\ Waiting' = Tail(Waiting)
<1> DEFINE V == Packets \cup {NoPacket}
<1>1. PICK N \in Nat \ {0} : N = MaxQueue
  BY NetAssumption
<1>2. PICK r \in [Places -> V], h \in Places, c \in 0 .. MaxQueue :
         r = g_packets /\ h = g_head /\ c = g_count
  BY DEF RingInv, RingTypeOK
<1>3. /\ c > 0 /\ c \in Nat /\ c <= N /\ h \in Nat /\ h < N
      /\ c - 1 \in 0 .. MaxQueue /\ Places = 0 .. N - 1 /\ 1 \in 0 .. MaxQueue
  BY <1>1, <1>2 DEF DequeuePacket, Places
<1>4. PICK k \in Places : k = (h + 1) % MaxQueue /\ k = Behind(h, 1)
  BY <1>3, PlaceBehind
<1>5. /\ g_packets' = r /\ g_tail' = g_tail /\ g_count' = c - 1 /\ g_head' = k
      /\ g_tail = (h + c) % MaxQueue /\ g_tail \in Places
  BY <1>2, <1>4 DEF DequeuePacket, RingInv, RingTypeOK
<1>6. \A i \in 0 .. c - 1 : Behind(k, i) = Behind(h, i + 1)
  BY <1>1, <1>3, <1>4 DEF Behind
<1>7. g_tail' = (k + (c - 1)) % MaxQueue
  <2>1. (k + (c - 1)) % MaxQueue = Behind(k, c - 1) /\ (h + c) % MaxQueue = Behind(h, c)
    BY <1>3, PlaceBehind
  <2>2. c - 1 \in 0 .. c - 1 /\ (c - 1) + 1 = c
    BY <1>3
  <2> QED BY <1>5, <1>6, <2>1, <2>2
<1>8. RingInv'
  BY <1>3, <1>5, <1>7 DEF RingInv, RingTypeOK
<1>9. PICK q \in Seq(V) : q = Content(r, h, c) /\ Len(q) = c
                          /\ \A i \in 1 .. c : q[i] = r[Behind(h, i - 1)]
  BY ContentSeq
<1>10. q # <<>>
  BY <1>3, <1>9
<1>11. Tail(q) \in Seq(V) /\ Len(Tail(q)) = c - 1 /\ \A i \in 1 .. c - 1 : Tail(q)[i] = q[i + 1]
  BY <1>3, <1>9, <1>10
<1>12. \A i \in 1 .. c - 1 : Tail(q)[i] = r[Behind(k, i - 1)]
  <2> TAKE i \in 1 .. c - 1
  <2>1. i + 1 \in 1 .. c /\ i - 1 \in 0 .. c - 1 /\ (i + 1) - 1 = i /\ (i - 1) + 1 = i
    BY <1>3
  <2> QED BY <1>6, <1>9, <1>11, <2>1
<1>13. Tail(q) = [i \in 1 .. c - 1 |-> Tail(q)[i]]
  BY <1>11, SeqOfPlaces
<1>14. Tail(q) = Content(r, k, c - 1)
  BY <1>12, <1>13 DEF Content
<1>15. Waiting = q
  BY <1>2, <1>9, WaitingIsWalk, WalkIsContent
<1>16. Waiting' = Content(r, k, c - 1)
  BY <1>3, <1>5, WaitingIsWalk, WalkIsContent
<1> QED BY <1>8, <1>10, <1>14, <1>15, <1>16
----------------------------------------------------------------------------
\* No address has two entries.
OneEach(g) == \A i, j \in ArpSlots : g[i].ip # 0 /\ g[i].ip = g[j].ip => i = j

\* The inductive invariant of the ARP cache.
ArpInv == ArpTypeOK /\ OneEach(g_arp)

\* qos_net_arp_lookup in table g
NoAnswer == [mac |-> 0, left |-> 0]
AnswerOf(entry) == [mac |-> entry.mac, left |-> entry.ttl_secs]
SlotsOf(g, ip) == {i \in ArpSlots : g[i].ip = ip}
LookIn(g, ip) ==
    IF SlotsOf(g, ip) = {} THEN NoAnswer ELSE AnswerOf(g[Min(SlotsOf(g, ip))])

\* ArpLookup is LookIn of the table, before and after a step.
LEMMA LookupIsLook ==
    ASSUME NEW ip
    PROVE  ArpLookup(ip) = LookIn(g_arp, ip) /\ ArpLookup(ip)' = LookIn(g_arp', ip)
BY DEF ArpLookup, LookIn, EntriesOf, SlotsOf, NoAnswer, AnswerOf

\* With one entry for each address the first one is the one.
LEMMA LookFinds ==
    ASSUME NEW g, OneEach(g), NEW ip \in Ips, NEW i \in ArpSlots, g[i].ip = ip
    PROVE  LookIn(g, ip) = AnswerOf(g[i])
<1>1. ip # 0
  BY NetAssumption
<1>2. SlotsOf(g, ip) \subseteq Nat /\ SlotsOf(g, ip) # {}
  BY DEF SlotsOf, ArpSlots
<1>3. Min(SlotsOf(g, ip)) \in SlotsOf(g, ip)
  BY <1>2, MinIn
<1>4. PICK m \in ArpSlots : m = Min(SlotsOf(g, ip)) /\ g[m].ip = ip
  BY <1>3 DEF SlotsOf
<1>5. m = i
  BY <1>1, <1>4 DEF OneEach
<1> QED BY <1>2, <1>4, <1>5 DEF LookIn

\* An address without an entry has no answer.
LEMMA LookMisses ==
    ASSUME NEW g, NEW ip, \A i \in ArpSlots : g[i].ip # ip
    PROVE  LookIn(g, ip) = NoAnswer
BY DEF LookIn, SlotsOf

\* What qos_net_arp_put writes into slot s.
PutAt(g, s, e) == [g EXCEPT ![s] = e]

\* The slot qos_net_arp_put takes is that of the address, or a free one when the
\* address has none.
LEMMA PutKeeps ==
    ASSUME NEW g \in [ArpSlots -> ArpEntries \cup {NoArp}], OneEach(g),
           NEW e \in ArpEntries, NEW s \in ArpSlots,
           g[s].ip = e.ip \/ (g[s].ip = 0 /\ \A i \in ArpSlots : g[i].ip # e.ip)
    PROVE  /\ PutAt(g, s, e) \in [ArpSlots -> ArpEntries \cup {NoArp}]
           /\ OneEach(PutAt(g, s, e))
           /\ LookIn(PutAt(g, s, e), e.ip) = AnswerOf(e)
           /\ \A q \in Ips \ {e.ip} : LookIn(PutAt(g, s, e), q) = LookIn(g, q)
<1>1. PICK h : h = PutAt(g, s, e)
  OBVIOUS
<1>2. /\ h \in [ArpSlots -> ArpEntries \cup {NoArp}] /\ h[s] = e
      /\ \A i \in ArpSlots : i # s => h[i] = g[i]
  BY <1>1 DEF PutAt
<1>3. e.ip \in Ips /\ e.ip # 0
  BY NetAssumption DEF ArpEntries
<1>4. \A i \in ArpSlots : i # s => g[i].ip # e.ip
  BY <1>3 DEF OneEach
<1>5. OneEach(h)
  <2> SUFFICES ASSUME NEW i \in ArpSlots, NEW j \in ArpSlots, h[i].ip # 0, h[i].ip = h[j].ip
               PROVE  i = j
    BY DEF OneEach
  <2>1. CASE i = s \/ j = s
    BY <1>2, <1>4, <2>1
  <2>2. CASE i # s /\ j # s
    BY <1>2, <2>2 DEF OneEach
  <2> QED BY <2>1, <2>2
<1>6. LookIn(h, e.ip) = AnswerOf(e)
  BY <1>2, <1>3, <1>5, LookFinds
<1>7. ASSUME NEW q \in Ips \ {e.ip} PROVE LookIn(h, q) = LookIn(g, q)
  <2>1. q # 0 /\ g[s].ip # q
    BY NetAssumption
  <2>2. CASE \E i \in ArpSlots : g[i].ip = q
    <3>1. PICK i \in ArpSlots : g[i].ip = q
      BY <2>2
    <3>2. i # s /\ h[i] = g[i]
      BY <1>2, <2>1, <3>1
    <3>3. LookIn(g, q) = AnswerOf(g[i])
      BY <3>1, LookFinds
    <3>4. LookIn(h, q) = AnswerOf(h[i])
      BY <1>5, <3>1, <3>2, LookFinds
    <3> QED BY <3>2, <3>3, <3>4
  <2>3. CASE \A i \in ArpSlots : g[i].ip # q
    <3>1. \A i \in ArpSlots : h[i].ip # q
      BY <1>2, <2>3
    <3> QED BY <2>3, <3>1, LookMisses
  <2> QED BY <2>2, <2>3
<1> QED BY <1>1, <1>2, <1>5, <1>6, <1>7

\* qos_net_arp_put: the address has the new answer, every other its old one.
LEMMA PutStep ==
    ASSUME ArpInv, NEW ip \in Ips, NEW mac \in Macs, NEW ttl \in Ttls, ArpPut(ip, mac, ttl)
    PROVE  /\ ArpInv'
           /\ ArpLookup(ip)' = [mac |-> mac, left |-> ttl]
           /\ \A q \in Ips \ {ip} : ArpLookup(q)' = ArpLookup(q)
<1>1. PICK e \in ArpEntries : e = [ip |-> ip, mac |-> mac, ttl_secs |-> ttl]
  BY NetAssumption DEF ArpEntries
<1>2. e.ip = ip /\ AnswerOf(e) = [mac |-> mac, left |-> ttl]
  BY <1>1 DEF AnswerOf
<1>3. ArpSlotFor(ip) \subseteq Nat /\ ArpSlotFor(ip) # {}
  BY DEF ArpPut, ArpSlotFor, EntriesOf, ArpSlots
<1>4. PICK s : s = Min(ArpSlotFor(ip)) /\ s \in ArpSlotFor(ip)
  BY <1>3, MinIn
<1>5. s \in ArpSlots
  BY <1>4 DEF ArpSlotFor, EntriesOf
<1>6. g_arp[s].ip = ip \/ (g_arp[s].ip = 0 /\ \A i \in ArpSlots : g_arp[i].ip # ip)
  <2>1. CASE EntriesOf(ip) # {}
    BY <1>4, <2>1 DEF ArpSlotFor, EntriesOf
  <2>2. CASE EntriesOf(ip) = {}
    BY <1>4, <2>2 DEF ArpSlotFor, EntriesOf
  <2> QED BY <2>1, <2>2
<1>7. g_arp' = PutAt(g_arp, s, e)
  BY <1>1, <1>4 DEF ArpPut, PutAt
<1>8. g_arp \in [ArpSlots -> ArpEntries \cup {NoArp}] /\ OneEach(g_arp)
  BY DEF ArpInv, ArpTypeOK
<1>9. /\ g_arp' \in [ArpSlots -> ArpEntries \cup {NoArp}] /\ OneEach(g_arp')
      /\ LookIn(g_arp', ip) = AnswerOf(e)
      /\ \A q \in Ips \ {ip} : LookIn(g_arp', q) = LookIn(g_arp, q)
  BY <1>2, <1>5, <1>6, <1>7, <1>8, PutKeeps
<1>10. ArpInv'
  BY <1>9 DEF ArpInv, ArpTypeOK, OneEach
<1> QED BY <1>2, <1>9, <1>10, LookupIsLook

\* What is left of an answer after a time.
Rest(answer, elapsed) ==
    IF answer.left <= elapsed THEN NoAnswer ELSE [answer EXCEPT !.left = @ - elapsed]

\* One entry grows older: it keeps its address or is freed.
LEMMA AgedEntry ==
    ASSUME NEW e \in ArpEntries \cup {NoArp}, NEW elapsed \in Ttls
    PROVE  /\ Aged(e, elapsed) \in ArpEntries \cup {NoArp}
           /\ Aged(e, elapsed).ip = e.ip \/ Aged(e, elapsed).ip = 0
           /\ AnswerOf(e).left = e.ttl_secs
           /\ e.ttl_secs <= elapsed => Aged(e, elapsed).ip = 0
           /\ ~ (e.ttl_secs <= elapsed) => /\ Aged(e, elapsed).ip = e.ip
                                          /\ AnswerOf(Aged(e, elapsed)) = Rest(AnswerOf(e), elapsed)
<1>1. elapsed \in Nat /\ e.ttl_secs \in Nat
  BY NetAssumption DEF ArpEntries, NoArp
<1>2. CASE e.ttl_secs <= elapsed
  <2>1. Aged(e, elapsed) = NoArp
    BY <1>2 DEF Aged
  <2> QED BY <1>2, <2>1 DEF NoArp, AnswerOf
<1>3. CASE ~ (e.ttl_secs <= elapsed)
  <2>1. e \in ArpEntries
    BY <1>1, <1>3 DEF NoArp
  <2>2. Aged(e, elapsed) = [ip |-> e.ip, mac |-> e.mac, ttl_secs |-> e.ttl_secs - elapsed]
    BY <1>3, <2>1 DEF Aged, ArpEntries
  <2>3. e.ttl_secs - elapsed \in Nat \ {0}
    BY <1>1, <1>3
  <2>4. Aged(e, elapsed) \in ArpEntries
    BY <2>1, <2>2, <2>3 DEF ArpEntries
  <2>5. AnswerOf(Aged(e, elapsed)) = Rest(AnswerOf(e), elapsed)
    BY <1>3, <2>2 DEF AnswerOf, Rest
  <2> QED BY <1>3, <2>2, <2>4, <2>5 DEF AnswerOf
<1> QED BY <1>2, <1>3

\* qos_net_arp_tick makes every answer older and drops those whose time is over.
LEMMA TickStep ==
    ASSUME ArpInv, NEW elapsed \in Ttls, ArpTick(elapsed)
    PROVE  ArpInv' /\ \A q \in Ips : ArpLookup(q)' = Rest(ArpLookup(q), elapsed)
<1>1. PICK g \in [ArpSlots -> ArpEntries \cup {NoArp}] : g = g_arp /\ OneEach(g)
  BY DEF ArpInv, ArpTypeOK
<1>2. PICK h : h = g_arp'
  OBVIOUS
<1>3. h = [i \in ArpSlots |-> Aged(g[i], elapsed)]
  BY <1>1, <1>2 DEF ArpTick
<1>4. \A i \in ArpSlots :
         /\ h[i] \in ArpEntries \cup {NoArp}
         /\ h[i].ip = g[i].ip \/ h[i].ip = 0
         /\ AnswerOf(g[i]).left = g[i].ttl_secs
         /\ g[i].ttl_secs <= elapsed => h[i].ip = 0
         /\ ~ (g[i].ttl_secs <= elapsed) =>
               h[i].ip = g[i].ip /\ AnswerOf(h[i]) = Rest(AnswerOf(g[i]), elapsed)
  BY <1>3, AgedEntry
<1>5. h \in [ArpSlots -> ArpEntries \cup {NoArp}]
  BY <1>3, <1>4
<1>6. OneEach(h)
  BY <1>1, <1>4 DEF OneEach
<1>7. ASSUME NEW q \in Ips PROVE LookIn(h, q) = Rest(LookIn(g, q), elapsed)
  <2>1. q # 0
    BY NetAssumption
  <2>2. CASE \E i \in ArpSlots : g[i].ip = q
    <3>1. PICK i \in ArpSlots : g[i].ip = q
      BY <2>2
    <3>2. LookIn(g, q) = AnswerOf(g[i])
      BY <1>1, <3>1, LookFinds
    <3>3. CASE g[i].ttl_secs <= elapsed
      <4>1. \A j \in ArpSlots : h[j].ip # q
        BY <1>1, <1>4, <2>1, <3>1, <3>3 DEF OneEach
      <4>2. LookIn(h, q) = NoAnswer
        BY <4>1, LookMisses
      <4> QED BY <1>4, <3>2, <3>3, <4>2 DEF Rest
    <3>4. CASE ~ (g[i].ttl_secs <= elapsed)
      <4>1. h[i].ip = q /\ AnswerOf(h[i]) = Rest(AnswerOf(g[i]), elapsed)
        BY <1>4, <3>1, <3>4
      <4>2. LookIn(h, q) = AnswerOf(h[i])
        BY <1>6, <4>1, LookFinds
      <4> QED BY <3>2, <4>1, <4>2
    <3> QED BY <3>3, <3>4
  <2>3. CASE \A i \in ArpSlots : g[i].ip # q
    <3>1. \A i \in ArpSlots : h[i].ip # q
      BY <1>4, <2>1, <2>3
    <3>2. LookIn(g, q) = NoAnswer /\ LookIn(h, q) = NoAnswer
      BY <2>3, <3>1, LookMisses
    <3>3. 0 <= elapsed
      BY NetAssumption
    <3> QED BY <3>2, <3>3 DEF Rest, NoAnswer
  <2> QED BY <2>2, <2>3
<1>8. ArpInv'
  BY <1>2, <1>5, <1>6 DEF ArpInv, ArpTypeOK, OneEach
<1> QED BY <1>1, <1>2, <1>7, <1>8, LookupIsLook
----------------------------------------------------------------------------
\* The timeout of a request that waits has doubled once for every retry.
OnTime(conn) == conn.used /\ conn.state = "SYN_SENT" => conn.rto_ms = Doubled[conn.retries]

\* The inductive invariant of TCP.
TcpInv ==
    /\ g_tcp_listeners \subseteq Ports /\ IsFiniteSet(g_tcp_listeners)
    /\ Cardinality(g_tcp_listeners) <= TcpMaxListeners
    /\ g_tcp_conns \in [ConnIds -> Connections]
    /\ \A c \in ConnIds : OnTime(g_tcp_conns[c])

\* What TcpOneWay says of one connection.
Onward(p, q) ==
    p.used =>
       /\ q.used
       /\ q.local_port = p.local_port
       /\ q.remote_port = p.remote_port
       /\ q.state = p.state \/ Progress(q.state) > Progress(p.state)
       /\ p.state = "SYN_SENT" => p.rto_ms = Doubled[p.retries]
       /\ p.state = "SYN_SENT" /\ q.state = "CLOSED" => p.retries = MaxRetries

\* How far each state is.
LEMMA ProgressOf ==
    /\ Progress("LISTEN") = 0 /\ Progress("SYN_SENT") = 0 /\ Progress("SYN_RECEIVED") = 1
    /\ Progress("ESTABLISHED") = 2 /\ Progress("FIN_WAIT_1") = 3 /\ Progress("CLOSE_WAIT") = 3
    /\ Progress("FIN_WAIT_2") = 4 /\ Progress("CLOSING") = 4 /\ Progress("LAST_ACK") = 4
    /\ Progress("TIME_WAIT") = 5 /\ Progress("CLOSED") = 6
BY DEF Progress

\* Every arrow of the switch leads on; only a timeout gives a request up.
LEMMA ArrowsLeadOn ==
    ASSUME NEW s, NEW event, NEW next, <<s, event, next>> \in Arrows
    PROVE  /\ Progress(next) > Progress(s) /\ next # "SYN_SENT"
           /\ s = "SYN_SENT" => next # "CLOSED"
<1>1. \/ s = "LISTEN" /\ next = "SYN_RECEIVED"
      \/ s = "SYN_SENT" /\ next = "ESTABLISHED"
      \/ s = "SYN_RECEIVED" /\ next = "ESTABLISHED"
      \/ s = "ESTABLISHED" /\ next = "FIN_WAIT_1"
      \/ s = "ESTABLISHED" /\ next = "CLOSE_WAIT"
      \/ s = "FIN_WAIT_1" /\ next = "FIN_WAIT_2"
      \/ s = "FIN_WAIT_1" /\ next = "CLOSING"
      \/ s = "FIN_WAIT_2" /\ next = "TIME_WAIT"
      \/ s = "CLOSE_WAIT" /\ next = "LAST_ACK"
      \/ s = "CLOSING" /\ next = "TIME_WAIT"
      \/ s = "LAST_ACK" /\ next = "CLOSED"
  BY DEF Arrows
<1> QED BY <1>1, ProgressOf

\* tcp_next_rto doubles below the cap, and five doublings stay below it.
LEMMA RtoDoubles ==
    /\ Doubled[0] = FirstRto
    /\ \A k \in 0 .. MaxRetries : Doubled[k] \in 0 .. RtoCap
    /\ \A k \in 0 .. MaxRetries - 1 : NextRto(Doubled[k]) = Doubled[k + 1]
<1>1. \A k \in 0 .. 5 : Doubled[k] = 500 * <<1, 2, 4, 8, 16, 32>>[k + 1]
  BY DEF Doubled, MaxRetries, FirstRto
<1>2. /\ Doubled[0] = 500 /\ Doubled[1] = 1000 /\ Doubled[2] = 2000
      /\ Doubled[3] = 4000 /\ Doubled[4] = 8000 /\ Doubled[5] = 16000
  BY <1>1
<1>3. ASSUME NEW k \in 0 .. MaxRetries PROVE Doubled[k] \in 0 .. RtoCap
  <2>1. k = 0 \/ k = 1 \/ k = 2 \/ k = 3 \/ k = 4 \/ k = 5
    BY DEF MaxRetries
  <2>2. Doubled[k] \in Nat /\ Doubled[k] <= 16000
    BY <1>2, <2>1
  <2>3. RtoCap \in Nat /\ 16000 <= RtoCap
    BY DEF RtoCap
  <2> QED BY <2>2, <2>3
<1>4. 60000 \div 2 = 30000
  OBVIOUS
<1>5. ASSUME NEW k \in 0 .. MaxRetries - 1 PROVE NextRto(Doubled[k]) = Doubled[k + 1]
  <2>1. k = 0 \/ k = 1 \/ k = 2 \/ k = 3 \/ k = 4
    BY DEF MaxRetries
  <2> QED BY <1>2, <1>4, <2>1 DEF NextRto, RtoCap
<1> QED BY <1>2, <1>3, <1>5 DEF FirstRto

\* qos_net_tcp_step on an event moves a connection on.
LEMMA StepOn ==
    ASSUME NEW p \in Connections, p.used, OnTime(p), NEW event,
           NEW next \in TcpStates, <<p.state, event, next>> \in Arrows,
           NEW q, q = [p EXCEPT !.state = next]
    PROVE  q \in Connections /\ OnTime(q) /\ Onward(p, q)
<1>1. /\ Progress(next) > Progress(p.state) /\ next # "SYN_SENT"
      /\ p.state = "SYN_SENT" => next # "CLOSED"
  BY ArrowsLeadOn
<1>2. /\ q \in Connections /\ q.used /\ q.state = next /\ q.local_port = p.local_port
      /\ q.remote_port = p.remote_port
  BY DEF Connections
<1> QED BY <1>1, <1>2 DEF OnTime, Onward

\* Its timeout moves it on or doubles the timeout.
LEMMA TimeoutOn ==
    ASSUME NEW p \in Connections, p.used, OnTime(p), p.state \in {"TIME_WAIT", "SYN_SENT"},
           NEW q, q = TimedOut(p)
    PROVE  q \in Connections /\ OnTime(q) /\ Onward(p, q)
<1>1. CASE p.state = "TIME_WAIT"
  <2>1. q = [p EXCEPT !.state = "CLOSED"]
    BY <1>1 DEF TimedOut
  <2>2. /\ q \in Connections /\ q.used /\ q.state = "CLOSED"
        /\ q.local_port = p.local_port /\ q.remote_port = p.remote_port
    BY <2>1 DEF Connections, TcpStates
  <2> QED BY <1>1, <2>2, ProgressOf DEF OnTime, Onward
<1>2. CASE p.state = "SYN_SENT" /\ p.retries >= MaxRetries
  <2>0. p.retries = MaxRetries /\ ~ (p.retries < MaxRetries) /\ p.state # "TIME_WAIT"
    BY <1>2 DEF Connections, MaxRetries
  <2>1. q = [p EXCEPT !.state = "CLOSED"]
    BY <1>2, <2>0 DEF TimedOut
  <2>2. /\ q \in Connections /\ q.used /\ q.state = "CLOSED"
        /\ q.local_port = p.local_port /\ q.remote_port = p.remote_port
    BY <2>1 DEF Connections, TcpStates
  <2> QED BY <1>2, <2>0, <2>2, ProgressOf DEF OnTime, Onward
<1>3. CASE p.state = "SYN_SENT" /\ ~ (p.retries >= MaxRetries)
  <2>1. PICK k \in 0 .. MaxRetries - 1 : k = p.retries /\ p.retries < MaxRetries
    BY <1>3 DEF Connections, MaxRetries
  <2>2. p.rto_ms = Doubled[k]
    BY <1>3, <2>1 DEF OnTime
  <2>3. k + 1 \in 0 .. MaxRetries
    BY DEF MaxRetries
  <2>4. NextRto(p.rto_ms) = Doubled[k + 1] /\ Doubled[k + 1] \in 0 .. RtoCap
    BY <2>2, <2>3, RtoDoubles
  <2>5. q = [p EXCEPT !.retries = p.retries + 1, !.rto_ms = NextRto(p.rto_ms)]
    BY <1>3, <2>1 DEF TimedOut
  <2>6. q = [p EXCEPT !.retries = k + 1, !.rto_ms = Doubled[k + 1]]
    BY <2>1, <2>4, <2>5
  <2>7. /\ q \in Connections /\ q.used /\ q.state = "SYN_SENT" /\ q.retries = k + 1
        /\ q.rto_ms = Doubled[k + 1]
        /\ q.local_port = p.local_port /\ q.remote_port = p.remote_port
    BY <1>3, <2>3, <2>4, <2>6 DEF Connections
  <2> QED BY <1>3, <2>7 DEF OnTime, Onward
<1> QED BY <1>1, <1>2, <1>3

\* A connection that nothing happens to.
LEMMA StayOn == ASSUME NEW p, OnTime(p) PROVE Onward(p, p)
BY DEF OnTime, Onward

\* One connection becomes another, the rest stay.
LEMMA OneMoves ==
    ASSUME TcpInv, NEW c \in ConnIds, NEW q, q \in Connections, OnTime(q),
           Onward(g_tcp_conns[c], q), g_tcp_conns' = [g_tcp_conns EXCEPT ![c] = q],
           g_tcp_listeners' = g_tcp_listeners
    PROVE  TcpInv' /\ \A d \in ConnIds : Onward(g_tcp_conns[d], g_tcp_conns'[d])
<1>1. /\ g_tcp_conns' \in [ConnIds -> Connections] /\ g_tcp_conns'[c] = q
      /\ \A d \in ConnIds \ {c} : g_tcp_conns'[d] = g_tcp_conns[d]
  BY DEF TcpInv
<1>2. \A d \in ConnIds : OnTime(g_tcp_conns[d])
  BY DEF TcpInv
<1>3. \A d \in ConnIds : Onward(g_tcp_conns[d], g_tcp_conns'[d])
  BY <1>1, <1>2, StayOn
<1>4. \A d \in ConnIds : OnTime(g_tcp_conns'[d])
  BY <1>1, <1>2
<1>5. TcpInv'
  BY <1>1, <1>4 DEF TcpInv, OnTime
<1> QED BY <1>3, <1>5

\* Every call and every event of TCP keeps TcpInv and moves no connection back.
LEMMA TcpStepsOn ==
    ASSUME TcpInv, TcpNext
    PROVE  TcpInv' /\ \A d \in ConnIds : Onward(g_tcp_conns[d], g_tcp_conns'[d])
<1>0. /\ g_tcp_conns \in [ConnIds -> Connections]
      /\ \A d \in ConnIds : OnTime(g_tcp_conns[d])
      /\ \A d \in ConnIds : Onward(g_tcp_conns[d], g_tcp_conns[d])
  BY StayOn DEF TcpInv
<1>1. ASSUME NEW port \in Ports, TcpListen(port)
      PROVE  TcpInv' /\ \A d \in ConnIds : Onward(g_tcp_conns[d], g_tcp_conns'[d])
  <2>1. /\ port \notin g_tcp_listeners /\ g_tcp_listeners' = g_tcp_listeners \cup {port}
        /\ g_tcp_conns' = g_tcp_conns /\ Cardinality(g_tcp_listeners) < TcpMaxListeners
    BY <1>1 DEF TcpListen, TcpMayListen
  <2>2. /\ IsFiniteSet(g_tcp_listeners')
        /\ Cardinality(g_tcp_listeners') = Cardinality(g_tcp_listeners) + 1
    BY <2>1, FS_AddElement DEF TcpInv
  <2>3. Cardinality(g_tcp_listeners') <= TcpMaxListeners
    BY <2>1, <2>2, FS_CardinalityType, NetAssumption DEF TcpInv
  <2> QED BY <1>0, <2>1, <2>2, <2>3 DEF TcpInv, OnTime
<1>2. ASSUME NEW port \in Ports, TcpUnlisten(port)
      PROVE  TcpInv' /\ \A d \in ConnIds : Onward(g_tcp_conns[d], g_tcp_conns'[d])
  <2>1. g_tcp_listeners' = g_tcp_listeners \ {port} /\ g_tcp_conns' = g_tcp_conns
    BY <1>2 DEF TcpUnlisten
  <2>2. /\ IsFiniteSet(g_tcp_listeners')
        /\ Cardinality(g_tcp_listeners') <= Cardinality(g_tcp_listeners)
    BY <2>1, FS_Subset DEF TcpInv
  <2>3. Cardinality(g_tcp_listeners') <= TcpMaxListeners
    BY <2>2, FS_CardinalityType, NetAssumption DEF TcpInv
  <2> QED BY <1>0, <2>1, <2>2, <2>3 DEF TcpInv, OnTime
<1>3. ASSUME NEW lport \in Ports, NEW rport \in Ports, TcpConnect(lport, rport)
      PROVE  TcpInv' /\ \A d \in ConnIds : Onward(g_tcp_conns[d], g_tcp_conns'[d])
  <2>1. PICK q : q = Opened(lport, rport)
    OBVIOUS
  <2>2. q \in Connections /\ q.used /\ q.state = "SYN_SENT" /\ q.rto_ms = FirstRto /\ q.retries = 0
    BY <2>1 DEF Opened, Connections, TcpStates, FirstRto, RtoCap, MaxRetries
  <2>3. Unused \subseteq Nat /\ Unused # {} /\ Unused \subseteq ConnIds
    BY <1>3 DEF TcpConnect, TcpMayConnect, Unused, ConnIds
  <2>4. PICK c \in ConnIds : c = Min(Unused) /\ c \in Unused
    BY <2>3, MinIn
  <2>5. ~ g_tcp_conns[c].used
    BY <2>4 DEF Unused, Used
  <2>6. g_tcp_conns' = [g_tcp_conns EXCEPT ![c] = q] /\ g_tcp_listeners' = g_tcp_listeners
    BY <1>3, <2>1, <2>4 DEF TcpConnect
  <2>7. OnTime(q)
    BY <2>2, RtoDoubles DEF OnTime
  <2>8. Onward(g_tcp_conns[c], q)
    BY <2>5 DEF Onward
  <2> QED BY <2>2, <2>6, <2>7, <2>8, OneMoves
<1>4. ASSUME NEW c \in ConnIds, TcpTimeout(c)
      PROVE  TcpInv' /\ \A d \in ConnIds : Onward(g_tcp_conns[d], g_tcp_conns'[d])
  <2>1. PICK p \in Connections : p = g_tcp_conns[c]
    BY <1>0
  <2>2. PICK q : q = TimedOut(p)
    OBVIOUS
  <2>3. /\ p.used /\ p.state \in {"TIME_WAIT", "SYN_SENT"} /\ OnTime(p)
        /\ g_tcp_conns' = [g_tcp_conns EXCEPT ![c] = q] /\ g_tcp_listeners' = g_tcp_listeners
    BY <1>0, <1>4, <2>1, <2>2 DEF TcpTimeout
  <2>4. q \in Connections /\ OnTime(q) /\ Onward(p, q)
    BY <2>2, <2>3, TimeoutOn
  <2> QED BY <2>1, <2>3, <2>4, OneMoves
<1>5. ASSUME NEW c \in ConnIds, NEW event \in TcpEvents, TcpStep(c, event)
      PROVE  TcpInv' /\ \A d \in ConnIds : Onward(g_tcp_conns[d], g_tcp_conns'[d])
  <2>1. PICK p \in Connections : p = g_tcp_conns[c]
    BY <1>0
  <2>2. PICK next \in TcpStates :
           /\ <<p.state, event, next>> \in Arrows
           /\ g_tcp_conns' = [g_tcp_conns EXCEPT ![c].state = next]
    BY <1>5, <2>1 DEF TcpStep
  <2>3. PICK q : q = [p EXCEPT !.state = next]
    OBVIOUS
  <2>4. /\ p.used /\ OnTime(p) /\ g_tcp_listeners' = g_tcp_listeners
        /\ g_tcp_conns' = [g_tcp_conns EXCEPT ![c] = q]
    BY <1>0, <1>5, <2>1, <2>2, <2>3 DEF TcpStep
  <2>5. q \in Connections /\ OnTime(q) /\ Onward(p, q)
    BY <2>2, <2>3, <2>4, StepOn
  <2> QED BY <2>1, <2>4, <2>5, OneMoves
<1> QED BY <1>1, <1>2, <1>3, <1>4, <1>5 DEF TcpNext
----------------------------------------------------------------------------
\* The inductive invariant: the parts share no state.
NetInv == UdpInv /\ TcpInv /\ RingInv /\ ArpInv

\* NetInv says more than TypeOK.
LEMMA NetInvMeans == NetInv => TypeOK
BY DEF NetInv, UdpInv, TcpInv, RingInv, ArpInv, TypeOK, UdpTypeOK, TcpTypeOK, Entries

\* Cleared connections are in no state that has a timer.
LEMMA NoConnIdle == NoConn \in Connections /\ OnTime(NoConn)
<1>1. 0 \in 0 .. RtoCap /\ 0 \in 0 .. MaxRetries
  BY DEF RtoCap, MaxRetries
<1> QED BY <1>1 DEF NoConn, Connections, TcpStates, OnTime

\* The empty tables of qos_net_reset.
LEMMA NetEmpty == (NetInit => NetInv) /\ (NetReset => NetInv')
<1>1. /\ IsFiniteSet({}) /\ Cardinality({}) = 0 /\ 0 <= UdpPortMax
      /\ 0 <= UdpMaxDatagrams /\ 0 <= TcpMaxListeners
  BY FS_EmptySet, NetAssumption
<1>2. /\ <<>> \in Seq(Entries) /\ Len(<<>>) = 0 /\ DOMAIN <<>> = {}
  OBVIOUS
<1>3. /\ 0 \in Places /\ 0 \in 0 .. MaxQueue /\ (0 + 0) % MaxQueue = 0
      /\ [i \in Places |-> NoPacket] \in [Places -> Packets \cup {NoPacket}]
  BY NetAssumption DEF Places
<1>4. /\ [i \in ArpSlots |-> NoArp] \in [ArpSlots -> ArpEntries \cup {NoArp}]
      /\ OneEach([i \in ArpSlots |-> NoArp])
  BY DEF OneEach, NoArp
<1>5. /\ [c \in ConnIds |-> NoConn] \in [ConnIds -> Connections]
      /\ \A d \in ConnIds : OnTime([c \in ConnIds |-> NoConn][d])
  BY NoConnIdle
<1>6. ASSUME NetInit PROVE NetInv
  <2>1. UdpInv
    BY <1>1, <1>2, <1>6 DEF NetInit, UdpInit, UdpInv
  <2>2. TcpInv
    BY <1>1, <1>5, <1>6 DEF NetInit, TcpInit, TcpInv
  <2>3. RingInv
    BY <1>3, <1>6 DEF NetInit, RingInit, RingInv, RingTypeOK
  <2>4. ArpInv
    BY <1>4, <1>6 DEF NetInit, ArpInit, ArpInv, ArpTypeOK
  <2> QED BY <2>1, <2>2, <2>3, <2>4 DEF NetInv
<1>7. ASSUME NetReset PROVE NetInv'
  <2>1. UdpInv'
    BY <1>1, <1>2, <1>7 DEF NetReset, UdpInv
  <2>2. TcpInv'
    BY <1>1, <1>5, <1>7 DEF NetReset, TcpInv, OnTime
  <2>3. RingInv'
    BY <1>3, <1>7 DEF NetReset, RingInv, RingTypeOK
  <2>4. ArpInv'
    BY <1>4, <1>7 DEF NetReset, ArpInv, ArpTypeOK, OneEach
  <2> QED BY <2>1, <2>2, <2>3, <2>4 DEF NetInv
<1> QED BY <1>6, <1>7

\* A part that is not called keeps its tables.
LEMMA PartsKept ==
    /\ UdpInv /\ UNCHANGED <<g_udp_ports, g_udp_datagrams>> => UdpInv'
    /\ TcpInv /\ UNCHANGED <<g_tcp_listeners, g_tcp_conns>> => TcpInv'
    /\ RingInv /\ UNCHANGED <<g_packets, g_head, g_tail, g_count>> => RingInv'
    /\ ArpInv /\ UNCHANGED g_arp => ArpInv'
<1>1. UdpInv /\ UNCHANGED <<g_udp_ports, g_udp_datagrams>> => UdpInv'
  BY DEF UdpInv
<1>2. TcpInv /\ UNCHANGED <<g_tcp_listeners, g_tcp_conns>> => TcpInv'
  BY DEF TcpInv, OnTime
<1>3. RingInv /\ UNCHANGED <<g_packets, g_head, g_tail, g_count>> => RingInv'
  BY DEF RingInv, RingTypeOK
<1>4. ArpInv /\ UNCHANGED g_arp => ArpInv'
  BY DEF ArpInv, ArpTypeOK, OneEach
<1> QED BY <1>1, <1>2, <1>3, <1>4

\* Every step of the network core keeps its four parts.
LEMMA NetInvNext == NetInv /\ [NetNext]_vars => NetInv'
<1> SUFFICES ASSUME UdpInv, TcpInv, RingInv, ArpInv, [NetNext]_vars PROVE NetInv'
  BY DEF NetInv
<1>1. ASSUME UdpNext PROVE UdpInv'
  BY <1>1, BindStep, UnbindStep, SendStep, RecvStep DEF UdpNext
<1>2. ASSUME TcpNext PROVE TcpInv'
  BY <1>2, TcpStepsOn
<1>3. ASSUME RingNext PROVE RingInv'
  BY <1>3, EnqueueStep, DequeueStep DEF RingNext
<1>4. ASSUME ArpNext PROVE ArpInv'
  BY <1>4, PutStep, TickStep DEF ArpNext
<1>5. CASE UNCHANGED vars
  <2>1. /\ UNCHANGED <<g_udp_ports, g_udp_datagrams>> /\ UNCHANGED <<g_tcp_listeners, g_tcp_conns>>
        /\ UNCHANGED <<g_packets, g_head, g_tail, g_count>> /\ UNCHANGED g_arp
    BY <1>5 DEF vars
  <2> QED BY <2>1, PartsKept DEF NetInv
<1>6. CASE NetNext
  BY <1>1, <1>2, <1>3, <1>4, <1>6, PartsKept, NetEmpty DEF NetNext, NetInv
<1> QED BY <1>5, <1>6

\* Whatever calls are made in whatever order (net.c), the tables of the network
\* core keep their shape.
THEOREM NetInvariant == Spec => []NetInv
<1>1. NetInit => NetInv
  BY NetEmpty
<1> QED BY <1>1, NetInvNext, PTL DEF Spec

\* No table, counter or index of net.c leaves its range: in particular no datagram
\* is queued for a full table and no retry counter passes its limit.
THEOREM NetTypeCorrect == Spec => []TypeOK
BY NetInvariant, NetInvMeans, PTL

\* A connection id of net.c names the same connection until qos_net_reset, and the
\* connection only moves forward: an answer that comes after qos_net_tcp_step gave
\* up does not reopen it, and it gives up only after its last retry, with a timeout
\* that doubled once for every retry.
THEOREM NetOneWay == Spec => TcpOneWay
<1> DEFINE A == \A c \in ConnIds :
          LET conn == g_tcp_conns[c] IN
          conn.used /\ ~ NetReset =>
             /\ g_tcp_conns'[c].used
             /\ g_tcp_conns'[c].local_port = conn.local_port
             /\ g_tcp_conns'[c].remote_port = conn.remote_port
             /\ \/ g_tcp_conns'[c].state = conn.state
                \/ Progress(g_tcp_conns'[c].state) > Progress(conn.state)
             /\ conn.state = "SYN_SENT" => conn.rto_ms = Doubled[conn.retries]
             /\ conn.state = "SYN_SENT" /\ g_tcp_conns'[c].state = "CLOSED" =>
                   conn.retries = MaxRetries
<1>1. NetInv /\ [NetNext]_vars => [A]_vars
  <2> SUFFICES ASSUME NetInv, NetNext, NEW c \in ConnIds, ~ NetReset
               PROVE  Onward(g_tcp_conns[c], g_tcp_conns'[c])
    BY DEF Onward
  <2>1. TcpInv /\ OnTime(g_tcp_conns[c])
    BY DEF NetInv, TcpInv
  <2>2. CASE TcpNext
    BY <2>1, <2>2, TcpStepsOn
  <2>3. CASE g_tcp_conns' = g_tcp_conns
    BY <2>1, <2>3, StayOn
  <2> QED BY <2>2, <2>3 DEF NetNext
<1> QED BY <1>1, NetInvariant, PTL DEF Spec, TcpOneWay
----------------------------------------------------------------------------
\* The three mappings of a part that is not called.
LEMMA ViewsKept ==
    /\ UNCHANGED g_udp_datagrams => UNCHANGED [port \in Ports |-> Inbox(port)]
    /\ UNCHANGED <<g_packets, g_head, g_count>> => UNCHANGED Waiting
    /\ UNCHANGED g_arp => UNCHANGED [ip \in Ips |-> ArpLookup(ip)]
<1>1. UNCHANGED g_udp_datagrams => UNCHANGED [port \in Ports |-> Inbox(port)]
  BY InboxIsListing
<1>2. UNCHANGED <<g_packets, g_head, g_count>> => UNCHANGED Waiting
  BY WaitingIsWalk
<1>3. UNCHANGED g_arp => UNCHANGED [ip \in Ips |-> ArpLookup(ip)]
  BY LookupIsLook
<1> QED BY <1>1, <1>2, <1>3

\* The empty tables are an empty service.
LEMMA ServiceStarts == NetInit => ServiceOfTables!ServiceInit
<1> SUFFICES ASSUME NetInit PROVE ServiceOfTables!ServiceInit
  OBVIOUS
<1>1. \A port \in Ports : Inbox(port) = <<>>
  <2> TAKE port \in Ports
  <2>1. PlacesOf(g_udp_datagrams, port) = {}
    BY DEF NetInit, UdpInit, PlacesOf
  <2> QED BY <2>1, InboxIsListing, ListingEmpty
<1>2. Waiting = <<>>
  BY DEF NetInit, RingInit, Waiting
<1>3. \A ip \in Ips : ArpLookup(ip) = NoAnswer
  <2> TAKE ip \in Ips
  <2>1. \A i \in ArpSlots : g_arp[i].ip # ip
    BY NetAssumption DEF NetInit, ArpInit, NoArp
  <2> QED BY <2>1, LookupIsLook, LookMisses
<1> QED BY <1>1, <1>2, <1>3
        DEF NetInit, UdpInit, ServiceOfTables!ServiceInit, ServiceOfTables!Unknown, NoAnswer

\* qos_net_reset starts the service over.
LEMMA ServiceRestarts == NetReset => ServiceOfTables!Restart
<1> SUFFICES ASSUME NetReset PROVE ServiceOfTables!Restart
  OBVIOUS
<1>1. \A port \in Ports : Inbox(port)' = <<>>
  <2> TAKE port \in Ports
  <2>1. PlacesOf(g_udp_datagrams', port) = {}
    BY DEF NetReset, PlacesOf
  <2> QED BY <2>1, InboxIsListing, ListingEmpty
<1>2. Waiting' = <<>>
  BY DEF NetReset, Waiting
<1>3. \A ip \in Ips : ArpLookup(ip)' = NoAnswer
  <2> TAKE ip \in Ips
  <2>1. \A i \in ArpSlots : g_arp'[i].ip # ip
    BY NetAssumption DEF NetReset, NoArp
  <2> QED BY <2>1, LookupIsLook, LookMisses
<1> QED BY <1>1, <1>2, <1>3
        DEF NetReset, ServiceOfTables!Restart, ServiceOfTables!Unknown, NoAnswer

\* A UDP call is a step of the mailboxes.
LEMMA ServiceOfUdp ==
    ASSUME UdpInv, UdpNext, UNCHANGED Waiting, UNCHANGED [ip \in Ips |-> ArpLookup(ip)]
    PROVE  ServiceOfTables!ServiceNext
<1>1. ASSUME NEW port \in Ports, UdpBind(port) PROVE ServiceOfTables!Open(port)
  BY <1>1, BindStep DEF ServiceOfTables!Open
<1>2. ASSUME NEW port \in Ports, UdpUnbind(port) PROVE ServiceOfTables!Close(port)
  BY <1>2, UnbindStep DEF ServiceOfTables!Close
<1>3. ASSUME NEW port \in Ports, UdpRecv(port) PROVE ServiceOfTables!Receive(port)
  BY <1>3, RecvStep DEF ServiceOfTables!Receive
<1>4. ASSUME NEW port \in Ports, NEW data \in Data, UdpSend(port, data)
      PROVE  ServiceOfTables!Deliver(port, data)
  BY <1>4, SendStep DEF ServiceOfTables!Deliver
<1> QED BY <1>1, <1>2, <1>3, <1>4 DEF UdpNext, ServiceOfTables!ServiceNext

\* A call of the packet ring is a step of the queue.
LEMMA ServiceOfRing ==
    ASSUME RingInv, RingNext, UNCHANGED [port \in Ports |-> Inbox(port)],
           UNCHANGED g_udp_ports, UNCHANGED [ip \in Ips |-> ArpLookup(ip)]
    PROVE  ServiceOfTables!ServiceNext
<1>1. ASSUME NEW packet \in Packets, EnqueuePacket(packet)
      PROVE  ServiceOfTables!Enqueue(packet)
  BY <1>1, EnqueueStep DEF ServiceOfTables!Enqueue
<1>2. ASSUME DequeuePacket PROVE ServiceOfTables!Dequeue
  BY <1>2, DequeueStep DEF ServiceOfTables!Dequeue
<1> QED BY <1>1, <1>2 DEF RingNext, ServiceOfTables!ServiceNext

\* A call of the ARP cache is a step of the cache.
LEMMA ServiceOfArp ==
    ASSUME ArpInv, ArpNext, UNCHANGED [port \in Ports |-> Inbox(port)],
           UNCHANGED g_udp_ports, UNCHANGED Waiting
    PROVE  ServiceOfTables!ServiceNext
<1>1. ASSUME NEW ip \in Ips, NEW mac \in Macs, NEW ttl \in Ttls, ArpPut(ip, mac, ttl)
      PROVE  ServiceOfTables!Learn(ip, mac, ttl)
  BY <1>1, PutStep DEF ServiceOfTables!Learn
<1>2. ASSUME NEW elapsed \in Ttls, ArpTick(elapsed) PROVE ServiceOfTables!Age(elapsed)
  BY <1>2, TickStep DEF ServiceOfTables!Age, ServiceOfTables!Unknown, Rest, NoAnswer
<1> QED BY <1>1, <1>2 DEF ArpNext, ServiceOfTables!ServiceNext

\* The tables of net.c implement NetService: every call is a step of the mailboxes,
\* the queue or the address cache, or no step of them.
THEOREM NetImplementsService == Spec => ImplementsService
<1>1. NetInv /\ [NetNext]_vars =>
         [ServiceOfTables!ServiceNext]_(ServiceOfTables!serviceVars)
  <2> SUFFICES ASSUME UdpInv, RingInv, ArpInv, [NetNext]_vars
               PROVE  ServiceOfTables!ServiceNext \/ UNCHANGED ServiceOfTables!serviceVars
    BY DEF NetInv
  <2>1. CASE UNCHANGED vars
    BY <2>1, ViewsKept DEF vars, ServiceOfTables!serviceVars
  <2>2. CASE UdpNext /\ UNCHANGED <<g_packets, g_head, g_count, g_arp>>
    BY <2>2, ViewsKept, ServiceOfUdp
  <2>3. CASE TcpNext /\ UNCHANGED <<g_udp_ports, g_udp_datagrams, g_packets, g_head, g_count, g_arp>>
    BY <2>3, ViewsKept DEF ServiceOfTables!serviceVars
  <2>4. CASE RingNext /\ UNCHANGED <<g_udp_ports, g_udp_datagrams, g_arp>>
    BY <2>4, ViewsKept, ServiceOfRing
  <2>5. CASE ArpNext /\ UNCHANGED <<g_udp_ports, g_udp_datagrams, g_packets, g_head, g_count>>
    BY <2>5, ViewsKept, ServiceOfArp
  <2>6. CASE NetReset
    BY <2>6, ServiceRestarts DEF ServiceOfTables!ServiceNext
  <2> QED BY <2>1, <2>2, <2>3, <2>4, <2>5, <2>6 DEF NetNext
<1> QED BY <1>1, ServiceStarts, NetInvariant, PTL
        DEF Spec, ImplementsService, ServiceOfTables!Service
==============================================================================
