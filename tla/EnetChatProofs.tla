---------------------------- MODULE EnetChatProofs ----------------------------
(***************************************************************************)
(* Proofs about EnetChat for every finite set of clients and every bound   *)
(* on what they type: types, names, and introductions.                     *)
(***************************************************************************)
EXTENDS EnetChat, FiniteSetTheorems, TLAPS

-----------------------------------------------------------------------------
(***************************************************************************)
(* How often a value occurs in a sequence.                                 *)
(***************************************************************************)
Never(s, i) == \A n \in DOMAIN s : s[n] # i

Once(s, i) == \E n \in DOMAIN s : s[n] = i /\ \A m \in DOMAIN s : s[m] = i => m = n

\* A value that is behind the first part of a concatenation or in it.
LEMMA ConcatParts ==
    ASSUME NEW S, NEW s \in Seq(S), NEW t \in Seq(S)
    PROVE  /\ s \o t \in Seq(S)
           /\ DOMAIN s = 1 .. Len(s) /\ Len(s) \in Nat
           /\ DOMAIN t = 1 .. Len(t) /\ Len(t) \in Nat
           /\ DOMAIN (s \o t) = 1 .. Len(s) + Len(t)
           /\ \A n \in DOMAIN s : (s \o t)[n] = s[n]
           /\ \A n \in DOMAIN t : (s \o t)[Len(s) + n] = t[n]
           /\ \A n \in DOMAIN (s \o t) :
                n \in DOMAIN s \/ (n - Len(s) \in DOMAIN t /\ (s \o t)[n] = t[n - Len(s)])
  OBVIOUS

\* A sequence over a set is one over every larger set.
LEMMA LargerRange ==
    ASSUME NEW S, NEW T, S \subseteq T, NEW s \in Seq(S)
    PROVE  s \in Seq(T)
  OBVIOUS

\* Never in a concatenation is never in either part.
LEMMA NeverConcat ==
    ASSUME NEW S, NEW s \in Seq(S), NEW t \in Seq(S), NEW i
    PROVE  Never(s \o t, i) <=> Never(s, i) /\ Never(t, i)
  <1>1. ASSUME Never(s \o t, i) PROVE Never(s, i) /\ Never(t, i)
    <2>1. \A n \in DOMAIN s : n \in DOMAIN (s \o t)
      BY ConcatParts
    <2>2. \A n \in DOMAIN t : Len(s) + n \in DOMAIN (s \o t)
      BY ConcatParts
    <2> QED
      BY <1>1, <2>1, <2>2, ConcatParts DEF Never
  <1>2. ASSUME Never(s, i), Never(t, i) PROVE Never(s \o t, i)
    BY <1>2, ConcatParts DEF Never
  <1> QED
    BY <1>1, <1>2

\* Once in a concatenation is once in one part and never in the other.
LEMMA OnceConcat ==
    ASSUME NEW S, NEW s \in Seq(S), NEW t \in Seq(S), NEW i
    PROVE  /\ Once(s, i) /\ Never(t, i) => Once(s \o t, i)
           /\ Never(s, i) /\ Once(t, i) => Once(s \o t, i)
  <1>1. ASSUME Once(s, i), Never(t, i) PROVE Once(s \o t, i)
    <2>1. PICK n \in DOMAIN s : s[n] = i /\ \A m \in DOMAIN s : s[m] = i => m = n
      BY <1>1 DEF Once
    <2>2. n \in DOMAIN (s \o t) /\ (s \o t)[n] = i
      BY <2>1, ConcatParts
    <2>3. ASSUME NEW m \in DOMAIN (s \o t), (s \o t)[m] = i PROVE m = n
      BY <1>1, <2>1, <2>3, ConcatParts DEF Never
    <2> QED
      BY <2>2, <2>3 DEF Once
  <1>2. ASSUME Never(s, i), Once(t, i) PROVE Once(s \o t, i)
    <2>1. PICK n \in DOMAIN t : t[n] = i /\ \A m \in DOMAIN t : t[m] = i => m = n
      BY <1>2 DEF Once
    <2>2. Len(s) + n \in DOMAIN (s \o t) /\ (s \o t)[Len(s) + n] = i
      BY <2>1, ConcatParts
    <2>3. ASSUME NEW m \in DOMAIN (s \o t), (s \o t)[m] = i PROVE m = Len(s) + n
      <3>1. m \notin DOMAIN s
        BY <1>2, <2>3, ConcatParts DEF Never
      <3>2. m - Len(s) = n
        BY <2>1, <2>3, <3>1, ConcatParts
      <3>3. m \in Int /\ n \in Int /\ Len(s) \in Int
        BY ConcatParts
      <3> QED
        BY <3>2, <3>3
    <2> QED
      BY <2>2, <2>3 DEF Once
  <1> QED
    BY <1>1, <1>2

\* A sequence of one value.
LEMMA SingleOccurrence ==
    ASSUME NEW x, NEW i
    PROVE  /\ x = i => Once(<<x>>, i)
           /\ x # i => Never(<<x>>, i)
  BY DEF Once, Never

\* An element put behind a sequence.
LEMMA AppendOccurrence ==
    ASSUME NEW S, NEW s \in Seq(S), NEW x \in S, NEW i
    PROVE  /\ Append(s, x) \in Seq(S)
           /\ Never(s, i) /\ x # i => Never(Append(s, x), i)
           /\ Never(s, i) /\ x = i => Once(Append(s, x), i)
           /\ Once(s, i) /\ x # i => Once(Append(s, x), i)
  <1> DEFINE t == <<x>>
  <1>1. t \in Seq(S) /\ Append(s, x) = s \o t /\ Append(s, x) \in Seq(S)
    OBVIOUS
  <1>2. (x = i => Once(t, i)) /\ (x # i => Never(t, i))
    BY SingleOccurrence
  <1> HIDE DEF t
  <1>3. Never(s, i) /\ x # i => Never(Append(s, x), i)
    BY <1>1, <1>2, NeverConcat
  <1>4. /\ Never(s, i) /\ x = i => Once(Append(s, x), i)
        /\ Once(s, i) /\ x # i => Once(Append(s, x), i)
    BY <1>1, <1>2, OnceConcat
  <1> QED
    BY <1>1, <1>3, <1>4

\* What the first element of a sequence takes with it.
LEMMA TailOccurrence ==
    ASSUME NEW S, NEW s \in Seq(S), s # <<>>, NEW i
    PROVE  /\ Head(s) \in S /\ Tail(s) \in Seq(S)
           /\ Never(s, i) => Head(s) # i /\ Never(Tail(s), i)
           /\ Once(s, i) => \/ Head(s) = i /\ Never(Tail(s), i)
                            \/ Head(s) # i /\ Once(Tail(s), i)
  <1>1. /\ Head(s) \in S /\ Tail(s) \in Seq(S) /\ Head(s) = s[1]
        /\ Len(s) \in Nat /\ Len(s) > 0 /\ DOMAIN s = 1 .. Len(s)
        /\ DOMAIN Tail(s) = 1 .. Len(s) - 1
    OBVIOUS
  <1>2. \A n \in DOMAIN Tail(s) : Tail(s)[n] = s[n + 1] /\ n + 1 \in DOMAIN s /\ n + 1 # 1
    OBVIOUS
  <1>3. 1 \in DOMAIN s
    BY <1>1
  <1>4. Never(s, i) => Head(s) # i /\ Never(Tail(s), i)
    BY <1>1, <1>2, <1>3 DEF Never
  <1>5. ASSUME Once(s, i), Head(s) = i PROVE Never(Tail(s), i)
    BY <1>1, <1>2, <1>3, <1>5 DEF Once, Never
  <1>6. ASSUME Once(s, i), Head(s) # i PROVE Once(Tail(s), i)
    <2>1. PICK n \in DOMAIN s : s[n] = i /\ \A m \in DOMAIN s : s[m] = i => m = n
      BY <1>6 DEF Once
    <2>2. n # 1
      BY <1>1, <1>6, <2>1
    <2>3. n - 1 \in DOMAIN Tail(s) /\ (n - 1) + 1 = n
      BY <1>1, <2>1, <2>2
    <2>4. Tail(s)[n - 1] = i
      BY <1>2, <2>1, <2>3
    <2>5. ASSUME NEW m \in DOMAIN Tail(s), Tail(s)[m] = i PROVE m = n - 1
      <3>1. m + 1 = n
        BY <1>2, <2>1, <2>5
      <3>2. m \in Int /\ n \in Int
        BY <1>1, <2>1
      <3> QED
        BY <3>1, <3>2
    <2> QED
      BY <2>3, <2>4, <2>5 DEF Once
  <1> QED
    BY <1>1, <1>4, <1>5, <1>6

\* Once and never, as the numbers of places.
LEMMA CountOccurrences ==
    ASSUME NEW s, NEW i
    PROVE  /\ Never(s, i) => Cardinality({n \in DOMAIN s : s[n] = i}) = 0
           /\ Once(s, i) => Cardinality({n \in DOMAIN s : s[n] = i}) = 1
  <1>1. ASSUME Never(s, i) PROVE Cardinality({n \in DOMAIN s : s[n] = i}) = 0
    <2>1. {n \in DOMAIN s : s[n] = i} = {}
      BY <1>1 DEF Never
    <2> QED
      BY <2>1, FS_EmptySet
  <1>2. ASSUME Once(s, i) PROVE Cardinality({n \in DOMAIN s : s[n] = i}) = 1
    <2>1. PICK n \in DOMAIN s : {m \in DOMAIN s : s[m] = i} = {n}
      BY <1>2 DEF Once
    <2> QED
      BY <2>1, FS_Singleton
  <1> QED
    BY <1>1, <1>2

\* A listing of a finite set has every element, once.
LEMMA ListingOccurrence ==
    ASSUME NEW S, IsFiniteSet(S), NEW f \in Listings(S), NEW i
    PROVE  /\ f \in Seq(S)
           /\ i \in S => Once(f, i)
           /\ i \notin S => Never(f, i)
  <1> DEFINE k == Cardinality(S)
  <1>1. k \in Nat
    BY FS_CardinalityType
  <1>2. f \in [1 .. k -> S] /\ \A x \in S : \E n \in 1 .. k : f[n] = x
    BY DEF Listings
  <1>3. f \in Seq(S) /\ DOMAIN f = 1 .. k
    BY <1>1, <1>2
  <1>4. IsFiniteSet(1 .. k) /\ Cardinality(1 .. k) = k
    <2>1. 1 \in Int /\ k \in Int
      BY <1>1
    <2>2. /\ IsFiniteSet(1 .. k)
          /\ Cardinality(1 .. k) = IF 1 > k THEN 0 ELSE k - 1 + 1
      BY <2>1, FS_Interval
    <2> QED
      BY <1>1, <2>2
  <1>5. f \in Surjection(1 .. k, S)
    BY <1>2 DEF Surjection
  <1>6. f \in Injection(1 .. k, S)
    BY <1>4, <1>5, FS_Surjection
  <1>7. \A n, m \in 1 .. k : f[n] = f[m] => n = m
    BY <1>6 DEF Injection, IsInjective
  <1>8. i \in S => Once(f, i)
    BY <1>2, <1>3, <1>7 DEF Once
  <1>9. i \notin S => Never(f, i)
    BY <1>2, <1>3 DEF Never
  <1> QED
    BY <1>3, <1>8, <1>9

-----------------------------------------------------------------------------
(***************************************************************************)
(* The inductive invariant.                                                *)
(***************************************************************************)

\* No client has more addresses before it than were sent.
AddressesSent == \A c \in Client : addresses[c] <= starts

\* A client sends nothing before the game, and its name before anything else.
NameFirst(c) ==
    /\ phase[c] \in {"lobby", "connecting"} => toServer[c] = <<>>
    /\ c \notin DOMAIN clients =>
         /\ toServer[c] # <<>> => Head(toServer[c]) = "name"
         /\ phase[c] = "in_game" => toServer[c] # <<>>
    /\ c \in DOMAIN clients => clients[c].name = "name"

NamesFirst == \A c \in Client : ~interrupted[c] => NameFirst(c)

\* Ids are given once.
OwnIds == \A c, d \in DOMAIN clients : clients[c].id = clients[d].id => c = d

\* What c has been told, listed or still on the way.
NeverTold(c, i) == Never(others[c], i) /\ Never(fromServer[c], i)

OnceTold(c, i) ==
    \/ Once(others[c], i) /\ Never(fromServer[c], i)
    \/ Never(others[c], i) /\ Once(fromServer[c], i)

\* A client that is not listed has been told of nobody; one that is, once of
\* everybody else.
Met(c) ==
    /\ c \notin DOMAIN clients => \A i \in Nat : NeverTold(c, i)
    /\ c \in DOMAIN clients =>
         \A d \in DOMAIN clients :
             /\ c = d => NeverTold(c, clients[d].id)
             /\ c # d => OnceTold(c, clients[d].id)

AllMet == \A c \in Client : phase[c] # "gone" => Met(c)

TInv == TypeOK /\ AddressesSent

-----------------------------------------------------------------------------
(***************************************************************************)
(* Types.                                                                  *)
(***************************************************************************)
Info == [id : 0 .. id_counter - 1, name : {"name", "line"}]
Ids == 0 .. id_counter - 1

LEMMA InitTypes == Init => TInv
  BY ChatAssumption DEF Init, TInv, TypeOK, AddressesSent, IsTable, NoEntries, Address

LEMMA LobbyTypes == TInv /\ LobbyStarts => TInv'
  <1> SUFFICES ASSUME TInv, LobbyStarts PROVE TInv'
    OBVIOUS
  <1>1. /\ addresses' \in [Client -> 0 .. MaxStarts] /\ starts' \in 0 .. MaxStarts
        /\ AddressesSent'
    BY ChatAssumption DEF TInv, TypeOK, AddressesSent, LobbyStarts
  <1> QED
    BY <1>1 DEF TInv, TypeOK, LobbyStarts, ServerSide, Channels

LEMMA SentType ==
    ASSUME TypeOK, NEW c \in Client, NEW packet \in {"name", "line"}
    PROVE  Sent(c, packet) \in [Client -> Seq({"name", "line"})]
  BY DEF TypeOK, Sent

\* A client takes an address, or all of them.
LEMMA AddressTypes ==
    ASSUME TInv, NEW c \in Client, starts' = starts,
           \/ TakeAddress(c)
           \/ addresses' = [addresses EXCEPT ![c] = 0]
    PROVE  addresses' \in [Client -> 0 .. MaxStarts] /\ AddressesSent'
  <1>1. /\ addresses \in [Client -> 0 .. MaxStarts] /\ starts \in 0 .. MaxStarts
        /\ \A d \in Client : addresses[d] <= starts
        /\ MaxStarts \in Nat
    BY ChatAssumption DEF TInv, TypeOK, AddressesSent
  <1>2. PICK n \in Nat : n <= addresses[c] /\ addresses' = [addresses EXCEPT ![c] = n]
    <2>1. CASE TakeAddress(c)
      <3>1. addresses[c] > 0 /\ addresses[c] \in Nat
        BY <1>1, <2>1 DEF TakeAddress
      <3>2. addresses[c] - 1 \in Nat /\ addresses[c] - 1 <= addresses[c]
        BY <3>1
      <3>3. addresses' = [addresses EXCEPT ![c] = addresses[c] - 1]
        BY <2>1 DEF TakeAddress
      <3> QED
        BY <3>2, <3>3
    <2>2. CASE addresses' = [addresses EXCEPT ![c] = 0]
      <3>1. 0 \in Nat /\ 0 <= addresses[c]
        BY <1>1
      <3> QED
        BY <2>2, <3>1
    <2> QED
      BY <2>1, <2>2
  <1>3. n \in 0 .. MaxStarts /\ n <= starts
    BY <1>1, <1>2
  <1>4. addresses' \in [Client -> 0 .. MaxStarts]
    BY <1>1, <1>2, <1>3
  <1>5. \A d \in Client : addresses'[d] <= starts
    BY <1>1, <1>2, <1>3
  <1> QED
    BY <1>4, <1>5 DEF AddressesSent

LEMMA ClientTypes ==
    ASSUME TInv, NEW c \in Client,
           \/ BeginConnecting(c) \/ Connected(c) \/ NotConnected(c) \/ ConnectedLate(c)
           \/ Say(c) \/ Stop(c)
    PROVE  TInv'
  <1> USE DEF TInv
  <1>1. CASE BeginConnecting(c)
    <2>1. addresses' \in [Client -> 0 .. MaxStarts] /\ AddressesSent'
      BY <1>1, AddressTypes DEF BeginConnecting
    <2> QED
      BY <1>1, <2>1 DEF TypeOK, BeginConnecting, ServerSide, Channels
  <1>2. CASE Connected(c)
    BY <1>2, SentType DEF TypeOK, AddressesSent, Connected, EnterGame, ServerSide
  <1>3. CASE NotConnected(c)
    <2>1. addresses' \in [Client -> 0 .. MaxStarts] /\ AddressesSent'
      BY <1>3, AddressTypes DEF NotConnected
    <2> QED
      BY <1>3, <2>1, SentType DEF TypeOK, NotConnected, EnterGame, ServerSide
  <1>4. CASE ConnectedLate(c)
    BY <1>4 DEF TypeOK, AddressesSent, ConnectedLate, ServerSide, Channels
  <1>5. CASE Say(c)
    <2>1. typed \in [Client -> 0 .. MaxLines] /\ typed[c] < MaxLines
          /\ typed' = [typed EXCEPT ![c] = typed[c] + 1]
      BY <1>5 DEF TypeOK, Say
    <2>2. typed[c] + 1 \in 0 .. MaxLines
      BY <2>1, ChatAssumption
    <2>3. typed' \in [Client -> 0 .. MaxLines]
      BY <2>1, <2>2
    <2>4. toServer' \in [Client -> Seq({"name", "line"})]
      BY <1>5, SentType DEF Say
    <2> QED
      BY <1>5, <2>3, <2>4 DEF TypeOK, AddressesSent, Say, ServerSide
  <1>6. CASE Stop(c)
    <2>1. addresses' \in [Client -> 0 .. MaxStarts] /\ AddressesSent'
      BY <1>6, AddressTypes DEF Stop
    <2> QED
      BY <1>6, <2>1 DEF TypeOK, Stop, ServerSide, Channels
  <1> QED
    BY <1>1, <1>2, <1>3, <1>4, <1>5, <1>6

LEMMA ReadTypes ==
    ASSUME TInv, NEW c \in Client, ReadAddress(c) \/ ReadInfo(c)
    PROVE  TInv'
  <1> USE DEF TInv
  <1>1. CASE ReadAddress(c)
    <2>1. others' \in [Client -> Seq(Ids \cup {Address})]
      BY <1>1 DEF TypeOK, ReadAddress, Ids
    <2>2. addresses' \in [Client -> 0 .. MaxStarts] /\ AddressesSent'
      BY <1>1, AddressTypes DEF ReadAddress
    <2> QED
      BY <1>1, <2>1, <2>2 DEF TypeOK, ReadAddress, ServerSide, Channels, Ids
  <1>2. CASE ReadInfo(c)
    <2>1. fromServer[c] \in Seq(Ids) /\ fromServer[c] # <<>>
      BY <1>2 DEF TypeOK, ReadInfo, Ids
    <2>2. Head(fromServer[c]) \in Ids /\ Tail(fromServer[c]) \in Seq(Ids)
      BY <2>1, TailOccurrence
    <2>3. others' \in [Client -> Seq(Ids \cup {Address})]
      BY <1>2, <2>2, SMTT(30) DEF TypeOK, ReadInfo, Ids
    <2>4. fromServer' \in [Client -> Seq(Ids)]
      BY <1>2, <2>2 DEF TypeOK, ReadInfo, Ids
    <2> QED
      BY <1>2, <2>3, <2>4 DEF TypeOK, AddressesSent, ReadInfo, ServerSide, Ids
  <1> QED
    BY <1>1, <1>2

\* The ids a newcomer is told are a finite set of ids that were given.
LEMMA ToldToNewcomer ==
    ASSUME TypeOK, NEW c \in Client, c \notin DOMAIN clients
    PROVE  /\ Introductions(c)[c] = {clients[e].id : e \in DOMAIN clients}
           /\ IsFiniteSet(Introductions(c)[c])
           /\ Introductions(c)[c] \subseteq Ids
           /\ \A d \in Client : d # c =>
                Introductions(c)[d] = IF d \in DOMAIN clients THEN {id_counter} ELSE {}
  <1>1. Introductions(c)[c] = {clients[e].id : e \in DOMAIN clients \ {c}}
    BY DEF Introductions
  <1>2. DOMAIN clients \ {c} = DOMAIN clients
    OBVIOUS
  <1>3. \A e \in DOMAIN clients : clients[e] \in Info
    BY DEF TypeOK, IsTable, Info
  <1>4. \A e \in DOMAIN clients : clients[e].id \in Ids
    BY <1>3 DEF Info, Ids
  <1>5. Introductions(c)[c] \subseteq Ids
    BY <1>1, <1>2, <1>4
  <1>6. IsFiniteSet(Ids)
    <2>1. 0 \in Int /\ id_counter - 1 \in Int
      BY DEF TypeOK
    <2> QED
      BY <2>1, FS_Interval DEF Ids
  <1>7. IsFiniteSet(Introductions(c)[c])
    BY <1>5, <1>6, FS_Subset
  <1> QED
    BY <1>1, <1>2, <1>5, <1>7 DEF Introductions

\* What add_new_client writes.
LEMMA Newcomer ==
    ASSUME TypeOK, NEW c \in Client, c \notin DOMAIN clients, NEW name,
           add_new_client(c, name)
    PROVE  /\ id_counter' = id_counter + 1
           /\ DOMAIN clients' = DOMAIN clients \cup {c}
           /\ clients' = [d \in DOMAIN clients' |-> clients'[d]]
           /\ clients'[c] = [id |-> id_counter, name |-> name]
           /\ \A d \in DOMAIN clients : d # c /\ clients'[d] = clients[d]
           /\ DOMAIN fromServer' = Client
           /\ fromServer' = [d \in Client |-> fromServer'[d]]
           /\ \E order \in Listings({clients[e].id : e \in DOMAIN clients}) :
                /\ order \in Seq(Ids)
                /\ fromServer'[c] = fromServer[c] \o order
           /\ \A d \in Client : d # c => fromServer'[d] =
                IF d \in DOMAIN clients THEN Append(fromServer[d], id_counter)
                ELSE fromServer[d]
  <1>1. /\ id_counter' = id_counter + 1
        /\ clients' = Put(clients, c, [id |-> id_counter, name |-> name])
    BY DEF add_new_client
  <1>2. /\ DOMAIN clients' = DOMAIN clients \cup {c}
        /\ clients' = [d \in DOMAIN clients' |-> clients'[d]]
        /\ clients'[c] = [id |-> id_counter, name |-> name]
        /\ \A d \in DOMAIN clients : d # c /\ clients'[d] = clients[d]
    BY <1>1 DEF Put
  <1>3. PICK order \in Listings(Introductions(c)[c]) :
          fromServer' = [d \in Client |->
             IF d = c THEN fromServer[d] \o order
             ELSE IF Introductions(c)[d] = {} THEN fromServer[d]
             ELSE Append(fromServer[d], id_counter)]
    BY DEF add_new_client
  <1>4. order \in Seq(Introductions(c)[c])
    <2>1. IsFiniteSet(Introductions(c)[c])
      BY ToldToNewcomer
    <2> QED
      BY <1>3, <2>1, ListingOccurrence
  <1>5. order \in Seq(Ids)
    <2>1. Introductions(c)[c] \subseteq Ids
      BY ToldToNewcomer
    <2> QED
      BY <1>4, <2>1, LargerRange
  <1>6. order \in Listings({clients[e].id : e \in DOMAIN clients})
    BY <1>3, ToldToNewcomer
  <1>7. /\ DOMAIN fromServer' = Client
        /\ fromServer' = [d \in Client |-> fromServer'[d]]
        /\ fromServer'[c] = fromServer[c] \o order
    BY <1>3
  <1>8. \A d \in Client : d # c => fromServer'[d] =
          IF d \in DOMAIN clients THEN Append(fromServer[d], id_counter) ELSE fromServer[d]
    <2>1. \A d \in Client : d # c =>
            Introductions(c)[d] = IF d \in DOMAIN clients THEN {id_counter} ELSE {}
      BY ToldToNewcomer
    <2> QED
      BY <1>3, <2>1
  <1> QED
    BY <1>1, <1>2, <1>5, <1>6, <1>7, <1>8

LEMMA ServerTypes ==
    ASSUME TInv, NEW c \in Client, ServerReceives(c) \/ ServerLoses(c)
    PROVE  TInv'
  <1> USE DEF TInv
  <1>1. CASE ServerReceives(c)
    <2>1. toServer[c] \in Seq({"name", "line"}) /\ toServer[c] # <<>>
      BY <1>1 DEF TypeOK, ServerReceives
    <2>2. Head(toServer[c]) \in {"name", "line"} /\ Tail(toServer[c]) \in Seq({"name", "line"})
      BY <2>1, TailOccurrence
    <2>3. toServer' \in [Client -> Seq({"name", "line"})]
      BY <1>1, <2>2 DEF TypeOK, ServerReceives
    <2>4. CASE c \in DOMAIN clients
      BY <1>1, <2>3, <2>4 DEF TypeOK, AddressesSent, ServerReceives, ServerSide
    <2>5. CASE c \notin DOMAIN clients
      <3> DEFINE name == Head(toServer[c])
      <3>1. add_new_client(c, name)
        BY <1>1, <2>5 DEF ServerReceives
      <3>2. name \in {"name", "line"}
        BY <2>2
      <3> HIDE DEF name
      <3>3. id_counter \in Nat /\ id_counter' = id_counter + 1
        BY <2>5, <3>1, Newcomer DEF TypeOK
      <3>4. Ids \subseteq Ids' /\ id_counter \in Ids' /\ id_counter' \in Nat
        BY <3>3 DEF Ids
      <3>5. IsTable(clients', Client, Info')
        <4>1. \A d \in DOMAIN clients : d \in Client /\ clients[d] \in Info
          BY DEF TypeOK, IsTable, Info
        <4>2. Info \subseteq Info' /\ [id |-> id_counter, name |-> name] \in Info'
          BY <3>2, <3>4 DEF Info, Ids
        <4>3. \A d \in DOMAIN clients' : d \in Client /\ clients'[d] \in Info'
          <5>1. /\ DOMAIN clients' = DOMAIN clients \cup {c}
                /\ clients'[c] = [id |-> id_counter, name |-> name]
                /\ \A d \in DOMAIN clients : clients'[d] = clients[d]
            BY <2>5, <3>1, Newcomer
          <5> QED
            BY <4>1, <4>2, <5>1
        <4>4. clients' = [d \in DOMAIN clients' |-> clients'[d]]
          BY <2>5, <3>1, Newcomer
        <4> QED
          BY <4>3, <4>4 DEF IsTable
      <3>6. others' \in [Client -> Seq(Ids' \cup {Address})]
        <4>1. others' = others /\ others \in [Client -> Seq(Ids \cup {Address})]
          BY <1>1 DEF TypeOK, ServerReceives, Ids
        <4>2. Ids \cup {Address} \subseteq Ids' \cup {Address}
          BY <3>4
        <4>3. \A d \in Client : others[d] \in Seq(Ids' \cup {Address})
          BY <4>1, <4>2, LargerRange
        <4> QED
          BY <4>1, <4>3
      <3>7. fromServer' \in [Client -> Seq(Ids')]
        <4>1. \A d \in Client : fromServer[d] \in Seq(Ids)
          BY DEF TypeOK, Ids
        <4>2. \A d \in Client : fromServer[d] \in Seq(Ids')
          BY <3>4, <4>1, LargerRange
        <4>3. fromServer'[c] \in Seq(Ids')
          <5>1. PICK order \in Seq(Ids) : fromServer'[c] = fromServer[c] \o order
            BY <2>5, <3>1, Newcomer
          <5>2. order \in Seq(Ids')
            BY <3>4, <5>1, LargerRange
          <5> QED
            BY <4>2, <5>1, <5>2
        <4>4. ASSUME NEW d \in Client, d # c PROVE fromServer'[d] \in Seq(Ids')
          <5>1. fromServer'[d] = IF d \in DOMAIN clients THEN Append(fromServer[d], id_counter)
                                 ELSE fromServer[d]
            BY <2>5, <3>1, <4>4, Newcomer
          <5> QED
            BY <3>4, <4>2, <5>1
        <4>5. \A d \in Client : fromServer'[d] \in Seq(Ids')
          BY <4>3, <4>4
        <4>6. fromServer' = [d \in Client |-> fromServer'[d]]
          BY <2>5, <3>1, Newcomer
        <4> QED
          BY <4>5, <4>6
      <3> QED
        BY <1>1, <2>3, <3>3, <3>5, <3>6, <3>7
        DEF TypeOK, AddressesSent, ServerReceives, Info, Ids
    <2> QED
      BY <2>4, <2>5
  <1>2. CASE ServerLoses(c)
    <2>1. IsTable(clients', Client, Info)
      <3>1. clients' = [d \in DOMAIN clients \ {c} |-> clients[d]]
        BY <1>2 DEF ServerLoses, Erase
      <3>2. \A d \in DOMAIN clients : d \in Client /\ clients[d] \in Info
        BY DEF TypeOK, IsTable, Info
      <3> QED
        BY <3>1, <3>2 DEF IsTable
    <2> QED
      BY <1>2, <2>1 DEF TypeOK, AddressesSent, ServerLoses, Info
  <1> QED
    BY <1>1, <1>2

LEMMA TypesStep ==
    ASSUME TInv, [Next]_vars
    PROVE  TInv'
  <1>1. CASE Next
    <2>1. CASE LobbyStarts
      BY <2>1, LobbyTypes
    <2>2. ASSUME NEW c \in Client,
                 \/ BeginConnecting(c) \/ Connected(c) \/ NotConnected(c) \/ ConnectedLate(c)
                 \/ Say(c) \/ Stop(c)
          PROVE  TInv'
      BY <2>2, ClientTypes
    <2>3. ASSUME NEW c \in Client, ReadAddress(c) \/ ReadInfo(c) PROVE TInv'
      BY <2>3, ReadTypes
    <2>4. ASSUME NEW c \in Client, ServerReceives(c) \/ ServerLoses(c) PROVE TInv'
      BY <2>4, ServerTypes
    <2> QED
      BY <1>1, <2>1, <2>2, <2>3, <2>4 DEF Next
  <1>2. CASE UNCHANGED vars
    BY <1>2 DEF TInv, TypeOK, AddressesSent, vars
  <1> QED
    BY <1>1, <1>2

\* Whatever is typed, sent and lost, every id that a client is told was given.
THEOREM ChatTypes == Spec => []TypeOK
  <1>1. Init => TInv
    BY InitTypes
  <1>2. TInv /\ [Next]_vars => TInv'
    BY TypesStep
  <1>3. TInv => TypeOK
    BY DEF TInv
  <1> QED
    BY <1>1, <1>2, <1>3, PTL DEF Spec

-----------------------------------------------------------------------------
(***************************************************************************)
(* Names.                                                                  *)
(***************************************************************************)

\* Nothing of what NameFirst says of d has changed.
SameName(d) ==
    /\ phase'[d] = phase[d] /\ interrupted'[d] = interrupted[d]
    /\ toServer'[d] = toServer[d]
    /\ d \in DOMAIN clients' <=> d \in DOMAIN clients
    /\ d \in DOMAIN clients => clients'[d] = clients[d]

LEMMA SameNameStep ==
    ASSUME NEW d \in Client, SameName(d), ~interrupted[d] => NameFirst(d)
    PROVE  ~interrupted'[d] => NameFirst(d)'
  BY DEF SameName, NameFirst

\* The steps of c leave the others' names alone.
LEMMA OthersNames ==
    ASSUME TypeOK, NEW c \in Client, NEW d \in Client, d # c,
           \/ BeginConnecting(c) \/ Connected(c) \/ NotConnected(c) \/ ConnectedLate(c)
           \/ ReadAddress(c) \/ ReadInfo(c) \/ Say(c) \/ Stop(c)
           \/ ServerReceives(c) \/ ServerLoses(c)
    PROVE  SameName(d)
  <1> USE DEF SameName, TypeOK
  <1>1. CASE BeginConnecting(c)
    BY <1>1 DEF BeginConnecting, ServerSide, Channels
  <1>2. CASE Connected(c)
    BY <1>2 DEF Connected, EnterGame, Sent, ServerSide
  <1>3. CASE NotConnected(c)
    BY <1>3 DEF NotConnected, EnterGame, Sent, ServerSide
  <1>4. CASE ConnectedLate(c) \/ ReadAddress(c) \/ ReadInfo(c)
    BY <1>4 DEF ConnectedLate, ReadAddress, ReadInfo, ServerSide, Channels
  <1>5. CASE Say(c)
    BY <1>5 DEF Say, Sent, ServerSide
  <1>6. CASE Stop(c)
    BY <1>6 DEF Stop, ServerSide, Channels
  <1>7. CASE ServerReceives(c)
    <2>1. phase' = phase /\ interrupted' = interrupted /\ toServer'[d] = toServer[d]
      BY <1>7 DEF ServerReceives
    <2>2. CASE c \in DOMAIN clients
      BY <1>7, <2>1, <2>2 DEF ServerReceives, ServerSide
    <2>3. CASE c \notin DOMAIN clients
      <3> DEFINE name == Head(toServer[c])
      <3>1. add_new_client(c, name)
        BY <1>7, <2>3 DEF ServerReceives
      <3> HIDE DEF name
      <3>2. /\ DOMAIN clients' = DOMAIN clients \cup {c}
            /\ \A e \in DOMAIN clients : clients'[e] = clients[e]
        BY <2>3, <3>1, Newcomer
      <3> QED
        BY <2>1, <3>2
    <2> QED
      BY <2>2, <2>3
  <1>8. CASE ServerLoses(c)
    <2>1. clients' = [e \in DOMAIN clients \ {c} |-> clients[e]]
      BY <1>8 DEF ServerLoses, Erase
    <2>2. phase' = phase /\ interrupted' = interrupted /\ toServer'[d] = toServer[d]
      BY <1>8 DEF ServerLoses
    <2> QED
      BY <2>1, <2>2
  <1> QED
    BY <1>1, <1>2, <1>3, <1>4, <1>5, <1>6, <1>7, <1>8

\* What is put behind the packets of a client leaves the first one first.
LEMMA FirstStays ==
    ASSUME NEW S, NEW s \in Seq(S), NEW x \in S
    PROVE  /\ Append(s, x) # <<>>
           /\ Head(Append(s, x)) = IF s = <<>> THEN x ELSE Head(s)
  <1> DEFINE t == Append(s, x)
  <1>1. t \in Seq(S) /\ Len(s) \in Nat /\ Len(t) = Len(s) + 1
    OBVIOUS
  <1>2. t # <<>>
    BY <1>1
  <1>3. Head(t) = t[1]
    OBVIOUS
  <1>4. CASE s = <<>>
    BY <1>3, <1>4
  <1>5. CASE s # <<>>
    <2>1. 1 \in 1 .. Len(s) /\ Head(s) = s[1]
      BY <1>5
    <2>2. t[1] = s[1]
      BY <2>1
    <2> QED
      BY <1>3, <1>5, <2>1, <2>2
  <1> QED
    BY <1>2, <1>4, <1>5

LEMMA NameStays ==
    ASSUME NEW s \in Seq({"name", "line"}), NEW x \in {"name", "line"}
    PROVE  /\ Append(s, x) # <<>>
           /\ s = <<>> => Head(Append(s, x)) = x
           /\ s # <<>> => Head(Append(s, x)) = Head(s)
  BY FirstStays

\* The client's own steps.
LEMMA OwnName ==
    ASSUME TypeOK, NEW c \in Client, ~interrupted[c] => NameFirst(c),
           \/ BeginConnecting(c) \/ Connected(c) \/ NotConnected(c) \/ ConnectedLate(c)
           \/ ReadAddress(c) \/ ReadInfo(c) \/ Say(c) \/ Stop(c)
    PROVE  ~interrupted'[c] => NameFirst(c)'
  <1> USE DEF NameFirst
  <1>1. toServer \in [Client -> Seq({"name", "line"})] /\ toServer[c] \in Seq({"name", "line"})
        /\ phase \in [Client -> {"lobby", "connecting", "in_game", "gone"}]
        /\ link \in [Client -> {"none", "connecting", "up"}]
        /\ interrupted \in [Client -> BOOLEAN]
    BY DEF TypeOK
  <1>2. CASE BeginConnecting(c)
    BY <1>1, <1>2 DEF BeginConnecting, ServerSide, Channels
  <1>3. CASE Connected(c)
    <2>1. /\ phase[c] = "connecting" /\ phase'[c] = "in_game"
          /\ clients' = clients /\ interrupted' = interrupted
          /\ toServer'[c] = Append(toServer[c], "name")
      BY <1>1, <1>3 DEF Connected, EnterGame, Sent, ServerSide
    <2>2. ~interrupted[c] => toServer[c] = <<>>
      BY <2>1
    <2>3. toServer'[c] # <<>> /\ (toServer[c] = <<>> => Head(toServer'[c]) = "name")
      <3>1. "name" \in {"name", "line"}
        OBVIOUS
      <3> QED
        BY <1>1, <2>1, <3>1, NameStays
    <2> QED
      BY <2>1, <2>2, <2>3
  <1>4. CASE NotConnected(c)
    BY <1>1, <1>4 DEF NotConnected
  <1>5. CASE ConnectedLate(c) \/ ReadAddress(c) \/ ReadInfo(c)
    BY <1>1, <1>5 DEF ConnectedLate, ReadAddress, ReadInfo, ServerSide, Channels
  <1>6. CASE Say(c)
    <2>1. /\ phase[c] = "in_game" /\ phase' = phase
          /\ clients' = clients /\ interrupted' = interrupted
          /\ toServer'[c] \in {toServer[c], Append(toServer[c], "line")}
      BY <1>1, <1>6 DEF Say, Sent, ServerSide
    <2>2. CASE toServer'[c] = toServer[c]
      BY <2>1, <2>2
    <2>3. CASE toServer'[c] = Append(toServer[c], "line")
      <3>1. toServer'[c] # <<>>
            /\ (toServer[c] # <<>> => Head(toServer'[c]) = Head(toServer[c]))
        <4>1. "line" \in {"name", "line"}
          OBVIOUS
        <4> QED
          BY <1>1, <2>3, <4>1, NameStays
      <3> QED
        BY <2>1, <3>1
    <2> QED
      BY <2>1, <2>2, <2>3
  <1>7. CASE Stop(c)
    BY <1>1, <1>7 DEF Stop, ServerSide, Channels
  <1> QED
    BY <1>2, <1>3, <1>4, <1>5, <1>6, <1>7

\* The server's steps about the client.
LEMMA ListedName ==
    ASSUME TypeOK, NEW c \in Client, ~interrupted[c] => NameFirst(c),
           ServerReceives(c) \/ ServerLoses(c)
    PROVE  ~interrupted'[c] => NameFirst(c)'
  <1> USE DEF NameFirst
  <1>1. CASE ServerReceives(c)
    <2>1. phase' = phase /\ interrupted' = interrupted /\ toServer[c] # <<>>
      BY <1>1 DEF ServerReceives
    <2>2. ~interrupted[c] => phase[c] \notin {"lobby", "connecting"}
      BY <2>1
    <2>3. CASE c \in DOMAIN clients
      BY <1>1, <2>1, <2>2, <2>3 DEF ServerReceives, ServerSide
    <2>4. CASE c \notin DOMAIN clients
      <3> DEFINE name == Head(toServer[c])
      <3>1. add_new_client(c, name) /\ (~interrupted[c] => name = "name")
        BY <1>1, <2>1, <2>4 DEF ServerReceives
      <3> HIDE DEF name
      <3>2. /\ DOMAIN clients' = DOMAIN clients \cup {c}
            /\ clients'[c] = [id |-> id_counter, name |-> name]
        BY <2>4, <3>1, Newcomer
      <3> QED
        BY <2>1, <2>2, <3>1, <3>2
    <2> QED
      BY <2>3, <2>4
  <1>2. CASE ServerLoses(c)
    <2>1. clients' = [e \in DOMAIN clients \ {c} |-> clients[e]]
      BY <1>2 DEF ServerLoses, Erase
    <2>2. phase' = phase /\ phase[c] = "gone" /\ toServer'[c] = <<>>
      BY <1>2 DEF ServerLoses, TypeOK
    <2> QED
      BY <2>1, <2>2
  <1> QED
    BY <1>1, <1>2

LEMMA NamesStep ==
    ASSUME TInv, NamesFirst, [Next]_vars
    PROVE  NamesFirst'
  <1> SUFFICES ASSUME NEW d \in Client PROVE ~interrupted'[d] => NameFirst(d)'
    BY DEF NamesFirst
  <1>1. TypeOK /\ (~interrupted[d] => NameFirst(d))
    BY DEF TInv, NamesFirst
  <1>2. CASE LobbyStarts
    BY <1>1, <1>2, SameNameStep DEF LobbyStarts, SameName, ServerSide, Channels
  <1>3. CASE UNCHANGED vars
    BY <1>1, <1>3, SameNameStep DEF vars, SameName
  <1>4. ASSUME NEW c \in Client,
               \/ BeginConnecting(c) \/ Connected(c) \/ NotConnected(c) \/ ConnectedLate(c)
               \/ ReadAddress(c) \/ ReadInfo(c) \/ Say(c) \/ Stop(c)
               \/ ServerReceives(c) \/ ServerLoses(c)
        PROVE  ~interrupted'[d] => NameFirst(d)'
    <2>1. CASE c # d
      <3>1. SameName(d)
        BY <1>1, <1>4, <2>1, OthersNames
      <3> QED
        BY <1>1, <3>1, SameNameStep
    <2>2. CASE c = d
      BY <1>1, <1>4, <2>2, OwnName, ListedName
    <2> QED
      BY <2>1, <2>2
  <1> QED
    BY <1>2, <1>3, <1>4 DEF Next

\* A client that was connected when its wait for the server ended is listed
\* under its name, whatever it types meanwhile.
THEOREM NamedRight == Spec => []RightName
  <1>1. Init => TInv /\ NamesFirst
    <2>1. Init => NamesFirst
      BY DEF Init, NamesFirst, NameFirst, NoEntries
    <2> QED
      BY <2>1, InitTypes
  <1>2. TInv /\ NamesFirst /\ [Next]_vars => TInv' /\ NamesFirst'
    BY TypesStep, NamesStep
  <1>3. TInv /\ NamesFirst => RightName
    BY DEF TInv, TypeOK, IsTable, NamesFirst, NameFirst, RightName
  <1> QED
    BY <1>1, <1>2, <1>3, PTL DEF Spec

-----------------------------------------------------------------------------
(***************************************************************************)
(* Introductions.                                                          *)
(***************************************************************************)
MInv == TInv /\ OwnIds /\ AllMet

\* What the invariant says of the lists of a client.
LEMMA Listed ==
    ASSUME TypeOK, NEW d \in Client
    PROVE  /\ others[d] \in Seq(Ids \cup {Address})
           /\ fromServer[d] \in Seq(Ids)
           /\ id_counter \in Nat /\ id_counter \notin Ids \cup {Address} /\ Ids \subseteq Nat
           /\ NeverTold(d, id_counter)
           /\ \A e \in DOMAIN clients : e \in Client /\ clients[e].id \in Ids
  <1>1. others[d] \in Seq(Ids \cup {Address}) /\ fromServer[d] \in Seq(Ids)
    BY DEF TypeOK, Ids
  <1>2. id_counter \in Nat /\ id_counter \notin Ids \cup {Address} /\ Ids \subseteq Nat
    BY DEF TypeOK, Ids, Address
  <1>3. \A n \in DOMAIN others[d] : others[d][n] \in Ids \cup {Address}
    BY <1>1
  <1>4. \A n \in DOMAIN fromServer[d] : fromServer[d][n] \in Ids
    BY <1>1
  <1>5. NeverTold(d, id_counter)
    BY <1>2, <1>3, <1>4 DEF NeverTold, Never
  <1>6. \A e \in DOMAIN clients : e \in Client /\ clients[e] \in Info
    BY DEF TypeOK, IsTable, Info
  <1> QED
    BY <1>1, <1>2, <1>5, <1>6 DEF Info, Ids

\* A step that neither lists nor tells anybody.
LEMMA NobodyTold ==
    ASSUME OwnIds, AllMet,
           clients' = clients, others' = others, fromServer' = fromServer,
           \A d \in Client : phase'[d] # "gone" => phase[d] # "gone"
    PROVE  OwnIds' /\ AllMet'
  BY DEF OwnIds, AllMet, Met, NeverTold, OnceTold

\* A step in which c reads, and has still been told what it had been told.
LEMMA OneReads ==
    ASSUME TypeOK, OwnIds, AllMet, NEW c \in Client,
           clients' = clients, phase' = phase,
           \A d \in Client : d # c => others'[d] = others[d] /\ fromServer'[d] = fromServer[d],
           \A i \in Nat : /\ NeverTold(c, i) => NeverTold(c, i)'
                          /\ OnceTold(c, i) => OnceTold(c, i)'
    PROVE  OwnIds' /\ AllMet'
  <1>1. OwnIds'
    BY DEF OwnIds
  <1>2. ASSUME NEW d \in Client, phase'[d] # "gone" PROVE Met(d)'
    <2>1. Met(d)
      BY <1>2 DEF AllMet
    <2>2. CASE d # c
      BY <2>1, <2>2 DEF Met, NeverTold, OnceTold
    <2>3. CASE d = c
      <3>1. \A e \in DOMAIN clients : clients[e].id \in Nat
        BY Listed
      <3>2. c \notin DOMAIN clients => \A i \in Nat : NeverTold(c, i)'
        BY <2>1, <2>3 DEF Met
      <3>3. ASSUME c \in DOMAIN clients, NEW e \in DOMAIN clients
            PROVE  /\ c = e => NeverTold(c, clients[e].id)'
                   /\ c # e => OnceTold(c, clients[e].id)'
        <4>1. PICK i \in Nat : i = clients[e].id /\ i = clients'[e].id
          BY <3>1, <3>3
        <4>2. (c = e => NeverTold(c, i)) /\ (c # e => OnceTold(c, i))
          BY <2>1, <2>3, <3>3, <4>1 DEF Met
        <4>3. (c = e => NeverTold(c, i)') /\ (c # e => OnceTold(c, i)')
          BY <4>2
        <4> QED
          BY <4>1, <4>3 DEF NeverTold, OnceTold
      <3> QED
        BY <2>3, <3>2, <3>3 DEF Met, NeverTold, OnceTold
    <2> QED
      BY <2>2, <2>3
  <1> QED
    BY <1>1, <1>2 DEF AllMet

LEMMA ReadMet ==
    ASSUME MInv, NEW c \in Client, ReadAddress(c) \/ ReadInfo(c)
    PROVE  OwnIds' /\ AllMet'
  <1>1. /\ TypeOK /\ OwnIds /\ AllMet
        /\ clients' = clients /\ phase' = phase
    BY DEF MInv, TInv, ReadAddress, ReadInfo, ServerSide
  <1>2. /\ others \in [Client -> Seq(Ids \cup {Address})]
        /\ fromServer \in [Client -> Seq(Ids)]
    BY <1>1 DEF TypeOK, Ids
  <1>3. others[c] \in Seq(Ids \cup {Address}) /\ fromServer[c] \in Seq(Ids)
    BY <1>2
  <1>4. \A d \in Client : d # c => others'[d] = others[d] /\ fromServer'[d] = fromServer[d]
    BY <1>2 DEF ReadAddress, ReadInfo, Channels
  <1>5. ASSUME NEW i \in Nat
        PROVE  /\ NeverTold(c, i) => NeverTold(c, i)'
               /\ OnceTold(c, i) => OnceTold(c, i)'
    <2>1. CASE ReadAddress(c)
      <3>1. others'[c] = Append(others[c], Address) /\ fromServer'[c] = fromServer[c]
        BY <1>2, <2>1 DEF ReadAddress, Channels
      <3>2. Address \in Ids \cup {Address} /\ Address # i
        BY DEF Address
      <3>3. /\ Never(others[c], i) => Never(others'[c], i)
            /\ Once(others[c], i) => Once(others'[c], i)
        BY <1>3, <3>1, <3>2, AppendOccurrence
      <3> QED
        BY <3>1, <3>3 DEF NeverTold, OnceTold
    <2>2. CASE ReadInfo(c)
      <3> DEFINE s == fromServer[c]
      <3>1. /\ others'[c] = Append(others[c], Head(s)) /\ fromServer'[c] = Tail(s)
            /\ s \in Seq(Ids) /\ s # <<>>
        BY <1>2, <2>2 DEF ReadInfo
      <3> HIDE DEF s
      <3>2. /\ Head(s) \in Ids /\ Tail(s) \in Seq(Ids)
            /\ Never(s, i) => Head(s) # i /\ Never(Tail(s), i)
            /\ Once(s, i) => \/ Head(s) = i /\ Never(Tail(s), i)
                             \/ Head(s) # i /\ Once(Tail(s), i)
        BY <3>1, TailOccurrence
      <3>3. Head(s) \in Ids \cup {Address}
        BY <3>2
      <3>4. /\ Never(others[c], i) /\ Head(s) # i => Never(others'[c], i)
            /\ Never(others[c], i) /\ Head(s) = i => Once(others'[c], i)
            /\ Once(others[c], i) /\ Head(s) # i => Once(others'[c], i)
        BY <1>3, <3>1, <3>3, AppendOccurrence, SMTT(30)
      <3> QED
        BY <3>1, <3>2, <3>4 DEF NeverTold, OnceTold, s
    <2> QED
      BY <2>1, <2>2
  <1> QED
    BY <1>1, <1>4, <1>5, OneReads

\* Somebody that was listed is told of the newcomer, and of nobody else.
LEMMA OldcomerMet ==
    ASSUME TypeOK, NEW d \in Client, NEW t, t = Append(fromServer[d], id_counter), NEW i \in Nat
    PROVE  /\ i = id_counter => Never(others[d], i) /\ Once(t, i)
           /\ i # id_counter /\ Never(fromServer[d], i) => Never(t, i)
           /\ i # id_counter /\ Once(fromServer[d], i) => Once(t, i)
  <1>1. fromServer[d] \in Seq(Nat) /\ id_counter \in Nat /\ NeverTold(d, id_counter)
    <2>1. fromServer[d] \in Seq(Ids) /\ Ids \subseteq Nat
      BY Listed
    <2>2. fromServer[d] \in Seq(Nat)
      BY <2>1, LargerRange
    <2> QED
      BY <2>2, Listed
  <1> DEFINE s == fromServer[d]
             x == id_counter
  <1>2. s \in Seq(Nat) /\ x \in Nat
    BY <1>1
  <1>3. Never(others[d], x) /\ Never(s, x)
    BY <1>1 DEF NeverTold
  <1>4. t = Append(s, x)
    OBVIOUS
  <1> HIDE DEF s, x
  <1>5. /\ Never(s, i) /\ x # i => Never(t, i)
        /\ Never(s, i) /\ x = i => Once(t, i)
        /\ Once(s, i) /\ x # i => Once(t, i)
    BY <1>2, <1>4, AppendOccurrence
  <1> QED
    BY <1>3, <1>5 DEF s, x

\* The newcomer is told of everybody that was listed, and not of itself.
LEMMA NewcomerMet ==
    ASSUME MInv, NEW c \in Client, c \notin DOMAIN clients, phase[c] # "gone",
           NEW order \in Listings({clients[e].id : e \in DOMAIN clients}),
           NEW t, t = fromServer[c] \o order
    PROVE  /\ Never(others[c], id_counter) /\ Never(t, id_counter)
           /\ \A e \in DOMAIN clients :
                Never(others[c], clients[e].id) /\ Once(t, clients[e].id)
  <1> DEFINE known == {clients[e].id : e \in DOMAIN clients}
  <1>1. TypeOK /\ \A i \in Nat : NeverTold(c, i)
    BY DEF MInv, TInv, AllMet, Met
  <1>2. known = Introductions(c)[c] /\ IsFiniteSet(Introductions(c)[c])
        /\ Introductions(c)[c] \subseteq Ids
    BY <1>1, ToldToNewcomer
  <1>3. IsFiniteSet(known) /\ known \subseteq Ids /\ order \in Listings(known)
    BY <1>2
  <1>4. fromServer[c] \in Seq(Ids) /\ Ids \subseteq Nat /\ id_counter \in Nat /\ id_counter \notin Ids
    BY <1>1, Listed
  <1>5. \A e \in DOMAIN clients : clients[e].id \in known
    OBVIOUS
  <1> HIDE DEF known
  <1>6. order \in Seq(known)
    BY <1>3, ListingOccurrence
  <1>7. order \in Seq(Ids)
    BY <1>3, <1>6, LargerRange
  <1>8. Never(order, id_counter)
    <2>1. id_counter \notin known
      BY <1>3, <1>4
    <2> QED
      BY <1>3, <2>1, ListingOccurrence
  <1>9. \A i \in known : Once(order, i)
    BY <1>3, ListingOccurrence
  <1>10. Never(others[c], id_counter) /\ Never(t, id_counter)
    BY <1>1, <1>4, <1>7, <1>8, NeverConcat DEF NeverTold
  <1>11. \A i \in known : Never(others[c], i) /\ Once(t, i)
    BY <1>1, <1>3, <1>4, <1>7, <1>9, OnceConcat DEF NeverTold
  <1> QED
    BY <1>5, <1>10, <1>11

LEMMA ArrivalMet ==
    ASSUME MInv, NEW c \in Client, c \notin DOMAIN clients, NEW name,
           add_new_client(c, name), others' = others, phase' = phase
    PROVE  OwnIds' /\ AllMet'
  <1>1. TypeOK /\ OwnIds /\ AllMet
    BY DEF MInv, TInv
  <1>2. /\ DOMAIN clients' = DOMAIN clients \cup {c}
        /\ clients'[c].id = id_counter
        /\ \A d \in DOMAIN clients : d # c /\ clients'[d] = clients[d]
    <2>1. /\ DOMAIN clients' = DOMAIN clients \cup {c}
          /\ \A d \in DOMAIN clients : d # c /\ clients'[d] = clients[d]
      BY <1>1, Newcomer
    <2>2. clients'[c] = [id |-> id_counter, name |-> name]
      BY <1>1, Newcomer
    <2>3. clients'[c].id = id_counter
      BY <2>2
    <2> QED
      BY <2>1, <2>3
  <1>3. \A e \in DOMAIN clients : clients[e].id \in Nat /\ clients[e].id # id_counter
    BY <1>1, Listed
  <1>4. OwnIds'
    BY <1>1, <1>2, <1>3 DEF OwnIds
  <1>5. ASSUME NEW d \in Client, d # c, phase[d] # "gone" PROVE Met(d)'
    <2>1. Met(d)
      BY <1>1, <1>5 DEF AllMet
    <2>2. fromServer'[d] = IF d \in DOMAIN clients THEN Append(fromServer[d], id_counter)
                           ELSE fromServer[d]
      BY <1>1, <1>5, Newcomer
    <2>3. CASE d \notin DOMAIN clients
      BY <1>2, <1>5, <2>1, <2>2, <2>3 DEF Met, NeverTold
    <2>4. CASE d \in DOMAIN clients
      <3>1. fromServer'[d] = Append(fromServer[d], id_counter)
        BY <2>2, <2>4
      <3>2. Never(others[d], id_counter) /\ Once(fromServer'[d], id_counter)
        <4>1. id_counter \in Nat
          BY <1>1, Listed
        <4> QED
          BY <1>1, <3>1, <4>1, OldcomerMet
      <3>3. \A i \in Nat : /\ i # id_counter /\ NeverTold(d, i) => NeverTold(d, i)'
                           /\ i # id_counter /\ OnceTold(d, i) => OnceTold(d, i)'
        BY <1>1, <3>1, OldcomerMet DEF NeverTold, OnceTold
      <3>4. \A e \in DOMAIN clients : /\ d = e => NeverTold(d, clients[e].id)
                                      /\ d # e => OnceTold(d, clients[e].id)
        BY <2>1, <2>4 DEF Met
      <3>5. ASSUME NEW e \in DOMAIN clients
            PROVE  /\ d = e => NeverTold(d, clients[e].id)'
                   /\ d # e => OnceTold(d, clients[e].id)'
        <4>1. PICK i \in Nat : i = clients[e].id /\ i = clients'[e].id /\ i # id_counter
          BY <1>2, <1>3
        <4>2. (d = e => NeverTold(d, i)) /\ (d # e => OnceTold(d, i))
          BY <3>4, <4>1
        <4>3. (d = e => NeverTold(d, i)') /\ (d # e => OnceTold(d, i)')
          BY <3>3, <4>1, <4>2
        <4> QED
          BY <4>1, <4>3 DEF NeverTold, OnceTold
      <3>6. OnceTold(d, clients[c].id)'
        BY <1>2, <3>2 DEF OnceTold
      <3> QED
        BY <1>2, <1>5, <2>4, <3>5, <3>6 DEF Met
    <2> QED
      BY <2>3, <2>4
  <1>6. ASSUME phase[c] # "gone" PROVE Met(c)'
    <2>1. PICK order \in Listings({clients[e].id : e \in DOMAIN clients}) :
            fromServer'[c] = fromServer[c] \o order
      BY <1>1, Newcomer
    <2>2. /\ Never(others[c], id_counter) /\ Never(fromServer'[c], id_counter)
          /\ \A e \in DOMAIN clients :
               Never(others[c], clients[e].id) /\ Once(fromServer'[c], clients[e].id)
      BY <1>6, <2>1, NewcomerMet
    <2>3. NeverTold(c, clients[c].id)'
      BY <1>2, <2>2 DEF NeverTold
    <2>4. \A e \in DOMAIN clients : c # e /\ OnceTold(c, clients[e].id)'
      BY <1>2, <2>2 DEF OnceTold
    <2> QED
      BY <1>2, <2>3, <2>4 DEF Met
  <1> QED
    BY <1>4, <1>5, <1>6 DEF AllMet

LEMMA LossMet ==
    ASSUME MInv, NEW c \in Client, ServerLoses(c)
    PROVE  OwnIds' /\ AllMet'
  <1>1. /\ TypeOK /\ OwnIds /\ AllMet
        /\ fromServer \in [Client -> Seq(Ids)]
    BY DEF MInv, TInv, TypeOK, Ids
  <1>2. /\ phase' = phase /\ others' = others /\ phase[c] = "gone"
        /\ clients' = [d \in DOMAIN clients \ {c} |-> clients[d]]
        /\ fromServer' = [fromServer EXCEPT ![c] = <<>>]
    BY DEF ServerLoses, Erase
  <1>3. OwnIds'
    BY <1>1, <1>2 DEF OwnIds
  <1>4. ASSUME NEW d \in Client, phase'[d] # "gone" PROVE Met(d)'
    <2>1. Met(d) /\ d # c /\ fromServer'[d] = fromServer[d]
      BY <1>1, <1>2, <1>4 DEF AllMet
    <2>2. /\ d \in DOMAIN clients' <=> d \in DOMAIN clients
          /\ \A e \in DOMAIN clients' : e \in DOMAIN clients /\ clients'[e] = clients[e]
      BY <1>2, <2>1
    <2> QED
      BY <1>2, <2>1, <2>2 DEF Met, NeverTold, OnceTold
  <1> QED
    BY <1>3, <1>4 DEF AllMet

LEMMA MetStep ==
    ASSUME MInv, [Next]_vars
    PROVE  OwnIds' /\ AllMet'
  <1>1. TypeOK /\ OwnIds /\ AllMet
    BY DEF MInv, TInv
  <1>2. CASE LobbyStarts \/ UNCHANGED vars
    BY <1>1, <1>2, NobodyTold DEF LobbyStarts, ServerSide, Channels, vars
  <1>3. ASSUME NEW c \in Client,
               \/ BeginConnecting(c) \/ Connected(c) \/ NotConnected(c) \/ ConnectedLate(c)
               \/ Say(c) \/ Stop(c)
        PROVE  OwnIds' /\ AllMet'
    <2>1. phase \in [Client -> {"lobby", "connecting", "in_game", "gone"}]
      BY <1>1 DEF TypeOK
    <2>2. /\ clients' = clients /\ others' = others /\ fromServer' = fromServer
          /\ \A d \in Client : phase'[d] # "gone" => phase[d] # "gone"
      BY <1>3, <2>1 DEF BeginConnecting, Connected, NotConnected, ConnectedLate, Say, Stop,
                        EnterGame, ServerSide, Channels
    <2> QED
      BY <1>1, <2>2, NobodyTold
  <1>4. ASSUME NEW c \in Client, ReadAddress(c) \/ ReadInfo(c) PROVE OwnIds' /\ AllMet'
    BY <1>4, ReadMet
  <1>5. ASSUME NEW c \in Client, ServerReceives(c) PROVE OwnIds' /\ AllMet'
    <2>1. CASE c \in DOMAIN clients
      BY <1>1, <1>5, <2>1, NobodyTold DEF ServerReceives, ServerSide
    <2>2. CASE c \notin DOMAIN clients
      <3> DEFINE name == Head(toServer[c])
      <3>1. add_new_client(c, name) /\ others' = others /\ phase' = phase
        BY <1>5, <2>2 DEF ServerReceives
      <3> HIDE DEF name
      <3> QED
        BY <2>2, <3>1, ArrivalMet
    <2> QED
      BY <2>1, <2>2
  <1>6. ASSUME NEW c \in Client, ServerLoses(c) PROVE OwnIds' /\ AllMet'
    BY <1>6, LossMet
  <1> QED
    BY <1>2, <1>3, <1>4, <1>5, <1>6 DEF Next

\* Whatever the order of arrivals, and however the packets are read, clients
\* on the server have been introduced to each other once, and to nobody
\* themselves.
THEOREM MeetOnce == Spec => []IntroducedOnce
  <1>1. Init => MInv
    <2>1. Init => OwnIds /\ AllMet
      BY DEF Init, OwnIds, AllMet, Met, NeverTold, Never, NoEntries
    <2> QED
      BY <2>1, InitTypes DEF MInv
  <1>2. MInv /\ [Next]_vars => MInv'
    BY TypesStep, MetStep DEF MInv
  <1>3. MInv => IntroducedOnce
    <2> SUFFICES ASSUME MInv, NEW c \in DOMAIN clients, NEW d \in DOMAIN clients,
                        phase[c] # "gone"
                 PROVE  Cardinality(Tellings(c, clients[d].id)) = IF c = d THEN 0 ELSE 1
      BY DEF IntroducedOnce
    <2>1. c \in Client /\ TypeOK
      BY DEF MInv, TInv, TypeOK, IsTable
    <2>2. /\ c = d => NeverTold(c, clients[d].id)
          /\ c # d => OnceTold(c, clients[d].id)
      BY <2>1 DEF MInv, AllMet, Met
    <2>3. others[c] \in Seq(Ids \cup {Address}) /\ fromServer[c] \in Seq(Ids \cup {Address})
      <3>1. /\ others[c] \in Seq(Ids \cup {Address}) /\ fromServer[c] \in Seq(Ids)
            /\ Ids \subseteq Ids \cup {Address}
        BY <2>1, Listed
      <3> QED
        BY <3>1, LargerRange
    <2>4. /\ c = d => Never(Told(c), clients[d].id)
          /\ c # d => Once(Told(c), clients[d].id)
      BY <2>2, <2>3, NeverConcat, OnceConcat DEF NeverTold, OnceTold, Told
    <2> QED
      BY <2>4, CountOccurrences DEF Tellings
  <1> QED
    BY <1>1, <1>2, <1>3, PTL DEF Spec
=============================================================================
