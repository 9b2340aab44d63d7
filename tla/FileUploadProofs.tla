-------------------------- MODULE FileUploadProofs --------------------------
(***************************************************************************)
(* Proofs about the upload of archives over the client's connection        *)
(* (FileUpload): the invariant of the documents under way, the receivers   *)
(* of the server and the files it stored.                                  *)
(***************************************************************************)
EXTENDS FileUpload, SequenceTheorems, FiniteSetTheorems, TLAPS

-----------------------------------------------------------------------------
(***************************************************************************)
(* Uploads, for every number of names, parts, visits and connections: what *)
(* was closed as finished is whole.  The documents of a visit on one       *)
(* connection follow each other without a gap, so that what is still under *)
(* way begins where the file of its receiver ends.                         *)
(***************************************************************************)

\* The place of a document in an upload, and the visit it is about.
DocumentRank(m) == CASE m.kind = "file" -> 0
             [] m.kind = "part" -> m.chunk.part
             [] m.kind = "finished" -> Parts + 1
             [] m.kind = "finish" -> Parts + 2
About(m) == IF m.kind = "part" THEN m.chunk.visit ELSE m.visit

\* The rank of what the uploader sends next.
DueAt(pc, part) == CASE pc = "request" -> 0
                     [] pc = "wait" -> 1
                     [] pc = "part" -> part
                     [] pc = "end" -> Parts + 1
                     [] pc = "report" -> Parts + 2
                     [] pc = "idle" -> Parts + 3
Due == DueAt(uploader.pc, uploader.part)

\* What is under way on connection s, but for reconnects.
Uploads(q) == {m \in {q[i] : i \in DOMAIN q} : m.kind # "reconnect"}
Payload(q) == {m \in Uploads(q) : m.kind # "finish"}
Way(s) == Uploads(up[s])
Data(s) == Payload(up[s])

\* What the visitor thread sends arrives, for now.
Live == connected /\ Usable(socket)

ReceiverOf(n) == controller[route].receiver[n]

\* The connection the client is on is one the server reads.
ServerHears == route # 0 /\ route \notin closed

FreshInv == socket <= sockets /\ \A s \in Socket :
  /\ s > sockets => up[s] = <<>> /\ s # route
  /\ s # route /\ s \notin closed => ~controller[s].client
  /\ ~controller[s].client => \A n \in Archive : controller[s].receiver[n] \notin FileName

\* Documents on a connection are about one visit, in order, and none is left
\* out but the end of the upload.
Ascending(q) == \A i, j \in DOMAIN q :
  i < j /\ q[i].kind # "reconnect" /\ q[j].kind # "reconnect" => DocumentRank(q[i]) < DocumentRank(q[j])

RanksInv == \A s \in Socket :
  /\ Ascending(up[s])
  /\ \A m, l \in Way(s) :
       /\ About(m) = About(l) /\ m.name = l.name
       /\ \A r \in 0 .. Parts + 1 :
            DocumentRank(m) < r /\ r < DocumentRank(l) /\ l.kind # "finish" => \E k \in Way(s) : DocumentRank(k) = r

\* What was sent, and that nothing is sent twice.
Past(v, r) == v < visits \/ (v = visits /\ r < Due)

SentInv ==
  /\ \A s \in Socket : \A m \in Way(s) : Past(About(m), DocumentRank(m))
  /\ \A s, t \in Socket : \A m \in Way(s), l \in Way(t) :
       About(m) = About(l) /\ DocumentRank(m) = DocumentRank(l) => s = t
  /\ \A c \in spoilt : Past(c.visit, c.part)
  /\ \A c \in spoilt : \A s \in Socket : \A m \in Data(s) :
       ~(About(m) = c.visit /\ DocumentRank(m) = c.part)
  /\ uploader.pc \in {"request", "wait"} => uploader.part = 1

\* What is under way where the visitor thread sends.
LiveInv == Live =>
  /\ uploader.pc = "request" => Way(socket) = {}
  /\ \A m \in Way(socket) : About(m) = visits /\ m.name = uploader.name
  /\ Way(socket) # {} /\ uploader.pc \in {"wait", "part", "end"} =>
       \E m \in Way(socket) : DocumentRank(m) = Due - 1
  /\ Way(socket) # {} /\ uploader.pc = "idle" => \E m \in Way(socket) : m.kind = "finish"
  /\ uploader.pc \in {"report", "idle"} /\ (\E m \in Way(socket) : m.kind = "part") =>
       \E m \in Way(socket) : m.kind = "finished"

\* A visit is over for the server when it has read its end.
FinishInv ==
  /\ visiting \in {0, visits} /\ (visiting = 0 => uploader.pc = "idle")
  /\ \A s \in Socket : \A m \in Way(s) : m.kind = "finish" =>
       uploader.pc = "idle" /\ visiting = visits /\ visits # 0 /\ m.visit = visits

\* A file has what comes before rank r of visit v, which is not under way.
Got(content, v, r) ==
  /\ Lists(content, v, IF r = 0 THEN 1 ELSE r)
  /\ \A s \in Socket : \A m \in Data(s) : m.kind = "part" /\ About(m) = v => r <= DocumentRank(m)

GotInv == ServerHears =>
  /\ \A m \in Data(route) :
       (\A l \in Data(route) : DocumentRank(m) <= DocumentRank(l)) /\ ReceiverOf(m.name) \in FileName =>
         Got(file[ReceiverOf(m.name)], About(m), DocumentRank(m))
  /\ Live /\ socket = route /\ Data(route) = {} /\ uploader.pc \in {"wait", "part", "end"}
       /\ ReceiverOf(uploader.name) \in FileName =>
       Got(file[ReceiverOf(uploader.name)], visits, Due)

\* What is left in the map by an upload that was given up is empty.
UnderWay(n) == n = uploader.name /\ (uploader.pc \in {"wait", "part", "end"} \/ Data(socket) # {})

LeftInv == Live /\ socket = route =>
  \A n \in Archive : ReceiverOf(n) \in FileName =>
    /\ file[ReceiverOf(n)] = <<>> \/ UnderWay(n)
    /\ ReceiverOf(n) \in Visit => ReceiverOf(n) <= visits
    /\ \A k \in Archive : ReceiverOf(k) = ReceiverOf(n) => k = n
    /\ uploader.pc = "request" \/ (\E m \in Data(socket) : m.kind = "file") =>
         ReceiverOf(n) # visits

\* A name that is the client's own is given to the first receiver of a connection.
NamelessInv == ServerHears /\ visiting = 0 /\ (\E m \in Data(route) : m.kind = "file") =>
  \A n \in Archive : ReceiverOf(n) \notin FileName

\* A finished file is out of everything's way.
StoredInv == \A f \in stored : \E v \in Visit :
  /\ Lists(f.content, v, Parts + 1) /\ (f.path = v \/ gaveUp # {})
  /\ Past(v, Parts + 1)
  /\ \A s \in Socket : \A m \in Data(s) : m.kind = "part" => About(m) # v

\* As long as no upload was given up an acceptance is that of the upload.
AcceptAt(q, i) == i \in DOMAIN q /\ q[i] = "file-accept"
Accepts(s, i) == AcceptAt(down[s], i)

TokenInv == gaveUp = {} =>
  /\ uploader.acknowledged => uploader.pc = "wait"
  /\ \A s \in Socket : \A m \in Data(s) : m.kind = "file" =>
       /\ uploader.pc = "wait" /\ ~uploader.acknowledged /\ About(m) = visits
       /\ \A t \in Socket : \A i \in DOMAIN down[t] : ~Accepts(t, i)
  /\ \A s \in Socket : \A i \in DOMAIN down[s] : Accepts(s, i) =>
       /\ uploader.pc = "wait" /\ ~uploader.acknowledged
       /\ \A t \in Socket : \A j \in DOMAIN down[t] : Accepts(t, j) => s = t /\ i = j

PathInv == gaveUp = {} /\ ServerHears => \A n \in Archive : ReceiverOf(n) \in FileName =>
  /\ \A m \in Data(route) : m.kind # "file" /\ m.name = n /\ About(m) = ReceiverOf(n)
  /\ Live /\ socket = route =>
       /\ ReceiverOf(n) = visits /\ n = uploader.name
       /\ \/ uploader.pc \in {"wait", "part", "end"}
          \/ \E m \in Data(route) : m.kind = "finished"

CoreInv ==
  /\ RanksInv /\ SentInv /\ LiveInv /\ FinishInv /\ GotInv /\ LeftInv /\ NamelessInv
  /\ StoredInv /\ PathInv

UploadInv ==
  /\ UploadTypeOK /\ FreshInv /\ CoreInv /\ TokenInv
  /\ uploader.acknowledged => uploader.accepted

LEMMA RankOfDocument ==
  ASSUME NEW m \in Upward, m.kind # "reconnect"
  PROVE  /\ DocumentRank(m) \in 0 .. Parts + 2 /\ About(m) \in Visit /\ m.name \in Archive
         /\ m.kind \in {"file", "part", "finished", "finish"}
         /\ m.kind = "file" <=> DocumentRank(m) = 0
         /\ m.kind = "part" <=> DocumentRank(m) \in 1 .. Parts
         /\ m.kind = "finished" <=> DocumentRank(m) = Parts + 1
         /\ m.kind = "finish" <=> DocumentRank(m) = Parts + 2
         /\ m.kind = "part" => m.chunk = [visit |-> About(m), part |-> DocumentRank(m)]
         /\ m.kind # "part" => m.visit = About(m)
<1> USE UploadAssumption
<1>1. CASE m \in [kind : {"file", "finished", "finish"}, name : Archive, visit : Visit]
  BY <1>1 DEF DocumentRank, About
<1>2. CASE m \in [kind : {"part"}, name : Archive, chunk : Chunk]
  <2>1. m.kind = "part" /\ m.name \in Archive /\ m.chunk \in Chunk
    BY <1>2
  <2>2. DocumentRank(m) = m.chunk.part /\ About(m) = m.chunk.visit
    BY <2>1 DEF DocumentRank, About
  <2>3. m.chunk.part \in 1 .. Parts /\ m.chunk.visit \in Visit
        /\ m.chunk = [visit |-> m.chunk.visit, part |-> m.chunk.part]
    BY <2>1 DEF Chunk
  <2> QED BY <2>1, <2>2, <2>3
<1>3. CASE m \in [kind : {"reconnect"}]
  BY <1>3
<1> QED BY <1>1, <1>2, <1>3 DEF Upward

LEMMA UploadsOf ==
  ASSUME NEW q \in Seq(Upward)
  PROVE  /\ \A m \in Uploads(q) : m \in Upward /\ m.kind # "reconnect" /\ DocumentRank(m) \in Nat
         /\ \A m \in Uploads(q) : \E i \in DOMAIN q : m = q[i]
         /\ \A i \in DOMAIN q : q[i] \in Upward /\ (q[i].kind # "reconnect" => q[i] \in Uploads(q))
<1>1. \A i \in DOMAIN q : q[i] \in Upward
  BY ElementOfSeq, LenProperties
<1>2. ASSUME NEW m \in Uploads(q)
      PROVE  m \in Upward /\ m.kind # "reconnect" /\ \E i \in DOMAIN q : m = q[i]
  BY <1>1, <1>2 DEF Uploads
<1>3. ASSUME NEW m \in Uploads(q) PROVE DocumentRank(m) \in Nat
  <2>1. DocumentRank(m) \in 0 .. Parts + 2
    BY <1>2, RankOfDocument
  <2> QED BY <2>1, UploadAssumption
<1>4. \A i \in DOMAIN q : q[i].kind # "reconnect" => q[i] \in Uploads(q)
  BY DEF Uploads
<1> QED BY <1>1, <1>2, <1>3, <1>4

LEMMA UploadsAfterAppend ==
  ASSUME NEW q \in Seq(Upward), NEW m \in Upward
  PROVE  /\ Append(q, m) \in Seq(Upward)
         /\ m.kind = "reconnect" => Uploads(Append(q, m)) = Uploads(q)
         /\ m.kind # "reconnect" => Uploads(Append(q, m)) = Uploads(q) \cup {m}
         /\ /\ Ascending(q)
            /\ m.kind = "reconnect" \/ \A l \in Uploads(q) : DocumentRank(l) < DocumentRank(m)
            => Ascending(Append(q, m))
<1> PICK n \in Nat : n = Len(q) /\ DOMAIN q = 1 .. n
  BY LenProperties
<1> DEFINE a == Append(q, m)
<1>1. /\ a \in Seq(Upward) /\ DOMAIN a = 1 .. n + 1
      /\ \A i \in 1 .. n : a[i] = q[i]
      /\ a[n + 1] = m
  BY AppendProperties
<1> HIDE DEF a
<1>2. {a[i] : i \in DOMAIN a} = {q[i] : i \in DOMAIN q} \cup {m}
  <2>1. ASSUME NEW i \in DOMAIN a PROVE a[i] \in {q[j] : j \in DOMAIN q} \cup {m}
    <3>1. i \in 1 .. n \/ i = n + 1
      BY <1>1
    <3> QED BY <1>1, <3>1
  <2>2. \A i \in DOMAIN q : q[i] \in {a[j] : j \in DOMAIN a}
    BY <1>1
  <2>3. m \in {a[j] : j \in DOMAIN a}
    BY <1>1
  <2> QED BY <2>1, <2>2, <2>3
<1>3. ASSUME Ascending(q), m.kind = "reconnect" \/ \A l \in Uploads(q) : DocumentRank(l) < DocumentRank(m)
      PROVE  Ascending(a)
  <2> SUFFICES ASSUME NEW i \in DOMAIN a, NEW j \in DOMAIN a, i < j,
                      a[i].kind # "reconnect", a[j].kind # "reconnect"
               PROVE  DocumentRank(a[i]) < DocumentRank(a[j])
    BY DEF Ascending
  <2>1. i \in 1 .. n /\ (j \in 1 .. n \/ j = n + 1)
    BY <1>1
  <2>2. q[i] \in Uploads(q)
    BY <1>1, <2>1, UploadsOf
  <2> QED BY <1>1, <1>3, <2>1, <2>2 DEF Ascending
<1> QED BY <1>1, <1>2, <1>3 DEF a, Uploads

LEMMA UploadsAfterTail ==
  ASSUME NEW q \in Seq(Upward), q # <<>>, Ascending(q)
  PROVE  /\ Tail(q) \in Seq(Upward) /\ Head(q) \in Upward /\ Ascending(Tail(q))
         /\ Head(q).kind = "reconnect" => Uploads(Tail(q)) = Uploads(q)
         /\ Head(q).kind # "reconnect" =>
              /\ Head(q) \in Uploads(q) /\ Uploads(Tail(q)) = Uploads(q) \ {Head(q)}
              /\ \A l \in Uploads(Tail(q)) : DocumentRank(Head(q)) < DocumentRank(l)
<1> PICK n \in Nat : n = Len(q) /\ DOMAIN q = 1 .. n
  BY LenProperties
<1> DEFINE t == Tail(q)  h == Head(q)
<1>1. /\ h = q[1] /\ h \in Upward /\ t \in Seq(Upward) /\ n >= 1
      /\ DOMAIN t = 1 .. n - 1
      /\ \A i \in 1 .. n - 1 : t[i] = q[i + 1]
  <2>1. n # 0
    BY EmptySeq
  <2>2. h = q[1] /\ h \in Upward /\ t \in Seq(Upward) /\ Len(t) = n - 1
        /\ \A i \in 1 .. Len(t) : t[i] = q[i + 1]
    BY HeadTailProperties
  <2>3. DOMAIN t = 1 .. Len(t)
    BY <2>2, LenProperties
  <2> QED BY <2>1, <2>2, <2>3
<1> HIDE DEF t, h
<1>2. {q[i] : i \in DOMAIN q} = {h} \cup {t[i] : i \in DOMAIN t}
  <2>1. ASSUME NEW i \in DOMAIN q PROVE q[i] \in {h} \cup {t[j] : j \in DOMAIN t}
    <3>1. i = 1 \/ (i - 1 \in DOMAIN t /\ t[i - 1] = q[i])
      BY <1>1
    <3> QED BY <1>1, <3>1
  <2>2. \A i \in DOMAIN t : i + 1 \in DOMAIN q /\ t[i] = q[i + 1]
    BY <1>1
  <2>3. 1 \in DOMAIN q
    BY <1>1
  <2> QED BY <1>1, <2>1, <2>2, <2>3
<1>3. Ascending(t)
  <2> SUFFICES ASSUME NEW i \in DOMAIN t, NEW j \in DOMAIN t, i < j,
                      t[i].kind # "reconnect", t[j].kind # "reconnect"
               PROVE  DocumentRank(t[i]) < DocumentRank(t[j])
    BY DEF Ascending
  <2>1. i + 1 \in DOMAIN q /\ j + 1 \in DOMAIN q /\ i + 1 < j + 1
        /\ t[i] = q[i + 1] /\ t[j] = q[j + 1]
    BY <1>1
  <2> QED BY <2>1 DEF Ascending
<1>4. ASSUME h.kind # "reconnect", NEW l \in Uploads(t) PROVE DocumentRank(h) < DocumentRank(l) /\ l # h
  <2>1. PICK i \in DOMAIN t : l = t[i]
    BY <1>1, UploadsOf
  <2>2. l.kind # "reconnect" /\ l \in Upward
    BY <1>1, UploadsOf
  <2>3. i + 1 \in DOMAIN q /\ 1 \in DOMAIN q /\ 1 < i + 1 /\ l = q[i + 1]
    BY <1>1, <2>1
  <2>4. DocumentRank(h) < DocumentRank(l)
    BY <1>1, <1>4, <2>2, <2>3 DEF Ascending
  <2>5. DocumentRank(h) \in 0 .. Parts + 2
    BY <1>1, <1>4, RankOfDocument
  <2>6. DocumentRank(h) \in Nat
    BY <2>5, UploadAssumption
  <2> QED BY <2>4, <2>6
<1>5. h.kind = "reconnect" => Uploads(t) = Uploads(q)
  BY <1>2 DEF Uploads
<1>6. h.kind # "reconnect" => h \in Uploads(q) /\ Uploads(t) = Uploads(q) \ {h}
  BY <1>2, <1>4 DEF Uploads
<1> QED BY <1>1, <1>3, <1>4, <1>5, <1>6 DEF t, h

LEMMA UploadsOfPrefix ==
  ASSUME NEW q \in Seq(Upward), NEW k \in 0 .. Len(q), Ascending(q)
  PROVE  /\ SubSeq(q, 1, k) \in Seq(Upward) /\ Ascending(SubSeq(q, 1, k))
         /\ Uploads(SubSeq(q, 1, k)) \subseteq Uploads(q)
         /\ \A l \in Uploads(SubSeq(q, 1, k)), m \in Uploads(q) \ Uploads(SubSeq(q, 1, k)) :
              DocumentRank(l) < DocumentRank(m)
<1> PICK n \in Nat : n = Len(q) /\ DOMAIN q = 1 .. n
  BY LenProperties
<1> DEFINE p == SubSeq(q, 1, k)
<1>1. p \in Seq(Upward) /\ DOMAIN p = 1 .. k /\ \A i \in 1 .. k : p[i] = q[i]
  <2>1. 1 \in 1 .. Len(q) + 1
    OBVIOUS
  <2>2. \A i \in 1 .. k : i \in 1 .. n
    OBVIOUS
  <2> QED BY <2>1, <2>2, SubSeqProperties
<1> HIDE DEF p
<1>2. Ascending(p)
  BY <1>1 DEF Ascending
<1>3. Uploads(p) \subseteq Uploads(q)
  BY <1>1 DEF Uploads
<1>4. ASSUME NEW l \in Uploads(p), NEW m \in Uploads(q) \ Uploads(p) PROVE DocumentRank(l) < DocumentRank(m)
  <2>1. PICK i \in DOMAIN p : l = p[i]
    BY <1>1, UploadsOf
  <2>2. PICK j \in DOMAIN q : m = q[j]
    BY UploadsOf
  <2>3. l.kind # "reconnect" /\ m.kind # "reconnect"
    BY <1>1, UploadsOf
  <2>4. j \notin 1 .. k
    BY <1>1, <2>2, <2>3, UploadsOf
  <2>5. i \in DOMAIN q /\ i < j /\ l = q[i]
    BY <1>1, <2>1, <2>4
  <2> QED BY <2>2, <2>3, <2>5 DEF Ascending
<1> QED BY <1>1, <1>2, <1>3, <1>4 DEF p

\* The parts of the type invariant, with names.
UploaderType ==
  [pc : {"idle", "request", "wait", "part", "end", "report"}, name : Archive,
   part : 1 .. Parts, accepted : BOOLEAN, acknowledged : BOOLEAN, failed : BOOLEAN]
ControllerType == [reads : BOOLEAN, client : BOOLEAN, receiver : [Archive -> Stream]]
Greeting == {"connect", "file-accept"}

LEMMA NumbersOfUploads ==
  /\ Parts \in Nat /\ Parts >= 1 /\ MaxVisits \in Nat /\ MaxVisits >= 1
  /\ \A v \in Visit : v \in Nat /\ v # 0
  /\ \A s \in Socket : s \in Nat /\ s # 0
  /\ 1 \in Socket /\ NoReceiver \notin FileName /\ NoStream \notin FileName
  /\ NoReceiver # NoStream /\ Visit \subseteq FileName /\ Unnamed \in FileName
  /\ Unnamed \notin Visit
BY UploadAssumption DEF Visit, Socket, NoReceiver, NoStream, FileName, Unnamed

LEMMA DueIs ==
  ASSUME NEW pc \in {"idle", "request", "wait", "part", "end", "report"}, NEW part \in 1 .. Parts
  PROVE  /\ DueAt(pc, part) \in Nat
         /\ pc = "request" <=> DueAt(pc, part) = 0
         /\ pc = "wait" => DueAt(pc, part) = 1
         /\ pc = "part" => DueAt(pc, part) = part
         /\ pc = "end" => DueAt(pc, part) = Parts + 1
         /\ pc = "report" => DueAt(pc, part) = Parts + 2
         /\ pc = "idle" => DueAt(pc, part) = Parts + 3
BY NumbersOfUploads DEF DueAt

LEMMA UploadsStart == UploadInit => UploadTypeOK
<1> SUFFICES ASSUME UploadInit PROVE UploadTypeOK
  OBVIOUS
<1> USE DEF UploadInit
<1>1. /\ <<>> \in Seq(Upward) /\ <<>> \in Seq(Greeting) /\ <<>> \in Seq(Chunk)
  BY EmptySeq
<1>2. uploader \in UploaderType
  BY NumbersOfUploads DEF UploaderType
<1>3. controller \in [Socket -> ControllerType]
  BY DEF ControllerType, Stream
<1> QED BY <1>1, <1>2, <1>3, NumbersOfUploads
           DEF UploadTypeOK, UploaderType, ControllerType, Greeting

\* What a message of the visitor thread is made of.
LEMMA MessageIs ==
  ASSUME UploadTypeOK, visits # 0, NEW kind \in {"file", "finished", "finish"}
  PROVE  LET m == Message(kind) IN
         /\ m \in Upward /\ m.kind = kind /\ m.name = uploader.name /\ About(m) = visits
<1> DEFINE m == [kind |-> kind, name |-> uploader.name, visit |-> visits]
<1>1. uploader.name \in Archive /\ visits \in Visit
  BY DEF UploadTypeOK
<1>2. m \in [kind : {"file", "finished", "finish"}, name : Archive, visit : Visit]
  BY <1>1
<1>3. m.kind = kind /\ m.name = uploader.name /\ m.visit = visits
  OBVIOUS
<1>4. kind # "part"
  OBVIOUS
<1>5. Message(kind) = m
  BY DEF Message
<1> HIDE DEF m
<1>6. m \in Upward /\ About(m) = visits
  BY <1>2, <1>3, <1>4 DEF Upward, About
<1> QED BY <1>3, <1>5, <1>6

LEMMA PartIs ==
  ASSUME UploadTypeOK, visits # 0
  PROVE  LET m == [kind |-> "part", name |-> uploader.name,
                   chunk |-> [visit |-> visits, part |-> uploader.part]] IN
         /\ m \in Upward /\ m.kind = "part" /\ m.name = uploader.name
         /\ About(m) = visits /\ DocumentRank(m) = uploader.part
<1> DEFINE c == [visit |-> visits, part |-> uploader.part]
           m == [kind |-> "part", name |-> uploader.name, chunk |-> c]
<1>1. uploader.name \in Archive /\ visits \in Visit /\ uploader.part \in 1 .. Parts
  BY DEF UploadTypeOK
<1>2. c \in Chunk /\ c.visit = visits /\ c.part = uploader.part
  BY <1>1 DEF Chunk
<1> HIDE DEF c
<1>3. m \in [kind : {"part"}, name : Archive, chunk : Chunk]
  BY <1>1, <1>2
<1>4. m.kind = "part" /\ m.name = uploader.name /\ m.chunk = c
  OBVIOUS
<1> HIDE DEF m
<1>5. m \in Upward /\ About(m) = visits /\ DocumentRank(m) = uploader.part
  BY <1>2, <1>3, <1>4 DEF Upward, About, DocumentRank
<1> QED BY <1>4, <1>5 DEF c, m

LEMMA RankOfMessage ==
  ASSUME UploadTypeOK, visits # 0
  PROVE  /\ DocumentRank(Message("file")) = 0 /\ DocumentRank(Message("finished")) = Parts + 1
         /\ DocumentRank(Message("finish")) = Parts + 2
<1>1. /\ Message("file").kind = "file" /\ Message("finished").kind = "finished"
      /\ Message("finish").kind = "finish"
  BY MessageIs
<1> QED BY <1>1 DEF DocumentRank

LEMMA TypeAfterSend ==
  ASSUME UploadTypeOK, NEW m \in Upward, NEW next \in UploaderType, Sends(m, next),
         UNCHANGED <<connected, socket, sockets, listener, down, broken, visits, gaveUp, serverSide>>
  PROVE  UploadTypeOK'
<1>1. up' \in [Socket -> Seq(Upward)]
  <2>1. CASE socket \in Socket
    <3>1. Append(up[socket], m) \in Seq(Upward)
      BY <2>1, AppendProperties DEF UploadTypeOK
    <3> QED BY <3>1 DEF UploadTypeOK, Sends
  <2>2. CASE socket \notin Socket
    BY <2>2 DEF UploadTypeOK, Sends, Usable
  <2> QED BY <2>1, <2>2
<1>2. uploader' \in UploaderType
  <2>1. ASSUME NEW failed \in BOOLEAN PROVE [next EXCEPT !.failed = failed] \in UploaderType
    BY <2>1 DEF UploaderType
  <2> QED BY <2>1 DEF Sends
<1> QED BY <1>1, <1>2 DEF UploadTypeOK, UploaderType, serverSide

LEMMA TypeOfVisitor ==
  ASSUME UploadTypeOK, FinishInv,
         \/ \E n \in Archive : EndVisit(n)
         \/ RequestFile \/ AwaitAcceptance \/ SendFilePart \/ FinishFile \/ ReportVisit
         \/ SetConnectedFalse
  PROVE  UploadTypeOK'
<1>0. uploader \in UploaderType
  BY DEF UploadTypeOK, UploaderType
<1>1. uploader.pc # "idle" => visits # 0
  BY DEF FinishInv
<1>2. ASSUME NEW n \in Archive, EndVisit(n) PROVE UploadTypeOK'
  <2>1. visits' \in Visit /\ visiting' \in Visit
    <3>1. visits' = visits + 1 /\ visiting' = visits + 1 /\ visits < MaxVisits
      BY <1>2 DEF EndVisit
    <3>2. visits \in {0} \cup Visit
      BY DEF UploadTypeOK
    <3> QED BY <3>1, <3>2, UploadAssumption DEF Visit
  <2>2. uploader' \in UploaderType
    <3>1. uploader' = [uploader EXCEPT !.pc = "request", !.name = n, !.part = 1,
                                       !.accepted = FALSE, !.acknowledged = FALSE]
      BY <1>2 DEF EndVisit
    <3>2. 1 \in 1 .. Parts
      BY NumbersOfUploads
    <3> QED BY <1>0, <3>1, <3>2 DEF UploaderType
  <2> QED BY <1>2, <2>1, <2>2 DEF EndVisit, UploadTypeOK, UploaderType
<1>3. CASE RequestFile
  <2>1. visits # 0
    BY <1>1, <1>3 DEF RequestFile, At
  <2>2. \A pc \in {"wait", "report"} : [uploader EXCEPT !.pc = pc] \in UploaderType
    BY <1>0 DEF UploaderType
  <2>3. CASE Sends(Message("file"), [uploader EXCEPT !.pc = "wait"])
    BY <1>3, <2>1, <2>2, <2>3, MessageIs, TypeAfterSend DEF RequestFile, ClientRest
  <2>4. CASE uploader' = [uploader EXCEPT !.pc = "report"] /\ UNCHANGED up
    BY <1>3, <2>2, <2>4 DEF RequestFile, ClientRest, UploadTypeOK, UploaderType, serverSide
  <2> QED BY <1>3, <2>3, <2>4 DEF RequestFile
<1>4. CASE AwaitAcceptance
  <2>1. uploader' \in UploaderType /\ gaveUp' \subseteq Archive
    BY <1>0, <1>4 DEF AwaitAcceptance, UploaderType, UploadTypeOK
  <2> QED BY <1>4, <2>1 DEF AwaitAcceptance, ClientRest, UploadTypeOK, UploaderType, serverSide
<1>5. CASE SendFilePart
  <2> DEFINE next == [uploader EXCEPT
                        !.part = IF uploader.part = Parts THEN 1 ELSE uploader.part + 1,
                        !.pc = IF uploader.part = Parts THEN "end" ELSE "part"]
             m == [kind |-> "part", name |-> uploader.name,
                   chunk |-> [visit |-> visits, part |-> uploader.part]]
  <2>1. visits # 0
    BY <1>1, <1>5 DEF SendFilePart, At
  <2>2. m \in Upward
    BY <2>1, PartIs
  <2>3. next \in UploaderType
    <3>1. (IF uploader.part = Parts THEN 1 ELSE uploader.part + 1) \in 1 .. Parts
      BY <1>0, NumbersOfUploads DEF UploaderType
    <3> QED BY <1>0, <3>1 DEF UploaderType
  <2>4. Sends(m, next)
    BY <1>5 DEF SendFilePart
  <2>5. UNCHANGED <<connected, socket, sockets, listener, down, broken, visits, gaveUp, serverSide>>
    BY <1>5 DEF SendFilePart, ClientRest
  <2> HIDE DEF m, next
  <2> QED BY <2>2, <2>3, <2>4, <2>5, TypeAfterSend
<1>6. CASE FinishFile \/ ReportVisit
  <2>1. visits # 0
    BY <1>1, <1>6 DEF FinishFile, ReportVisit, At
  <2>2. \A pc \in {"idle", "report"} : [uploader EXCEPT !.pc = pc] \in UploaderType
    BY <1>0 DEF UploaderType
  <2> QED BY <1>6, <2>1, <2>2, MessageIs, TypeAfterSend DEF FinishFile, ReportVisit, ClientRest
<1>7. CASE SetConnectedFalse
  <2>1. uploader' \in UploaderType
    BY <1>0, <1>7 DEF SetConnectedFalse, UploaderType
  <2> QED BY <1>7, <2>1 DEF SetConnectedFalse, UploadTypeOK, UploaderType, serverSide
<1> QED BY <1>2, <1>3, <1>4, <1>5, <1>6, <1>7

LEMMA TypeOfListener ==
  ASSUME UploadTypeOK, ListenOn \/ Hear \/ HearNothing \/ FailToHear \/ Reconnect
  PROVE  UploadTypeOK'
<1>1. CASE ListenOn \/ HearNothing \/ FailToHear
  BY <1>1 DEF ListenOn, HearNothing, FailToHear, ListenerRest, UploadTypeOK, serverSide
<1>2. CASE Hear
  <2>1. socket \in Socket
    BY <1>2 DEF Hear, UploadTypeOK
  <2>2. down' \in [Socket -> Seq(Greeting)]
    <3>1. down[socket] \in Seq(Greeting) /\ down[socket] # <<>>
      BY <1>2, <2>1 DEF Hear, UploadTypeOK, Greeting
    <3>2. Tail(down[socket]) \in Seq(Greeting)
      BY <3>1, HeadTailProperties
    <3> QED BY <1>2, <2>1, <3>2 DEF Hear, UploadTypeOK, Greeting
  <2>3. up' \in [Socket -> Seq(Upward)]
    <3>1. Append(up[socket], [kind |-> "reconnect"]) \in Seq(Upward)
      <4>1. [kind |-> "reconnect"] \in Upward
        BY DEF Upward
      <4> QED BY <2>1, <4>1, AppendProperties DEF UploadTypeOK
    <3> QED BY <1>2, <2>1, <3>1 DEF Hear, UploadTypeOK
  <2>4. uploader' \in UploaderType /\ connected' \in BOOLEAN
    BY <1>2 DEF Hear, UploadTypeOK, UploaderType
  <2> QED BY <1>2, <2>2, <2>3, <2>4 DEF Hear, ListenerRest, UploadTypeOK, UploaderType, Greeting,
                                         serverSide
<1>3. CASE Reconnect
  <2>1. sockets' \in Socket /\ socket' \in {0} \cup Socket
    <3>1. sockets \in 1 .. MaxSockets /\ socket \in {0} \cup (1 .. MaxSockets)
      BY DEF UploadTypeOK, Socket
    <3>2. \/ sockets < MaxSockets /\ sockets' = sockets + 1 /\ socket' = sockets + 1
          \/ sockets' = sockets /\ socket' = 0
      BY <1>3 DEF Reconnect
    <3> QED BY <3>1, <3>2, UploadAssumption DEF Socket
  <2>2. down' \in [Socket -> Seq(Greeting)]
    <3>1. <<"connect">> \in Seq(Greeting)
      BY DEF Greeting
    <3> QED BY <1>3, <3>1 DEF Reconnect, UploadTypeOK, Greeting
  <2> QED BY <1>3, <2>1, <2>2 DEF Reconnect, ListenerRest, UploadTypeOK, Greeting, serverSide
<1> QED BY <1>1, <1>2, <1>3

\* The document a controller reads, and what is left.
First(s) == Head(up[s])

LEMMA ReadIs ==
  ASSUME UploadTypeOK, NEW s \in Socket, Reads(s)
  PROVE  /\ up[s] \in Seq(Upward) /\ up[s] # <<>> /\ First(s) \in Upward
         /\ up'[s] = Tail(up[s]) /\ \A t \in Socket : t # s => up'[t] = up[t]
         /\ up' \in [Socket -> Seq(Upward)]
         /\ s \notin closed /\ controller[s].reads
<1>1. up[s] \in Seq(Upward) /\ up[s] # <<>>
  BY DEF Reads, UploadTypeOK
<1>2. Head(up[s]) \in Upward /\ Tail(up[s]) \in Seq(Upward)
  BY <1>1, HeadTailProperties
<1> QED BY <1>1, <1>2 DEF Reads, UploadTypeOK, First

\* What each of a controller's handlers does, h being the document it reads.
LEMMA FileIsRead ==
  ASSUME UploadTypeOK, NEW s \in Socket, NEW h, h = First(s), ReceiveFile(s)
  PROVE  /\ h.kind = "file" /\ h.name \in Archive /\ Reads(s)
         /\ controller' \in [Socket -> ControllerType]
         /\ \A t \in Socket : controller'[t].client = controller[t].client
         /\ \A t \in Socket : t # s => controller'[t] = controller[t]
         /\ \A k \in Archive :
              k # h.name \/ controller[s].receiver[k] # NoReceiver =>
                controller'[s].receiver[k] = controller[s].receiver[k]
         /\ \/ /\ controller[s].client /\ file' = [file EXCEPT ![Named] = <<>>]
               /\ controller[s].receiver[h.name] = NoReceiver =>
                    controller'[s].receiver[h.name] = Named
               /\ down' = IF Usable(route)
                          THEN [down EXCEPT ![route] = Append(down[route], "file-accept")]
                          ELSE down
            \/ /\ UNCHANGED <<file, down>>
               /\ controller[s].receiver[h.name] = NoReceiver =>
                    controller'[s].receiver[h.name] = NoStream
         /\ UNCHANGED <<closed, route, visiting, stored, spoilt>> /\ ServerRest
<1>1. h.kind = "file" /\ Reads(s) /\ UNCHANGED <<closed, route, visiting, stored, spoilt>> /\ ServerRest
  BY DEF ReceiveFile, IsHead, First
<1>2. h \in Upward /\ h.name \in Archive
  BY <1>1, ReadIs, RankOfDocument
<1> PICK n \in Archive : n = h.name
  BY <1>2
<1>3. controller \in [Socket -> ControllerType]
  BY DEF UploadTypeOK, ControllerType
<1>4. Named \in Stream /\ NoStream \in Stream
  BY NumbersOfUploads DEF Named, Stream, FileName, UploadTypeOK
<1>5. ASSUME NEW stream \in Stream, PutReceiver(s, n, stream)
      PROVE  /\ controller' \in [Socket -> ControllerType]
             /\ \A t \in Socket : controller'[t].client = controller[t].client
             /\ \A t \in Socket : t # s => controller'[t] = controller[t]
             /\ \A k \in Archive :
                  k # n \/ controller[s].receiver[k] # NoReceiver =>
                    controller'[s].receiver[k] = controller[s].receiver[k]
             /\ controller[s].receiver[n] = NoReceiver => controller'[s].receiver[n] = stream
  <2>1. controller[s] \in ControllerType /\ controller[s].receiver[n] \in Stream
    BY <1>3 DEF ControllerType
  <2>2. PICK x \in Stream :
          /\ controller' = [controller EXCEPT ![s].receiver[n] = x]
          /\ controller[s].receiver[n] = NoReceiver => x = stream
          /\ controller[s].receiver[n] # NoReceiver => x = controller[s].receiver[n]
    BY <1>5, <2>1 DEF PutReceiver
  <2> QED BY <1>3, <2>2 DEF ControllerType
<1>6. \/ /\ controller[s].client /\ PutReceiver(s, n, Named) /\ file' = [file EXCEPT ![Named] = <<>>]
         /\ down' = IF Usable(route)
                    THEN [down EXCEPT ![route] = Append(down[route], "file-accept")]
                    ELSE down
      \/ PutReceiver(s, n, NoStream) /\ UNCHANGED <<file, down>>
  BY DEF ReceiveFile, First
<1> QED BY <1>1, <1>4, <1>5, <1>6

LEMMA PartIsRead ==
  ASSUME UploadTypeOK, NEW s \in Socket, NEW h, h = First(s), ReceiveFilePart(s)
  PROVE  /\ h.kind = "part" /\ h.name \in Archive /\ h.chunk \in Chunk /\ Reads(s)
         /\ controller' \in [Socket -> ControllerType]
         /\ \A t \in Socket : /\ controller'[t].client = controller[t].client
                              /\ controller'[t].receiver = controller[t].receiver
         /\ \/ /\ controller[s].receiver[h.name] \in FileName
               /\ file' = [file EXCEPT ![controller[s].receiver[h.name]] =
                              Append(file[controller[s].receiver[h.name]], h.chunk)]
               /\ UNCHANGED spoilt
            \/ controller[s].receiver[h.name] \notin FileName /\ UNCHANGED <<file, spoilt>>
            \/ spoilt' = spoilt \cup {h.chunk} /\ UNCHANGED file
         /\ UNCHANGED <<closed, down, route, visiting, stored>> /\ ServerRest
<1>1. h.kind = "part" /\ Reads(s) /\ UNCHANGED <<closed, down, route, visiting, stored>> /\ ServerRest
  BY Zenon DEF ReceiveFilePart, IsHead, First
<1>2. h \in Upward /\ h.name \in Archive /\ h.chunk = [visit |-> About(h), part |-> DocumentRank(h)]
      /\ About(h) \in Visit /\ DocumentRank(h) \in 1 .. Parts
  BY <1>1, ReadIs, RankOfDocument
<1>3. h.chunk \in Chunk
  BY <1>2 DEF Chunk
<1> PICK stream : stream = controller[s].receiver[h.name]
  BY Zenon
<1> DEFINE fed == file' = IF stream \in FileName
                          THEN [file EXCEPT ![stream] = Append(file[stream], h.chunk)] ELSE file
           moved == controller' = [controller EXCEPT ![s].reads = stream # NoStream]
<1>4. \/ fed /\ moved /\ UNCHANGED spoilt
      \/ spoilt' = spoilt \cup {h.chunk} /\ UNCHANGED <<file, controller>>
  BY Zenon DEF ReceiveFilePart, First
<1> HIDE DEF fed, moved
<1>5. controller \in [Socket -> ControllerType]
  BY DEF UploadTypeOK, ControllerType
<1>6. /\ controller' \in [Socket -> ControllerType]
      /\ \A t \in Socket : /\ controller'[t].client = controller[t].client
                           /\ controller'[t].receiver = controller[t].receiver
  <2>1. CASE moved
    <3> PICK b \in BOOLEAN : b = (stream # NoStream)
      OBVIOUS
    <3>1. controller' = [controller EXCEPT ![s].reads = b]
      BY <2>1 DEF moved
    <3> QED BY <1>5, <3>1 DEF ControllerType
  <2>2. CASE controller' = controller
    BY <1>5, <2>2
  <2>3. moved \/ UNCHANGED controller
    BY Zenon, <1>4
  <2> QED BY Zenon, <2>1, <2>2, <2>3 DEF moved
<1>7. \/ /\ stream \in FileName /\ UNCHANGED spoilt
         /\ file' = [file EXCEPT ![stream] = Append(file[stream], h.chunk)]
      \/ stream \notin FileName /\ UNCHANGED <<file, spoilt>>
      \/ spoilt' = spoilt \cup {h.chunk} /\ UNCHANGED file
  <2>1. CASE stream \in FileName
    BY Zenon, <1>4, <2>1 DEF fed
  <2>2. CASE stream \notin FileName
    BY Zenon, <1>4, <2>2 DEF fed
  <2> QED BY Zenon, <2>1, <2>2
<1> QED BY Zenon, <1>1, <1>2, <1>3, <1>6, <1>7

LEMMA EndIsRead ==
  ASSUME UploadTypeOK, NEW s \in Socket, NEW h, h = First(s), ReceiveFileEnd(s)
  PROVE  /\ h.kind = "finished" /\ h.name \in Archive /\ Reads(s)
         /\ controller' \in [Socket -> ControllerType]
         /\ \A t \in Socket : controller'[t].client = controller[t].client
         /\ \A t \in Socket : t # s => controller'[t].receiver = controller[t].receiver
         /\ \A k \in Archive : k # h.name =>
              controller'[s].receiver[k] = controller[s].receiver[k]
         /\ \/ /\ controller[s].receiver[h.name] \in FileName
               /\ stored' = stored \cup {[path |-> controller[s].receiver[h.name], name |-> h.name,
                                           content |-> file[controller[s].receiver[h.name]]]}
               /\ controller'[s].receiver[h.name] = NoReceiver
            \/ /\ controller[s].receiver[h.name] \notin FileName /\ UNCHANGED stored
               /\ controller'[s].receiver[h.name] = controller[s].receiver[h.name]
         /\ UNCHANGED <<closed, down, route, visiting, file, spoilt>> /\ ServerRest
<1>1. h.kind = "finished" /\ Reads(s)
      /\ UNCHANGED <<closed, down, route, visiting, file, spoilt>> /\ ServerRest
  BY DEF ReceiveFileEnd, IsHead, First
<1>2. h.name \in Archive
  BY <1>1, ReadIs, RankOfDocument
<1> PICK n \in Archive : n = h.name
  BY <1>2
<1> PICK stream : stream = controller[s].receiver[n]
  OBVIOUS
<1>3. IF stream \in FileName
      THEN /\ stored' = stored \cup {[path |-> stream, name |-> n, content |-> file[stream]]}
           /\ controller' = [controller EXCEPT ![s].receiver[n] = NoReceiver]
      ELSE /\ controller' = [controller EXCEPT ![s].reads = stream # NoStream]
           /\ UNCHANGED stored
  BY DEF ReceiveFileEnd, First
<1>4. controller \in [Socket -> ControllerType] /\ NoReceiver \in Stream
  BY DEF UploadTypeOK, ControllerType, Stream
<1>5. CASE stream \in FileName
  <2>1. /\ controller' \in [Socket -> ControllerType]
        /\ \A t \in Socket : controller'[t].client = controller[t].client
        /\ \A t \in Socket : t # s => controller'[t].receiver = controller[t].receiver
        /\ \A k \in Archive : k # n => controller'[s].receiver[k] = controller[s].receiver[k]
        /\ controller'[s].receiver[n] = NoReceiver
    BY <1>3, <1>4, <1>5 DEF ControllerType
  <2> QED BY <1>1, <1>3, <1>5, <2>1
<1>6. CASE stream \notin FileName
  <2> PICK b \in BOOLEAN : b = (stream # NoStream)
    OBVIOUS
  <2>1. controller' = [controller EXCEPT ![s].reads = b]
    BY <1>3, <1>6
  <2>2. /\ controller' \in [Socket -> ControllerType]
        /\ \A t \in Socket : controller'[t].client = controller[t].client
        /\ \A t \in Socket : controller'[t].receiver = controller[t].receiver
    BY <1>4, <2>1 DEF ControllerType
  <2> QED BY <1>1, <1>3, <1>6, <2>2
<1> QED BY <1>5, <1>6

LEMMA ReconnectIsRead ==
  ASSUME UploadTypeOK, NEW s \in Socket, NEW h, h = First(s), ParseReconnect(s)
  PROVE  /\ h.kind = "reconnect" /\ Reads(s)
         /\ controller' \in [Socket -> ControllerType]
         /\ \A t \in Socket : controller'[t].receiver = controller[t].receiver
         /\ \A t \in Socket : t # s => controller'[t].client = controller[t].client
         /\ \/ route # 0 /\ closed' = closed \cup {route} /\ route' = s /\ controller'[s].client
            \/ route = 0 /\ UNCHANGED <<closed, route, controller>>
         /\ UNCHANGED <<down, visiting, file, stored, spoilt>> /\ ServerRest
<1>1. controller \in [Socket -> ControllerType]
  BY DEF UploadTypeOK, ControllerType
<1>2. h.kind = "reconnect" /\ Reads(s) /\ UNCHANGED <<down, visiting, file, stored, spoilt>> /\ ServerRest
  BY DEF ParseReconnect, IsHead, First
<1>3. \/ /\ route # 0 /\ closed' = closed \cup {route} /\ route' = s
         /\ controller' = [controller EXCEPT ![s].client = TRUE]
      \/ route = 0 /\ UNCHANGED <<closed, route, controller>>
  BY DEF ParseReconnect, First
<1>4. CASE controller' = [controller EXCEPT ![s].client = TRUE]
  <2>1. /\ controller' \in [Socket -> ControllerType]
        /\ \A t \in Socket : controller'[t].receiver = controller[t].receiver
        /\ \A t \in Socket : t # s => controller'[t].client = controller[t].client
        /\ controller'[s].client
    BY <1>1, <1>4 DEF ControllerType
  <2> QED BY <1>2, <1>3, <2>1
<1>5. CASE controller' = controller
  <2>1. /\ controller' \in [Socket -> ControllerType]
        /\ \A t \in Socket : controller'[t].receiver = controller[t].receiver
        /\ \A t \in Socket : controller'[t].client = controller[t].client
    BY <1>1, <1>5
  <2>2. CASE route = 0
    BY <1>2, <1>3, <2>1, <2>2
  <2>3. CASE route # 0
    BY <1>2, <1>3, <1>4, <2>1, <2>3 DEF ControllerType
  <2> QED BY <2>2, <2>3
<1> QED BY <1>3, <1>4, <1>5

LEMMA TypeOfServer ==
  ASSUME UploadTypeOK, NEW s \in Socket, Controller(s)
  PROVE  UploadTypeOK'
<1> PICK h : h = First(s)
  BY Zenon
<1>1. up' \in [Socket -> Seq(Upward)]
  <2>1. Reads(s)
    BY Zenon DEF Controller, ParseReconnect, ReceiveFile, ReceiveFilePart, ReceiveFileEnd,
                 ParseVisitEvent
  <2> QED BY <2>1, ReadIs
<1>2. CASE ParseReconnect(s)
  <2>1. /\ controller' \in [Socket -> ControllerType]
        /\ (closed' = closed \cup {route} /\ route' = s /\ route # 0) \/ UNCHANGED <<closed, route>>
        /\ UNCHANGED <<down, visiting, file, stored, spoilt>> /\ ServerRest
    BY <1>2, ReconnectIsRead
  <2>2. closed' \subseteq Socket /\ route' \in {0} \cup Socket
    BY <2>1 DEF UploadTypeOK
  <2> QED BY <1>1, <2>1, <2>2 DEF ServerRest, UploadTypeOK, ControllerType
<1>3. CASE ReceiveFile(s)
  <2>1. Named \in FileName
    BY NumbersOfUploads DEF Named, FileName, UploadTypeOK
  <2>2. file' \in [FileName -> Seq(Chunk)]
    <3>1. <<>> \in Seq(Chunk)
      BY EmptySeq
    <3>2. file' = file \/ file' = [file EXCEPT ![Named] = <<>>]
      BY <1>3, FileIsRead
    <3> QED BY <2>1, <3>1, <3>2 DEF UploadTypeOK
  <2>3. down' \in [Socket -> Seq(Greeting)]
    <3>1. CASE route \in Socket
      <4>1. Append(down[route], "file-accept") \in Seq(Greeting)
        BY <3>1, AppendProperties DEF UploadTypeOK, Greeting
      <4>2. down' = down \/ down' = [down EXCEPT ![route] = Append(down[route], "file-accept")]
        BY <1>3, FileIsRead
      <4> QED BY <3>1, <4>1, <4>2 DEF UploadTypeOK, Greeting
    <3>2. CASE route \notin Socket
      <4>1. down' = down
        BY <1>3, <3>2, FileIsRead DEF Usable
      <4> QED BY <4>1 DEF UploadTypeOK, Greeting
    <3> QED BY <3>1, <3>2
  <2>4. /\ controller' \in [Socket -> ControllerType]
        /\ UNCHANGED <<closed, route, visiting, stored, spoilt>> /\ ServerRest
    BY <1>3, FileIsRead
  <2> QED BY <1>1, <2>2, <2>3, <2>4 DEF ServerRest, UploadTypeOK, ControllerType, Greeting
<1>4. CASE ReceiveFilePart(s)
  <2> PICK stream : stream = controller[s].receiver[h.name]
    OBVIOUS
  <2>1. /\ h.chunk \in Chunk
        /\ controller' \in [Socket -> ControllerType]
        /\ UNCHANGED <<closed, down, route, visiting, stored>> /\ ServerRest
        /\ \/ stream \in FileName /\ file' = [file EXCEPT ![stream] = Append(file[stream], h.chunk)]
           \/ file' = file
        /\ spoilt' = spoilt \/ spoilt' = spoilt \cup {h.chunk}
    BY <1>4, PartIsRead
  <2>2. file' \in [FileName -> Seq(Chunk)]
    <3>1. stream \in FileName => Append(file[stream], h.chunk) \in Seq(Chunk)
      BY <2>1, AppendProperties DEF UploadTypeOK
    <3> QED BY <2>1, <3>1 DEF UploadTypeOK
  <2>3. spoilt' \subseteq Chunk
    BY <2>1 DEF UploadTypeOK
  <2> QED BY <1>1, <2>1, <2>2, <2>3 DEF ServerRest, UploadTypeOK, ControllerType
<1>5. CASE ReceiveFileEnd(s)
  <2> PICK stream : stream = controller[s].receiver[h.name]
    OBVIOUS
  <2> PICK n : n = h.name
    OBVIOUS
  <2>1. /\ n \in Archive /\ controller' \in [Socket -> ControllerType]
        /\ UNCHANGED <<closed, down, route, visiting, file, spoilt>> /\ ServerRest
        /\ \/ /\ stream \in FileName
              /\ stored' = stored \cup {[path |-> stream, name |-> n, content |-> file[stream]]}
           \/ stored' = stored
    BY <1>5, EndIsRead
  <2>2. stored' \subseteq [path : FileName, name : Archive, content : Seq(Chunk)]
    <3>1. stream \in FileName =>
            [path |-> stream, name |-> n, content |-> file[stream]]
              \in [path : FileName, name : Archive, content : Seq(Chunk)]
      BY <2>1 DEF UploadTypeOK
    <3> QED BY <2>1, <3>1 DEF UploadTypeOK
  <2> QED BY <1>1, <2>1, <2>2 DEF ServerRest, UploadTypeOK, ControllerType
<1>6. CASE ParseVisitEvent(s)
  BY <1>1, <1>6 DEF ParseVisitEvent, ServerRest, UploadTypeOK
<1> QED BY <1>2, <1>3, <1>4, <1>5, <1>6 DEF Controller

LEMMA TypeOfNetwork ==
  ASSUME UploadTypeOK, RanksInv, Disconnect \/ \E s \in Socket : Break(s)
  PROVE  UploadTypeOK'
<1>1. CASE Disconnect
  BY <1>1 DEF Disconnect, ServerRest, UploadTypeOK
<1>2. ASSUME NEW s \in Socket, Break(s) PROVE UploadTypeOK'
  <2>1. up' \in [Socket -> Seq(Upward)]
    <3>1. up[s] \in Seq(Upward) /\ Ascending(up[s])
      BY DEF UploadTypeOK, RanksInv
    <3>2. \A k \in 0 .. Len(up[s]) : SubSeq(up[s], 1, k) \in Seq(Upward)
      BY <3>1, UploadsOfPrefix
    <3> QED BY <1>2, <3>2 DEF Break, UploadTypeOK
  <2>2. down' \in [Socket -> Seq(Greeting)]
    <3>1. down[s] \in Seq(Greeting)
      BY DEF UploadTypeOK, Greeting
    <3>2. ASSUME NEW j \in 0 .. Len(down[s]) PROVE SubSeq(down[s], 1, j) \in Seq(Greeting)
      <4>1. \A i \in 1 .. j : i \in 1 .. Len(down[s])
        BY <3>1, LenProperties
      <4>2. \A i \in 1 .. j : down[s][i] \in Greeting
        BY <3>1, <4>1, ElementOfSeq
      <4>3. j \in Int /\ 1 \in Int
        BY <3>1, LenProperties
      <4> QED BY <4>2, <4>3, SubSeqProperties
    <3> QED BY <1>2, <3>2 DEF Break, UploadTypeOK, Greeting
  <2>3. UNCHANGED <<connected, socket, sockets, listener, uploader, visits, gaveUp, serverSide>>
    BY Zenon, <1>2 DEF Break
  <2>4. broken' \subseteq Socket
    BY <1>2 DEF Break, UploadTypeOK
  <2>5. up' \in [Socket -> Seq(Upward)] /\ down' \in [Socket -> Seq({"connect", "file-accept"})]
    BY <2>1, <2>2 DEF Greeting
  <2> QED BY <2>3, <2>4, <2>5 DEF UploadTypeOK, serverSide
<1> QED BY <1>1, <1>2

LEMMA Documents ==
  ASSUME NEW q \in Seq(Upward)
  PROVE  /\ \A m \in Uploads(q) :
              /\ DocumentRank(m) \in Nat /\ DocumentRank(m) <= Parts + 2 /\ About(m) \in Visit /\ m.name \in Archive
              /\ m.kind = "file" <=> DocumentRank(m) = 0
              /\ m.kind = "part" <=> 1 <= DocumentRank(m) /\ DocumentRank(m) <= Parts
              /\ m.kind = "finished" <=> DocumentRank(m) = Parts + 1
              /\ m.kind = "finish" <=> DocumentRank(m) = Parts + 2
              /\ m \in Payload(q) <=> DocumentRank(m) # Parts + 2
         /\ \A m \in Payload(q) : m \in Uploads(q)
<1>1. ASSUME NEW m \in Uploads(q)
      PROVE  /\ DocumentRank(m) \in Nat /\ DocumentRank(m) <= Parts + 2 /\ About(m) \in Visit /\ m.name \in Archive
             /\ m.kind = "file" <=> DocumentRank(m) = 0
             /\ m.kind = "part" <=> 1 <= DocumentRank(m) /\ DocumentRank(m) <= Parts
             /\ m.kind = "finished" <=> DocumentRank(m) = Parts + 1
             /\ m.kind = "finish" <=> DocumentRank(m) = Parts + 2
  <2>1. m \in Upward /\ m.kind # "reconnect" /\ DocumentRank(m) \in Nat
    BY UploadsOf
  <2>2. Parts \in Nat
    BY NumbersOfUploads
  <2>3. /\ DocumentRank(m) \in 0 .. Parts + 2 /\ About(m) \in Visit /\ m.name \in Archive
        /\ m.kind = "file" <=> DocumentRank(m) = 0
        /\ m.kind = "part" <=> DocumentRank(m) \in 1 .. Parts
        /\ m.kind = "finished" <=> DocumentRank(m) = Parts + 1
        /\ m.kind = "finish" <=> DocumentRank(m) = Parts + 2
    BY <2>1, RankOfDocument
  <2>4. PICK r : r = DocumentRank(m)
    OBVIOUS
  <2>5. r \in Nat /\ r <= Parts + 2 /\ (r \in 1 .. Parts <=> 1 <= r /\ r <= Parts)
    BY <2>1, <2>2, <2>3, <2>4
  <2> QED BY <2>3, <2>4, <2>5
<1>2. ASSUME NEW m \in Uploads(q) PROVE m \in Payload(q) <=> DocumentRank(m) # Parts + 2
  BY <1>1 DEF Payload
<1>3. \A m \in Payload(q) : m \in Uploads(q)
  BY DEF Payload
<1> QED BY <1>1, <1>2, <1>3

\* The documents under way are what they are when the type is right.
LEMMA Ways ==
  ASSUME UploadTypeOK
  PROVE  \A s \in Socket : up[s] \in Seq(Upward) /\ Way(s) = Uploads(up[s]) /\ Data(s) = Payload(up[s])
BY DEF UploadTypeOK, Way, Data

(***************************************************************************)
(* Steps that only lose documents: what is under way afterwards is the     *)
(* beginning of what was, and the visitor thread has not moved.            *)
(***************************************************************************)
Shrinks == \A s \in Socket :
  /\ up'[s] \in Seq(Upward) /\ Ascending(up'[s])
  /\ Uploads(up'[s]) \subseteq Uploads(up[s])
  /\ \A l \in Uploads(up'[s]), m \in Uploads(up[s]) \ Uploads(up'[s]) : DocumentRank(l) < DocumentRank(m)

Stays ==
  /\ Live' => \/ Live /\ socket' = socket /\ Uploads(up'[socket]) = Uploads(up[socket])
              \/ socket' # route' /\ \A s \in Socket : s = socket' => Uploads(up'[s]) = {}
  /\ ServerHears' => ServerHears /\ route' = route

SameUpload ==
  /\ uploader'.pc = uploader.pc /\ uploader'.name = uploader.name /\ uploader'.part = uploader.part
  /\ UNCHANGED <<visits, visiting, file, stored, spoilt, gaveUp>>
  /\ \A s \in Socket : controller'[s].receiver = controller[s].receiver

LEMMA QuietOrder ==
  ASSUME UploadTypeOK, RanksInv, Shrinks
  PROVE  RanksInv'
<1> SUFFICES ASSUME NEW s \in Socket
             PROVE  /\ Ascending(up'[s])
                    /\ \A m, l \in Uploads(up'[s]) :
                         /\ About(m) = About(l) /\ m.name = l.name
                         /\ \A r \in 0 .. Parts + 1 :
                              DocumentRank(m) < r /\ r < DocumentRank(l) /\ l.kind # "finish" =>
                                \E k \in Uploads(up'[s]) : DocumentRank(k) = r
  BY DEF RanksInv, Way
<1> PICK p, q : p = up[s] /\ q = up'[s]
  OBVIOUS
<1>1. /\ p \in Seq(Upward) /\ q \in Seq(Upward) /\ Ascending(q) /\ Uploads(q) \subseteq Uploads(p)
      /\ \A l \in Uploads(q), m \in Uploads(p) \ Uploads(q) : DocumentRank(l) < DocumentRank(m)
  BY DEF Shrinks, UploadTypeOK
<1>2. \A m, l \in Uploads(p) :
        /\ About(m) = About(l) /\ m.name = l.name
        /\ \A r \in 0 .. Parts + 1 :
             DocumentRank(m) < r /\ r < DocumentRank(l) /\ l.kind # "finish" => \E k \in Uploads(p) : DocumentRank(k) = r
  BY DEF RanksInv, Way
<1>3. \A m \in Uploads(p) : DocumentRank(m) \in Nat
  BY <1>1, Documents
<1>4. ASSUME NEW m \in Uploads(q), NEW l \in Uploads(q), NEW r \in 0 .. Parts + 1,
             DocumentRank(m) < r, r < DocumentRank(l), l.kind # "finish"
      PROVE  \E k \in Uploads(q) : DocumentRank(k) = r
  <2>1. PICK k \in Uploads(p) : DocumentRank(k) = r
    BY <1>1, <1>2, <1>4
  <2>2. ~(DocumentRank(l) < DocumentRank(k))
    BY <1>1, <1>3, <1>4, <2>1
  <2> QED BY <1>1, <2>1, <2>2
<1> QED BY <1>1, <1>2, <1>4

LEMMA QuietSent ==
  ASSUME UploadTypeOK, SentInv, Shrinks, SameUpload
  PROVE  SentInv'
<1>1. /\ uploader'.pc = uploader.pc /\ uploader'.part = uploader.part /\ Due' = Due
      /\ visits' = visits /\ spoilt' = spoilt
  BY DEF SameUpload, Due
<1>2. \A v, r : Past(v, r)' = Past(v, r)
  BY <1>1 DEF Past
<1>3. \A s \in Socket : Uploads(up'[s]) \subseteq Uploads(up[s]) /\ Payload(up'[s]) \subseteq Payload(up[s])
  BY DEF Shrinks, Payload
<1>4. \A s \in Socket : \A m \in Way(s)' : Past(About(m), DocumentRank(m))'
  BY <1>2, <1>3 DEF SentInv, Way
<1>5. \A s, t \in Socket : \A m \in Way(s)', l \in Way(t)' :
        About(m) = About(l) /\ DocumentRank(m) = DocumentRank(l) => s = t
  BY <1>3 DEF SentInv, Way
<1>6. /\ \A c \in spoilt' : Past(c.visit, c.part)'
      /\ \A c \in spoilt' : \A s \in Socket : \A m \in Data(s)' :
           ~(About(m) = c.visit /\ DocumentRank(m) = c.part)
  BY <1>1, <1>2, <1>3 DEF SentInv, Data
<1>7. uploader'.pc \in {"request", "wait"} => uploader'.part = 1
  BY <1>1 DEF SentInv
<1> QED BY <1>4, <1>5, <1>6, <1>7 DEF SentInv, Way, Data

LEMMA QuietLive ==
  ASSUME UploadTypeOK, LiveInv, Shrinks, Stays, SameUpload
  PROVE  LiveInv'
<1> SUFFICES ASSUME Live' PROVE LiveInv'
  BY DEF LiveInv
<1>1. /\ uploader'.pc = uploader.pc /\ uploader'.name = uploader.name /\ Due' = Due
      /\ visits' = visits
  BY DEF SameUpload, Due
<1>2. CASE Live /\ socket' = socket /\ Uploads(up'[socket]) = Uploads(up[socket])
  <2>1. Way(socket)' = Way(socket)
    BY <1>2 DEF Way
  <2> QED BY <1>1, <1>2, <2>1 DEF LiveInv
<1>3. CASE \A s \in Socket : s = socket' => Uploads(up'[s]) = {}
  <2>1. socket' \in Socket
    BY DEF Live, Usable
  <2>2. Way(socket)' = {}
    BY <1>3, <2>1 DEF Way
  <2> QED BY <2>2 DEF LiveInv
<1> QED BY <1>2, <1>3 DEF Stays

LEMMA QuietFinish ==
  ASSUME UploadTypeOK, FinishInv, Shrinks, SameUpload
  PROVE  FinishInv'
<1>1. /\ uploader'.pc = uploader.pc /\ visits' = visits /\ visiting' = visiting
  BY DEF SameUpload
<1>2. \A s \in Socket : \A m \in Way(s)' : m \in Way(s)
  BY DEF Shrinks, Way
<1> QED BY <1>1, <1>2 DEF FinishInv

LEMMA QuietGot ==
  ASSUME UploadTypeOK, NEW c, NEW v, NEW r, Got(c, v, r), Shrinks, spoilt' = spoilt
  PROVE  Got(c, v, r)'
<1>1. \A s \in Socket : \A m \in Data(s)' : m \in Data(s)
  BY DEF Shrinks, Data, Payload
<1> QED BY <1>1 DEF Got, Lists

LEMMA QuietGotInv ==
  ASSUME UploadTypeOK, GotInv, Shrinks, Stays, SameUpload
  PROVE  GotInv'
<1> SUFFICES ASSUME ServerHears' PROVE GotInv'
  BY DEF GotInv
<1>1. ServerHears /\ route' = route /\ route \in Socket
  BY DEF Stays, ServerHears, UploadTypeOK
<1>2. /\ uploader'.pc = uploader.pc /\ uploader'.name = uploader.name /\ Due' = Due
      /\ visits' = visits /\ file' = file /\ spoilt' = spoilt
      /\ controller'[route].receiver = controller[route].receiver
  BY <1>1 DEF SameUpload, Due
<1>3. \A n : ReceiverOf(n)' = ReceiverOf(n)
  BY <1>1, <1>2 DEF ReceiverOf
<1> PICK p, q : p = up[route] /\ q = up'[route]
  OBVIOUS
<1>4. /\ p \in Seq(Upward) /\ q \in Seq(Upward) /\ Uploads(q) \subseteq Uploads(p)
      /\ \A l \in Uploads(q), m \in Uploads(p) \ Uploads(q) : DocumentRank(l) < DocumentRank(m)
      /\ Data(route) = Payload(p) /\ Data(route)' = Payload(q)
  BY <1>1 DEF Shrinks, UploadTypeOK, Data
<1>5. Payload(q) \subseteq Payload(p) /\ Payload(p) \subseteq Uploads(p)
  BY <1>4 DEF Payload
<1>6. ASSUME NEW m \in Payload(q), \A l \in Payload(q) : DocumentRank(m) <= DocumentRank(l),
             ReceiverOf(m.name)' \in FileName
      PROVE  Got(file[ReceiverOf(m.name)], About(m), DocumentRank(m))'
  <2>1. ASSUME NEW l \in Payload(p) PROVE DocumentRank(m) <= DocumentRank(l)
    <3>1. CASE l \in Uploads(q)
      BY <1>4, <1>6, <2>1, <3>1 DEF Payload
    <3>2. CASE l \notin Uploads(q)
      <4>1. DocumentRank(m) < DocumentRank(l) /\ DocumentRank(m) \in Nat /\ DocumentRank(l) \in Nat
        BY <1>4, <1>5, <2>1, <3>2, Documents
      <4> QED BY <4>1
    <3> QED BY <3>1, <3>2
  <2>2. Got(file[ReceiverOf(m.name)], About(m), DocumentRank(m))
    BY <1>1, <1>3, <1>4, <1>5, <1>6, <2>1 DEF GotInv
  <2> QED BY <1>2, <1>3, <2>2, QuietGot
<1>7. ASSUME Live', socket' = route', Data(route)' = {}, uploader'.pc \in {"wait", "part", "end"},
             ReceiverOf(uploader.name)' \in FileName
      PROVE  Got(file[ReceiverOf(uploader.name)], visits, Due)'
  <2>1. Live /\ socket = route /\ Uploads(q) = Uploads(p)
    BY <1>1, <1>7 DEF Stays
  <2>2. Data(route) = {}
    BY <1>4, <1>7, <2>1 DEF Payload
  <2>3. Got(file[ReceiverOf(uploader.name)], visits, Due)
    BY <1>1, <1>2, <1>3, <1>7, <2>1, <2>2 DEF GotInv
  <2> QED BY <1>2, <1>3, <2>3, QuietGot
<1> QED BY <1>4, <1>6, <1>7 DEF GotInv

LEMMA QuietLeft ==
  ASSUME UploadTypeOK, LeftInv, Shrinks, Stays, SameUpload
  PROVE  LeftInv'
<1> SUFFICES ASSUME Live', socket' = route' PROVE LeftInv'
  BY DEF LeftInv
<1>1. /\ Live /\ socket' = socket /\ socket \in Socket /\ Uploads(up'[socket]) = Uploads(up[socket])
  BY DEF Stays, Live, Usable
<1>2. route' = route /\ socket = route
  BY <1>1 DEF Stays, ServerHears, Live, Usable, UploadTypeOK, Socket
<1>3. /\ uploader'.pc = uploader.pc /\ uploader'.name = uploader.name
      /\ visits' = visits /\ file' = file
      /\ controller'[route].receiver = controller[route].receiver
  BY <1>1, <1>2 DEF SameUpload
<1>4. /\ \A n : ReceiverOf(n)' = ReceiverOf(n)
      /\ Data(socket)' = Data(socket)
  BY <1>1, <1>2, <1>3 DEF ReceiverOf, Data, Payload
<1>5. \A n : UnderWay(n)' = UnderWay(n)
  BY <1>3, <1>4 DEF UnderWay
<1> QED BY <1>1, <1>2, <1>3, <1>4, <1>5 DEF LeftInv

LEMMA QuietNameless ==
  ASSUME UploadTypeOK, NamelessInv, Shrinks, Stays, SameUpload
  PROVE  NamelessInv'
<1> SUFFICES ASSUME ServerHears', visiting' = 0, \E m \in Data(route)' : m.kind = "file"
             PROVE  \A n \in Archive : ReceiverOf(n)' \notin FileName
  BY DEF NamelessInv
<1>1. ServerHears /\ route' = route /\ route \in Socket
  BY DEF Stays, ServerHears, UploadTypeOK
<1>2. /\ visiting' = visiting /\ controller'[route].receiver = controller[route].receiver
  BY <1>1 DEF SameUpload
<1>3. \A n : ReceiverOf(n)' = ReceiverOf(n)
  BY <1>1, <1>2 DEF ReceiverOf
<1>4. \E m \in Data(route) : m.kind = "file"
  BY <1>1 DEF Shrinks, Data, Payload
<1> QED BY <1>1, <1>2, <1>3, <1>4 DEF NamelessInv

LEMMA QuietStored ==
  ASSUME UploadTypeOK, StoredInv, Shrinks, SameUpload
  PROVE  StoredInv'
<1>1. /\ uploader'.pc = uploader.pc /\ uploader'.part = uploader.part /\ Due' = Due
      /\ visits' = visits /\ stored' = stored /\ spoilt' = spoilt /\ gaveUp' = gaveUp
  BY DEF SameUpload, Due
<1>2. \A v, r : Past(v, r)' = Past(v, r)
  BY <1>1 DEF Past
<1>3. \A s \in Socket : \A m \in Data(s)' : m \in Data(s)
  BY DEF Shrinks, Data, Payload
<1> QED BY <1>1, <1>2, <1>3 DEF StoredInv, Lists

LEMMA QuietPath ==
  ASSUME UploadTypeOK, PathInv, Shrinks, Stays, SameUpload
  PROVE  PathInv'
<1> SUFFICES ASSUME gaveUp' = {}, ServerHears' PROVE PathInv'
  BY DEF PathInv
<1>1. ServerHears /\ route' = route /\ route \in Socket
  BY DEF Stays, ServerHears, UploadTypeOK
<1>2. /\ uploader'.pc = uploader.pc /\ uploader'.name = uploader.name
      /\ visits' = visits /\ gaveUp' = gaveUp
      /\ controller'[route].receiver = controller[route].receiver
  BY <1>1 DEF SameUpload
<1>3. \A n : ReceiverOf(n)' = ReceiverOf(n)
  BY <1>1, <1>2 DEF ReceiverOf
<1>4. \A m \in Data(route)' : m \in Data(route)
  BY <1>1 DEF Shrinks, Data, Payload
<1>5. ASSUME Live', socket' = route'
      PROVE  Live /\ socket = route /\ Data(route)' = Data(route)
  <2>1. Live /\ socket' = socket /\ Uploads(up'[socket]) = Uploads(up[socket])
    BY <1>5 DEF Stays
  <2> QED BY <1>1, <1>5, <2>1 DEF Data, Payload
<1> QED BY <1>1, <1>2, <1>3, <1>4, <1>5 DEF PathInv

LEMMA SameUploadStep ==
  ASSUME UploadTypeOK, CoreInv, Shrinks, Stays, SameUpload
  PROVE  CoreInv'
<1> USE DEF CoreInv
<1>1. RanksInv' /\ SentInv' /\ LiveInv'
  BY QuietOrder, QuietSent, QuietLive
<1>2. FinishInv' /\ GotInv' /\ LeftInv'
  BY QuietFinish, QuietGotInv, QuietLeft
<1>3. NamelessInv' /\ StoredInv' /\ PathInv'
  BY QuietNameless, QuietStored, QuietPath
<1> QED BY <1>1, <1>2, <1>3


LEMMA SameShrinks ==
  ASSUME UploadTypeOK, RanksInv, up' = up
  PROVE  Shrinks
<1> SUFFICES ASSUME NEW s \in Socket
             PROVE  /\ up'[s] \in Seq(Upward) /\ Ascending(up'[s])
                    /\ Uploads(up'[s]) \subseteq Uploads(up[s])
                    /\ \A l \in Uploads(up'[s]), m \in Uploads(up[s]) \ Uploads(up'[s]) : DocumentRank(l) < DocumentRank(m)
  BY DEF Shrinks
<1>1. up[s] \in Seq(Upward) /\ Ascending(up[s])
  BY DEF UploadTypeOK, RanksInv
<1> QED BY <1>1

\* The tokens are those that were, but for some that are gone.
LEMMA TokenKept ==
  ASSUME TokenInv, UploadTypeOK', gaveUp' = {} => gaveUp = {},
         uploader'.pc = uploader.pc, uploader'.acknowledged = uploader.acknowledged,
         visits' = visits, NEW d \in [Socket -> Nat],
         \A s \in Socket : \A m \in Data(s)' : m \in Data(s),
         \A s \in Socket : \A i \in DOMAIN down'[s] :
           AcceptAt(down'[s], i) => AcceptAt(down[s], i + d[s])
  PROVE  TokenInv'
<1> SUFFICES ASSUME gaveUp' = {} PROVE TokenInv'
  BY DEF TokenInv
<1>1. \A s \in Socket : \A i \in DOMAIN down[s] : AcceptAt(down[s], i) =>
        /\ uploader.pc = "wait" /\ ~uploader.acknowledged
        /\ \A t \in Socket : \A j \in DOMAIN down[t] : AcceptAt(down[t], j) => s = t /\ i = j
  BY DEF TokenInv, Accepts
<1>2. ASSUME NEW s \in Socket, NEW i \in DOMAIN down'[s], AcceptAt(down'[s], i)
      PROVE  /\ uploader'.pc = "wait" /\ ~uploader'.acknowledged /\ i \in Nat
             /\ i + d[s] \in DOMAIN down[s] /\ AcceptAt(down[s], i + d[s])
  <2>1. AcceptAt(down[s], i + d[s]) /\ i + d[s] \in DOMAIN down[s]
    BY <1>2 DEF AcceptAt
  <2>2. down'[s] \in Seq(Greeting)
    BY DEF UploadTypeOK, Greeting
  <2>3. i \in Nat
    BY <1>2, <2>2, LenProperties
  <2> QED BY <1>1, <2>1, <2>3
<1>3. ASSUME NEW s \in Socket, NEW i \in DOMAIN down'[s], AcceptAt(down'[s], i),
             NEW t \in Socket, NEW j \in DOMAIN down'[t], AcceptAt(down'[t], j)
      PROVE  s = t /\ i = j
  <2>1. s = t /\ i + d[s] = j + d[t]
    BY <1>1, <1>2, <1>3
  <2>2. i \in Nat /\ j \in Nat /\ d[s] \in Nat
    BY <1>2, <1>3
  <2> QED BY <2>1, <2>2
<1>4. ASSUME NEW s \in Socket, NEW m \in Data(s)', m.kind = "file"
      PROVE  /\ uploader'.pc = "wait" /\ ~uploader'.acknowledged /\ About(m) = visits'
             /\ \A t \in Socket : \A i \in DOMAIN down'[t] : ~AcceptAt(down'[t], i)
  <2>1. /\ uploader.pc = "wait" /\ ~uploader.acknowledged /\ About(m) = visits
        /\ \A t \in Socket : \A i \in DOMAIN down[t] : ~AcceptAt(down[t], i)
    BY <1>4 DEF TokenInv, Accepts
  <2> QED BY <1>2, <2>1
<1>5. uploader'.acknowledged => uploader'.pc = "wait"
  BY DEF TokenInv
<1> QED BY <1>2, <1>3, <1>4, <1>5 DEF TokenInv, Accepts

\* The machine's Client, and the receivers, are where they were, or it is gone.
LEMMA FreshKept ==
  ASSUME FreshInv, UploadTypeOK, sockets' >= sockets, sockets' \in Nat, socket' <= sockets',
         \A s \in Socket : s > sockets' => up'[s] = up[s],
         closed \subseteq closed', route' = route \/ (route' = 0 /\ route \in closed'),
         \A s \in Socket : /\ controller'[s].client = controller[s].client
                           /\ \A n \in Archive : controller'[s].receiver[n] \notin FileName
                                                   \/ controller'[s].receiver[n] = controller[s].receiver[n]
  PROVE  FreshInv'
<1>1. ASSUME NEW s \in Socket
      PROVE  /\ s > sockets' => up'[s] = <<>> /\ s # route'
             /\ s # route' /\ s \notin closed' => ~controller'[s].client
             /\ ~controller'[s].client =>
                  \A n \in Archive : controller'[s].receiver[n] \notin FileName
  <2>1. s \in Nat /\ s # 0 /\ sockets \in Nat
    BY NumbersOfUploads DEF UploadTypeOK
  <2>2. s > sockets' => s > sockets
    BY <2>1
  <2>3. /\ s > sockets => up[s] = <<>> /\ s # route
        /\ s # route /\ s \notin closed => ~controller[s].client
        /\ ~controller[s].client => \A n \in Archive : controller[s].receiver[n] \notin FileName
    BY DEF FreshInv
  <2> QED BY <2>1, <2>2, <2>3
<1> QED BY <1>1 DEF FreshInv

LEMMA QuietKeeps ==
  ASSUME UploadInv, UploadTypeOK', FreshInv', Shrinks, Stays, SameUpload,
         uploader'.accepted = uploader.accepted, uploader'.acknowledged = uploader.acknowledged,
         NEW d \in [Socket -> Nat],
         \A s \in Socket : \A i \in DOMAIN down'[s] :
           AcceptAt(down'[s], i) => AcceptAt(down[s], i + d[s])
  PROVE  UploadInv'
<1>1. UploadTypeOK /\ CoreInv /\ TokenInv /\ (uploader.acknowledged => uploader.accepted)
  BY DEF UploadInv
<1>2. CoreInv'
  BY <1>1, SameUploadStep
<1>3. gaveUp' = gaveUp /\ uploader'.pc = uploader.pc /\ visits' = visits
  BY DEF SameUpload
<1>4. \A s \in Socket : \A m \in Data(s)' : m \in Data(s)
  BY DEF Shrinks, Data, Payload
<1>5. TokenInv'
  BY <1>1, <1>3, <1>4, TokenKept
<1> QED BY <1>1, <1>2, <1>5 DEF UploadInv

\* Nothing arrives at either end.
LEMMA StillKeeps ==
  ASSUME UploadInv, UploadTypeOK', FreshInv', up' = up, Stays, SameUpload,
         uploader'.accepted = uploader.accepted, uploader'.acknowledged = uploader.acknowledged,
         \A s \in Socket : down'[s] = down[s] \/ down'[s] = <<"connect">>
  PROVE  UploadInv'
<1> PICK d \in [Socket -> Nat] : d = [s \in Socket |-> 0]
  OBVIOUS
<1>1. ASSUME NEW s \in Socket, NEW i \in DOMAIN down'[s], AcceptAt(down'[s], i)
      PROVE  AcceptAt(down[s], i + d[s])
  <2>1. down'[s] = down[s]
    <3>1. ASSUME down'[s] = <<"connect">> PROVE FALSE
      BY <1>1, <3>1 DEF AcceptAt
    <3> QED BY <3>1
  <2>2. down[s] \in Seq(Greeting)
    BY DEF UploadInv, UploadTypeOK, Greeting
  <2>3. i \in Nat
    BY <2>1, <2>2, LenProperties
  <2>4. i + d[s] = i
    BY <2>3
  <2> QED BY <1>1, <2>1, <2>4
<1>2. UploadTypeOK /\ RanksInv
  BY DEF UploadInv, CoreInv
<1>3. Shrinks
  BY <1>2, SameShrinks
<1> QED BY <1>1, <1>3, QuietKeeps

LEMMA ListenerIsQuiet ==
  ASSUME UploadInv, ListenOn \/ HearNothing \/ FailToHear \/ SetConnectedFalse
  PROVE  UploadInv'
<1>1. UploadTypeOK /\ FreshInv /\ FinishInv
  BY DEF UploadInv, CoreInv
<1>2. UploadTypeOK'
  BY <1>1, TypeOfListener, TypeOfVisitor
<1>3. /\ UNCHANGED <<socket, sockets, up, down, visits, gaveUp, serverSide>>
      /\ connected' \in {connected, FALSE} /\ broken' = broken
      /\ uploader' = uploader \/ uploader' = [uploader EXCEPT !.failed = FALSE]
  BY DEF ListenOn, HearNothing, FailToHear, SetConnectedFalse, ListenerRest
<1>4. /\ uploader'.pc = uploader.pc /\ uploader'.name = uploader.name /\ uploader'.part = uploader.part
      /\ uploader'.accepted = uploader.accepted /\ uploader'.acknowledged = uploader.acknowledged
  BY <1>1, <1>3 DEF UploadTypeOK
<1>5. SameUpload
  BY <1>3, <1>4 DEF SameUpload, serverSide
<1>6. Stays
  <2>1. /\ socket' = socket /\ up' = up /\ closed' = closed /\ broken' = broken /\ route' = route
        /\ connected' \in {connected, FALSE}
    BY <1>3 DEF serverSide
  <2>2. Live' => Live
    BY <2>1 DEF Live, Usable
  <2>3. ServerHears' => ServerHears
    BY <2>1 DEF ServerHears
  <2> QED BY <2>1, <2>2, <2>3 DEF Stays
<1>7. FreshInv'
  BY <1>1, <1>3 DEF FreshInv, serverSide
<1> QED BY <1>2, <1>3, <1>4, <1>5, <1>6, <1>7, StillKeeps

LEMMA UploadsDisconnectKeeps ==
  ASSUME UploadInv, Disconnect
  PROVE  UploadInv'
<1>1. UploadTypeOK /\ FreshInv /\ RanksInv
  BY DEF UploadInv, CoreInv
<1>2. UploadTypeOK'
  BY <1>1, TypeOfNetwork
<1>3. /\ closed' = closed \cup {route} /\ route' = 0
      /\ UNCHANGED <<up, down, controller, visiting, file, stored, spoilt, connected, socket, sockets,
                     uploader, broken, visits, gaveUp>>
  BY DEF Disconnect, ServerRest
<1>4. SameUpload
  BY <1>3 DEF SameUpload
<1>5. Stays
  BY <1>3 DEF Stays, Live, Usable, ServerHears
<1>6. FreshInv'
  <2>1. 0 \notin Socket
    BY NumbersOfUploads
  <2> QED BY <1>1, <1>3, <2>1 DEF FreshInv
<1> QED BY <1>2, <1>3, <1>4, <1>5, <1>6, StillKeeps

LEMMA ReconnectKeeps ==
  ASSUME UploadInv, Reconnect
  PROVE  UploadInv'
<1>1. UploadTypeOK /\ FreshInv
  BY DEF UploadInv
<1>2. UploadTypeOK'
  BY <1>1, TypeOfListener
<1>3. UNCHANGED <<uploader, up, broken, visits, gaveUp, closed, controller, route, visiting, file,
                  stored, spoilt>>
  BY DEF Reconnect, ListenerRest, serverSide
<1>4. \/ /\ sockets' = sockets + 1 /\ socket' = sockets + 1
         /\ down' = [down EXCEPT ![sockets + 1] = <<"connect">>]
      \/ socket' = 0 /\ sockets' = sockets /\ down' = down
  BY DEF Reconnect
<1>5. SameUpload
  BY <1>3 DEF SameUpload
<1>6. sockets \in Nat /\ sockets' \in Socket /\ \A s \in Socket : s \in Nat /\ s # 0
  BY <1>1, <1>2, NumbersOfUploads DEF UploadTypeOK
<1>7. Stays
  <2>1. CASE sockets' = sockets + 1 /\ socket' = sockets + 1
    <3>1. sockets + 1 \in Socket /\ sockets + 1 > sockets
      BY <1>6, <2>1
    <3>2. up[sockets + 1] = <<>> /\ sockets + 1 # route
      BY <1>1, <3>1 DEF FreshInv
    <3>3. Uploads(<<>>) = {}
      BY DEF Uploads
    <3> QED BY <1>3, <2>1, <3>1, <3>2, <3>3 DEF Stays, ServerHears
  <2>2. CASE socket' = 0
    <3>1. ~Live'
      BY <1>6, <2>2 DEF Live, Usable
    <3> QED BY <1>3, <3>1 DEF Stays, ServerHears
  <2> QED BY <1>4, <2>1, <2>2
<1>8. FreshInv'
  <2>1. \A s \in Socket : s > sockets' => s > sockets
    BY <1>4, <1>6
  <2>2. socket' <= sockets'
    BY <1>4, <1>6
  <2> QED BY <1>1, <1>3, <2>1, <2>2 DEF FreshInv
<1>9. \A s \in Socket : down'[s] = down[s] \/ down'[s] = <<"connect">>
  BY <1>1, <1>4 DEF UploadTypeOK
<1> QED BY <1>2, <1>3, <1>5, <1>7, <1>8, <1>9, StillKeeps

LEMMA BreakKeeps ==
  ASSUME UploadInv, NEW s \in Socket, Break(s)
  PROVE  UploadInv'
<1>1. UploadTypeOK /\ FreshInv /\ RanksInv
  BY DEF UploadInv, CoreInv
<1>2. UploadTypeOK'
  BY <1>1, TypeOfNetwork
<1>3. PICK k \in 0 .. Len(up[s]), j \in 0 .. Len(down[s]) :
        /\ up' = [up EXCEPT ![s] = SubSeq(up[s], 1, k)]
        /\ down' = [down EXCEPT ![s] = SubSeq(down[s], 1, j)]
  BY DEF Break
<1>4. /\ s \in 1 .. sockets /\ broken' = broken \cup {s}
      /\ UNCHANGED <<connected, socket, sockets, uploader, visits, gaveUp, closed, controller, route,
                     visiting, file, stored, spoilt>>
  BY DEF Break, serverSide
<1>5. \A t \in Socket : t # s => up'[t] = up[t] /\ down'[t] = down[t]
  BY <1>1, <1>3 DEF UploadTypeOK
<1>6. Shrinks
  <2>1. up[s] \in Seq(Upward) /\ Ascending(up[s]) /\ up'[s] = SubSeq(up[s], 1, k)
    BY <1>1, <1>3 DEF UploadTypeOK, RanksInv
  <2>2. /\ up'[s] \in Seq(Upward) /\ Ascending(up'[s])
        /\ Uploads(up'[s]) \subseteq Uploads(up[s])
        /\ \A l \in Uploads(up'[s]), m \in Uploads(up[s]) \ Uploads(up'[s]) : DocumentRank(l) < DocumentRank(m)
    BY <2>1, UploadsOfPrefix
  <2>3. ASSUME NEW t \in Socket, t # s
        PROVE  up'[t] \in Seq(Upward) /\ Ascending(up'[t]) /\ Uploads(up'[t]) = Uploads(up[t])
    BY <1>1, <1>5, <2>3 DEF UploadTypeOK, RanksInv
  <2> QED BY <2>2, <2>3 DEF Shrinks
<1>7. SameUpload
  BY <1>4 DEF SameUpload
<1>8. Stays
  <2>1. Live' => Live /\ socket # s /\ socket \in Socket
    BY <1>4 DEF Live, Usable
  <2>2. Live' => Live /\ socket' = socket /\ Uploads(up'[socket]) = Uploads(up[socket])
    BY <1>4, <1>5, <2>1
  <2>3. ServerHears' => ServerHears /\ route' = route
    BY <1>4 DEF ServerHears
  <2> QED BY <2>2, <2>3 DEF Stays
<1>9. FreshInv'
  <2>1. \A t \in Socket : t > sockets => up'[t] = up[t]
    <3>1. \A t \in Socket : t > sockets => t # s
      <4>1. sockets \in Nat
        BY <1>1, NumbersOfUploads DEF UploadTypeOK
      <4> QED BY <1>4, <4>1, NumbersOfUploads
    <3> QED BY <1>5, <3>1
  <2> QED BY <1>1, <1>4, <2>1 DEF FreshInv
<1> PICK d \in [Socket -> Nat] : d = [t \in Socket |-> 0]
  OBVIOUS
<1>10. ASSUME NEW t \in Socket, NEW i \in DOMAIN down'[t], AcceptAt(down'[t], i)
       PROVE  AcceptAt(down[t], i + d[t])
  <2>1. down[t] \in Seq(Greeting) /\ down'[t] \in Seq(Greeting)
    BY <1>1, <1>2 DEF UploadTypeOK, Greeting
  <2>2. i \in Nat
    BY <2>1, LenProperties
  <2>3. i + d[t] = i
    BY <2>2
  <2>4. CASE t # s
    BY <1>5, <1>10, <2>3, <2>4
  <2>5. CASE t = s
    <3>1. down'[s] = SubSeq(down[s], 1, j)
      BY <1>1, <1>3 DEF UploadTypeOK
    <3>2. DOMAIN down[s] = 1 .. Len(down[s]) /\ Len(down[s]) \in Nat
      BY <2>1, <2>5, LenProperties
    <3>3. \A n \in 1 .. j : n \in 1 .. Len(down[s])
      BY <3>2
    <3>4. \A n \in 1 .. j : down[s][n] \in Greeting
      BY <2>1, <2>5, <3>3, ElementOfSeq
    <3>5. j \in Int /\ 1 \in Int
      BY <3>2
    <3>6. DOMAIN down'[s] = 1 .. j /\ \A n \in 1 .. j : down'[s][n] = down[s][n]
      BY <3>1, <3>4, <3>5, SubSeqProperties
    <3> QED BY <1>10, <2>3, <2>5, <3>2, <3>3, <3>6 DEF AcceptAt
  <2> QED BY <2>4, <2>5
<1>11. uploader'.accepted = uploader.accepted /\ uploader'.acknowledged = uploader.acknowledged
  BY <1>4
<1> QED BY <1>2, <1>6, <1>7, <1>8, <1>9, <1>10, <1>11, QuietKeeps

LEMMA HearKeeps ==
  ASSUME UploadInv, Hear
  PROVE  UploadInv'
<1>1. UploadTypeOK /\ FreshInv /\ CoreInv /\ RanksInv /\ TokenInv
      /\ (uploader.acknowledged => uploader.accepted)
  BY DEF UploadInv, CoreInv
<1>2. UploadTypeOK'
  BY <1>1, TypeOfListener
<1>3. /\ UNCHANGED <<socket, sockets, broken, visits, gaveUp, closed, controller, route, visiting, file,
                     stored, spoilt>>
      /\ socket \in Socket /\ down[socket] # <<>>
      /\ down' = [down EXCEPT ![socket] = Tail(down[socket])]
  BY <1>1 DEF Hear, ListenerRest, serverSide, UploadTypeOK
<1>4. \/ /\ up' = up \/ up' = [up EXCEPT ![socket] = Append(up[socket], [kind |-> "reconnect"])]
         /\ connected' \in {connected, FALSE} /\ uploader' = uploader
      \/ /\ AcceptAt(down[socket], 1) /\ connected' = connected /\ up' = up
         /\ uploader' = IF uploader.pc \in {"idle", "report"} THEN uploader
                        ELSE [uploader EXCEPT !.accepted = TRUE, !.acknowledged = TRUE]
  <2>1. CASE Head(down[socket]) = "connect"
    BY <2>1 DEF Hear
  <2>2. CASE Head(down[socket]) # "connect"
    <3>1. down[socket] \in Seq(Greeting)
      BY <1>1, <1>3 DEF UploadTypeOK, Greeting
    <3>2. down[socket][1] = Head(down[socket]) /\ 1 \in DOMAIN down[socket]
      BY <1>3, <3>1, HeadTailProperties, EmptySeq, LenProperties
    <3> QED BY <2>2, <3>2 DEF Hear, AcceptAt
  <2> QED BY <2>1, <2>2
<1>5. \A t \in Socket : t # socket => up'[t] = up[t] /\ down'[t] = down[t]
  BY <1>1, <1>3, <1>4 DEF UploadTypeOK
<1>6. /\ up'[socket] \in Seq(Upward) /\ Ascending(up'[socket])
      /\ Uploads(up'[socket]) = Uploads(up[socket])
  <2>1. up[socket] \in Seq(Upward) /\ Ascending(up[socket])
    BY <1>1, <1>3 DEF UploadTypeOK, RanksInv
  <2>2. CASE up' = up
    BY <2>1, <2>2
  <2>3. CASE up' = [up EXCEPT ![socket] = Append(up[socket], [kind |-> "reconnect"])]
    <3> PICK m : m = [kind |-> "reconnect"]
      OBVIOUS
    <3>1. m \in Upward /\ m.kind = "reconnect"
      BY DEF Upward
    <3>2. up'[socket] = Append(up[socket], m)
      BY <1>1, <1>3, <2>3 DEF UploadTypeOK
    <3> QED BY <2>1, <3>1, <3>2, UploadsAfterAppend
  <2> QED BY <1>4, <2>2, <2>3
<1>7. Shrinks
  <2>1. ASSUME NEW t \in Socket
        PROVE  up'[t] \in Seq(Upward) /\ Ascending(up'[t]) /\ Uploads(up'[t]) = Uploads(up[t])
    <3>1. CASE t = socket
      BY <1>6, <3>1
    <3>2. CASE t # socket
      BY <1>1, <1>5, <3>2 DEF UploadTypeOK, RanksInv
    <3> QED BY <3>1, <3>2
  <2> QED BY <2>1 DEF Shrinks
<1>8. /\ uploader'.pc = uploader.pc /\ uploader'.name = uploader.name /\ uploader'.part = uploader.part
      /\ \/ uploader'.accepted = uploader.accepted /\ uploader'.acknowledged = uploader.acknowledged
         \/ /\ uploader'.accepted /\ uploader'.acknowledged /\ AcceptAt(down[socket], 1)
            /\ uploader.pc \notin {"idle", "report"}
  BY <1>1, <1>4 DEF UploadTypeOK
<1>9. SameUpload
  BY <1>3, <1>8 DEF SameUpload
<1>10. Stays
  <2>1. connected' => connected
    BY <1>1, <1>4 DEF UploadTypeOK
  <2>2. Live' => Live
    BY <1>3, <2>1 DEF Live, Usable
  <2>3. ServerHears' => ServerHears
    BY <1>3 DEF ServerHears
  <2> QED BY <1>3, <1>6, <2>2, <2>3 DEF Stays
<1>11. FreshInv'
  <2>1. \A t \in Socket : t > sockets => up'[t] = up[t]
    <3>1. \A t \in Socket : t > sockets => t # socket
      <4>1. sockets \in Nat /\ socket <= sockets
        BY <1>1, NumbersOfUploads DEF UploadTypeOK, FreshInv
      <4> QED BY <4>1, NumbersOfUploads
    <3> QED BY <1>5, <3>1
  <2> QED BY <1>1, <1>3, <2>1 DEF FreshInv
<1> PICK d \in [Socket -> Nat] : d = [t \in Socket |-> IF t = socket THEN 1 ELSE 0]
  OBVIOUS
<1>12. ASSUME NEW t \in Socket, NEW i \in DOMAIN down'[t], AcceptAt(down'[t], i)
       PROVE  AcceptAt(down[t], i + d[t]) /\ i \in Nat /\ i # 0
  <2>1. down[t] \in Seq(Greeting) /\ down'[t] \in Seq(Greeting)
    BY <1>1, <1>2 DEF UploadTypeOK, Greeting
  <2>2. i \in 1 .. Len(down'[t]) /\ Len(down'[t]) \in Nat
    BY <2>1, LenProperties
  <2>3. CASE t # socket
    <3>1. d[t] = 0 /\ i + 0 = i
      BY <2>2, <2>3
    <3> QED BY <1>5, <1>12, <2>2, <2>3, <3>1
  <2>4. CASE t = socket
    <3>1. down'[t] = Tail(down[t]) /\ down[t] # <<>> /\ d[t] = 1
      BY <1>1, <1>3, <2>4 DEF UploadTypeOK
    <3>2. /\ Len(down'[t]) = Len(down[t]) - 1
          /\ \A n \in 1 .. Len(down'[t]) : down'[t][n] = down[t][n + 1]
      BY <2>1, <3>1, HeadTailProperties
    <3>3. DOMAIN down[t] = 1 .. Len(down[t]) /\ Len(down[t]) \in Nat
      BY <2>1, LenProperties
    <3>4. i + 1 \in DOMAIN down[t] /\ down[t][i + 1] = "file-accept"
      BY <1>12, <2>2, <3>2, <3>3 DEF AcceptAt
    <3> QED BY <2>2, <3>1, <3>4 DEF AcceptAt
  <2> QED BY <2>3, <2>4
<1>13. CASE uploader'.accepted = uploader.accepted /\ uploader'.acknowledged = uploader.acknowledged
  BY <1>2, <1>7, <1>9, <1>10, <1>11, <1>12, <1>13, QuietKeeps
<1>14. CASE /\ uploader'.accepted /\ uploader'.acknowledged /\ AcceptAt(down[socket], 1)
            /\ uploader.pc \notin {"idle", "report"}
  <2>1. CoreInv'
    BY <1>1, <1>7, <1>9, <1>10, SameUploadStep
  <2>2. TokenInv'
    <3> SUFFICES ASSUME gaveUp = {} PROVE TokenInv'
      BY <1>3 DEF TokenInv
    <3>1. 1 \in DOMAIN down[socket]
      BY <1>14 DEF AcceptAt
    <3>2. /\ uploader.pc = "wait"
          /\ \A t \in Socket : \A j \in DOMAIN down[t] : AcceptAt(down[t], j) => socket = t /\ 1 = j
      BY <1>1, <1>3, <1>14, <3>1 DEF TokenInv, Accepts
    <3>3. ASSUME NEW t \in Socket, NEW i \in DOMAIN down'[t], AcceptAt(down'[t], i) PROVE FALSE
      <4>1. AcceptAt(down[t], i + d[t]) /\ i + d[t] \in DOMAIN down[t] /\ i \in Nat /\ i # 0
        BY <1>12, <3>3 DEF AcceptAt
      <4>2. socket = t /\ 1 = i + d[t] /\ d[t] = 1
        BY <1>3, <3>2, <4>1
      <4> QED BY <4>1, <4>2
    <3>4. ASSUME NEW t \in Socket, NEW m \in Data(t)', m.kind = "file" PROVE FALSE
      <4>1. m \in Data(t)
        BY <1>7 DEF Shrinks, Data, Payload
      <4> QED BY <1>1, <1>3, <1>14, <3>1, <3>4, <4>1 DEF TokenInv, Accepts
    <3> QED BY <1>8, <3>2, <3>3, <3>4 DEF TokenInv, Accepts
  <2> QED BY <1>2, <1>11, <1>14, <2>1, <2>2 DEF UploadInv
<1> QED BY <1>8, <1>13, <1>14

(***************************************************************************)
(* The visitor thread sends, and what it sent arrives for now.             *)
(***************************************************************************)
LEMMA DueNow ==
  ASSUME UploadTypeOK
  PROVE  /\ Due \in Nat /\ Parts \in Nat /\ Parts >= 1
         /\ uploader.pc \in {"idle", "request", "wait", "part", "end", "report"}
         /\ uploader.pc = "request" <=> Due = 0
         /\ uploader.pc = "wait" => Due = 1
         /\ uploader.pc = "part" => Due = uploader.part /\ 1 <= Due /\ Due <= Parts
         /\ uploader.pc = "end" => Due = Parts + 1
         /\ uploader.pc = "report" => Due = Parts + 2
         /\ uploader.pc = "idle" => Due = Parts + 3
<1>1. /\ uploader.pc \in {"idle", "request", "wait", "part", "end", "report"}
      /\ uploader.part \in 1 .. Parts
  BY DEF UploadTypeOK
<1>2. PICK pc \in {"idle", "request", "wait", "part", "end", "report"}, part \in 1 .. Parts :
        pc = uploader.pc /\ part = uploader.part
  BY <1>1
<1>3. Due = DueAt(pc, part)
  BY <1>2 DEF Due
<1>4. 1 <= part /\ part <= Parts
  BY NumbersOfUploads
<1> QED BY <1>2, <1>3, <1>4, DueIs, NumbersOfUploads

LEMMA PastGrows ==
  ASSUME UploadTypeOK, UploadTypeOK',
         (visits' = visits /\ Due' >= Due) \/ visits' = visits + 1,
         NEW v \in Visit, NEW r \in Nat, Past(v, r)
  PROVE  Past(v, r)'
<1>1. v \in Nat /\ visits \in Nat /\ visits' \in Nat /\ Due \in Nat
  <2>1. visits \in {0} \cup Visit /\ visits' \in {0} \cup Visit
    BY DEF UploadTypeOK
  <2> QED BY <2>1, NumbersOfUploads, DueNow
<1>2. Due' \in Nat
  <2>1. /\ uploader'.pc \in {"idle", "request", "wait", "part", "end", "report"}
        /\ uploader'.part \in 1 .. Parts
    BY DEF UploadTypeOK
  <2>2. PICK pc \in {"idle", "request", "wait", "part", "end", "report"}, part \in 1 .. Parts :
          pc = uploader'.pc /\ part = uploader'.part
    BY <2>1
  <2>3. Due' = DueAt(pc, part)
    BY <2>2 DEF Due
  <2> QED BY <2>2, <2>3, DueIs
<1> QED BY <1>1, <1>2 DEF Past

SendsNow(m) ==
  /\ Live /\ up' = [up EXCEPT ![socket] = Append(up[socket], m)]
  /\ m \in Upward /\ m.kind # "reconnect" /\ DocumentRank(m) = Due /\ About(m) = visits
  /\ m.name = uploader.name
  /\ uploader'.name = uploader.name /\ Due' = Due + 1
  /\ uploader'.accepted = uploader.accepted /\ uploader'.acknowledged = uploader.acknowledged
  /\ \/ /\ uploader.pc = "request" /\ m.kind = "file" /\ uploader'.pc = "wait"
        /\ uploader'.part = uploader.part
     \/ uploader.pc = "part" /\ m.kind = "part" /\ uploader'.pc \in {"part", "end"}
     \/ uploader.pc = "end" /\ m.kind = "finished" /\ uploader'.pc = "report"
     \/ uploader.pc = "report" /\ m.kind = "finish" /\ uploader'.pc = "idle"
  /\ UNCHANGED <<connected, socket, sockets, broken, closed, controller, route, visiting, visits,
                 file, stored, spoilt, gaveUp, down>>

LEMMA SentIs ==
  ASSUME UploadTypeOK, RanksInv, SentInv, LiveInv, NEW m, SendsNow(m)
  PROVE  /\ socket \in Socket
         /\ up'[socket] \in Seq(Upward)
         /\ Uploads(up'[socket]) = Uploads(up[socket]) \cup {m}
         /\ Payload(up'[socket]) = IF m.kind = "finish" THEN Payload(up[socket])
                                   ELSE Payload(up[socket]) \cup {m}
         /\ \A t \in Socket : t # socket => up'[t] = up[t]
         /\ \A l \in Uploads(up[socket]) :
              DocumentRank(l) < DocumentRank(m) /\ DocumentRank(l) \in Nat /\ About(l) = visits /\ l.name = uploader.name
         /\ DocumentRank(m) \in Nat
         /\ Ascending(up'[socket])
<1>1. socket \in Socket /\ Live
  BY DEF SendsNow, Live, Usable
<1>2. up[socket] \in Seq(Upward) /\ Ascending(up[socket])
  BY <1>1 DEF UploadTypeOK, RanksInv
<1>3. m \in Upward /\ m.kind # "reconnect" /\ DocumentRank(m) = Due /\ Due \in Nat
      /\ up' = [up EXCEPT ![socket] = Append(up[socket], m)]
  BY DueNow DEF SendsNow
<1>4. up'[socket] = Append(up[socket], m) /\ \A t \in Socket : t # socket => up'[t] = up[t]
  BY <1>1, <1>3 DEF UploadTypeOK
<1>5. ASSUME NEW l \in Uploads(up[socket])
      PROVE  DocumentRank(l) < DocumentRank(m) /\ DocumentRank(l) \in Nat /\ About(l) = visits /\ l.name = uploader.name
  <2>1. About(l) = visits /\ l.name = uploader.name
    BY <1>1 DEF LiveInv, Way
  <2>2. Past(About(l), DocumentRank(l)) /\ visits \in Nat
    BY <1>1, NumbersOfUploads DEF SentInv, Way, UploadTypeOK
  <2>3. DocumentRank(l) < Due /\ DocumentRank(l) \in Nat
    BY <1>2, <2>1, <2>2, Documents DEF Past
  <2> QED BY <1>3, <2>1, <2>3
<1>6. /\ Append(up[socket], m) \in Seq(Upward)
      /\ Uploads(Append(up[socket], m)) = Uploads(up[socket]) \cup {m}
      /\ Ascending(Append(up[socket], m))
  BY <1>2, <1>3, <1>5, UploadsAfterAppend
<1>7. Payload(up'[socket]) = IF m.kind = "finish" THEN Payload(up[socket])
                             ELSE Payload(up[socket]) \cup {m}
  BY <1>4, <1>6 DEF Payload
<1> QED BY <1>1, <1>3, <1>4, <1>5, <1>6, <1>7

LEMMA SentOrder ==
  ASSUME UploadTypeOK, RanksInv, SentInv, LiveInv, NEW m, SendsNow(m)
  PROVE  RanksInv'
<1>1. ASSUME NEW t \in Socket, t # socket
      PROVE  /\ Ascending(up'[t])
             /\ \A k, l \in Uploads(up'[t]) :
                  /\ About(k) = About(l) /\ k.name = l.name
                  /\ \A r \in 0 .. Parts + 1 :
                       DocumentRank(k) < r /\ r < DocumentRank(l) /\ l.kind # "finish" =>
                         \E j \in Uploads(up'[t]) : DocumentRank(j) = r
  <2>1. up'[t] = up[t]
    BY <1>1, SentIs
  <2>2. /\ Ascending(up[t])
        /\ \A k, l \in Uploads(up[t]) :
             /\ About(k) = About(l) /\ k.name = l.name
             /\ \A r \in 0 .. Parts + 1 :
                  DocumentRank(k) < r /\ r < DocumentRank(l) /\ l.kind # "finish" =>
                    \E j \in Uploads(up[t]) : DocumentRank(j) = r
    BY DEF RanksInv, Way
  <2> QED BY <2>1, <2>2
<1> PICK p, q : p = Uploads(up[socket]) /\ q = Uploads(up'[socket])
  OBVIOUS
<1>2. /\ q = p \cup {m} /\ DocumentRank(m) \in Nat
      /\ \A l \in p : DocumentRank(l) < DocumentRank(m) /\ DocumentRank(l) \in Nat /\ About(l) = visits /\ l.name = uploader.name
  BY SentIs
<1>3. About(m) = visits /\ m.name = uploader.name /\ DocumentRank(m) = Due /\ Live
  BY DEF SendsNow
<1>4. \A k, l \in p : \A r \in 0 .. Parts + 1 :
        DocumentRank(k) < r /\ r < DocumentRank(l) /\ l.kind # "finish" => \E j \in p : DocumentRank(j) = r
  <2>1. socket \in Socket
    BY SentIs
  <2> QED BY <2>1 DEF RanksInv, Way
<1>5. ASSUME NEW k \in p, NEW r \in 0 .. Parts + 1, DocumentRank(k) < r, r < DocumentRank(m), m.kind # "finish"
      PROVE  \E j \in p : DocumentRank(j) = r
  <2>1. uploader.pc \in {"request", "part", "end"}
    BY <1>5 DEF SendsNow
  <2>2. uploader.pc # "request"
    BY <1>3, <1>5 DEF LiveInv, Way
  <2>3. PICK l \in p : DocumentRank(l) = Due - 1
    BY <1>3, <1>5, <2>1, <2>2 DEF LiveInv, Way
  <2>4. DocumentRank(l) <= Parts /\ Parts \in Nat /\ Due \in Nat
    BY <2>1, <2>2, <2>3, DueNow
  <2>5. l.kind # "finish"
    <3>1. up[socket] \in Seq(Upward)
      BY SentIs DEF UploadTypeOK
    <3>2. l.kind = "finish" <=> DocumentRank(l) = Parts + 2
      BY <3>1, Documents
    <3> QED BY <2>4, <3>2
  <2>6. CASE r = Due - 1
    BY <2>3, <2>6
  <2>7. CASE r # Due - 1
    <3>1. r < DocumentRank(l)
      BY <1>2, <1>3, <1>5, <2>3, <2>4, <2>7
    <3> QED BY <1>4, <1>5, <2>5, <3>1
  <2> QED BY <2>6, <2>7
<1>6. ASSUME NEW k \in q, NEW l \in q, NEW r \in 0 .. Parts + 1, DocumentRank(k) < r, r < DocumentRank(l), l.kind # "finish"
      PROVE  \E j \in q : DocumentRank(j) = r
  <2>1. k \in p
    <3>1. ASSUME k = m PROVE FALSE
      <4>1. DocumentRank(l) <= DocumentRank(m) /\ DocumentRank(l) \in Nat
        BY <1>2
      <4> QED BY <1>2, <1>6, <3>1, <4>1
    <3> QED BY <1>2, <3>1
  <2> QED BY <1>2, <1>4, <1>5, <1>6, <2>1
<1>7. \A k, l \in q : About(k) = About(l) /\ k.name = l.name
  BY <1>2, <1>3
<1>8. Ascending(up'[socket]) /\ socket \in Socket
  BY SentIs
<1>9. ASSUME NEW t \in Socket, t = socket
      PROVE  /\ Ascending(up'[t])
             /\ \A k, l \in Uploads(up'[t]) :
                  /\ About(k) = About(l) /\ k.name = l.name
                  /\ \A r \in 0 .. Parts + 1 :
                       DocumentRank(k) < r /\ r < DocumentRank(l) /\ l.kind # "finish" =>
                         \E j \in Uploads(up'[t]) : DocumentRank(j) = r
  BY <1>6, <1>7, <1>8, <1>9
<1> QED BY <1>1, <1>9 DEF RanksInv, Way

LEMMA SentSent ==
  ASSUME UploadTypeOK, UploadTypeOK', RanksInv, SentInv, LiveInv, NEW m, SendsNow(m)
  PROVE  SentInv'
<1>1. /\ socket \in Socket /\ Due \in Nat /\ Due' = Due + 1 /\ visits' = visits /\ spoilt' = spoilt
      /\ DocumentRank(m) = Due /\ About(m) = visits
  BY SentIs, DueNow DEF SendsNow
<1>2. visits \in Nat
  <2>1. visits \in {0} \cup Visit
    BY DEF UploadTypeOK
  <2> QED BY <2>1, NumbersOfUploads
<1>3. ASSUME NEW v \in Visit, NEW r \in Nat, Past(v, r) PROVE Past(v, r)'
  BY <1>1, <1>3, PastGrows
<1>4. ASSUME NEW s \in Socket, NEW l \in Uploads(up'[s])
      PROVE  \/ l = m /\ s = socket
             \/ /\ l \in Uploads(up[s]) /\ l # m /\ DocumentRank(l) \in Nat /\ About(l) \in Visit
                /\ Past(About(l), DocumentRank(l)) /\ (About(l) = visits => DocumentRank(l) < Due)
  <2>1. (l = m /\ s = socket) \/ l \in Uploads(up[s])
    <3>1. CASE s = socket
      BY <1>4, <3>1, SentIs
    <3>2. CASE s # socket
      BY <1>4, <3>2, SentIs
    <3> QED BY <3>1, <3>2
  <2>2. ASSUME l \in Uploads(up[s])
        PROVE  /\ DocumentRank(l) \in Nat /\ About(l) \in Visit
               /\ Past(About(l), DocumentRank(l)) /\ (About(l) = visits => DocumentRank(l) < Due)
    <3>1. up[s] \in Seq(Upward)
      BY DEF UploadTypeOK
    <3>2. DocumentRank(l) \in Nat /\ About(l) \in Visit
      BY <2>2, <3>1, Documents
    <3>3. Past(About(l), DocumentRank(l))
      BY <2>2 DEF SentInv, Way
    <3> QED BY <1>2, <3>2, <3>3 DEF Past
  <2> QED BY <1>1, <2>1, <2>2
<1>5. \A s \in Socket : \A l \in Way(s)' : Past(About(l), DocumentRank(l))'
  <2> SUFFICES ASSUME NEW s \in Socket, NEW l \in Uploads(up'[s]) PROVE Past(About(l), DocumentRank(l))'
    BY DEF Way
  <2>1. CASE l = m
    BY <1>1, <2>1 DEF Past
  <2>2. CASE l # m
    BY <1>3, <1>4, <2>2
  <2> QED BY <2>1, <2>2
<1>6. \A s, t \in Socket : \A k \in Way(s)', l \in Way(t)' :
        About(k) = About(l) /\ DocumentRank(k) = DocumentRank(l) => s = t
  <2> SUFFICES ASSUME NEW s \in Socket, NEW t \in Socket, NEW k \in Uploads(up'[s]), NEW l \in Uploads(up'[t]),
                      About(k) = About(l), DocumentRank(k) = DocumentRank(l)
               PROVE  s = t
    BY DEF Way
  <2>1. CASE k = m \/ l = m
    BY <1>1, <1>4, <2>1
  <2>2. CASE k # m /\ l # m
    <3>1. k \in Uploads(up[s]) /\ l \in Uploads(up[t])
      BY <1>4, <2>2
    <3> QED BY <3>1 DEF SentInv, Way
  <2> QED BY <2>1, <2>2
<1>7. ASSUME NEW c \in spoilt'
      PROVE  /\ Past(c.visit, c.part)'
             /\ \A s \in Socket : \A l \in Data(s)' : ~(About(l) = c.visit /\ DocumentRank(l) = c.part)
  <2>1. c \in spoilt /\ c.visit \in Visit /\ c.part \in Nat
    <3>1. c \in spoilt /\ c \in Chunk
      BY <1>1 DEF UploadTypeOK
    <3>2. c.visit \in Visit /\ c.part \in 1 .. Parts
      BY <3>1 DEF Chunk
    <3> QED BY <3>1, <3>2
  <2>2. Past(c.visit, c.part)
    BY <2>1 DEF SentInv
  <2>3. ASSUME NEW s \in Socket, NEW l \in Payload(up'[s]), About(l) = c.visit, DocumentRank(l) = c.part
        PROVE  FALSE
    <3>1. l \in Uploads(up'[s]) /\ l.kind # "finish"
      BY DEF Payload
    <3>2. CASE l = m
      BY <1>1, <1>2, <2>1, <2>2, <2>3, <3>2 DEF Past
    <3>3. CASE l # m
      <4>1. l \in Payload(up[s])
        BY <1>4, <3>1, <3>3 DEF Payload
      <4> QED BY <2>1, <2>3, <4>1 DEF SentInv, Data
    <3> QED BY <3>2, <3>3
  <2> QED BY <1>3, <2>1, <2>2, <2>3 DEF Data
<1>8. uploader'.pc \in {"request", "wait"} => uploader'.part = 1
  <2>1. uploader'.pc \in {"request", "wait"} => uploader.pc = "request" /\ uploader'.part = uploader.part
    BY DEF SendsNow
  <2> QED BY <2>1 DEF SentInv
<1> QED BY <1>5, <1>6, <1>7, <1>8 DEF SentInv

LEMMA SentLive ==
  ASSUME UploadTypeOK, RanksInv, SentInv, LiveInv, NEW m, SendsNow(m)
  PROVE  LiveInv'
<1>1. /\ socket' = socket /\ socket \in Socket /\ visits' = visits /\ uploader'.name = uploader.name
      /\ Live /\ Due' = Due + 1 /\ Due \in Nat /\ DocumentRank(m) = Due
      /\ About(m) = visits /\ m.name = uploader.name
  BY SentIs, DueNow DEF SendsNow
<1> PICK p, q : p = Uploads(up[socket]) /\ q = Uploads(up'[socket])
  OBVIOUS
<1>2. q = p \cup {m} /\ \A l \in p : About(l) = visits /\ l.name = uploader.name
  BY SentIs
<1>3. Way(socket)' = q
  BY <1>1 DEF Way
<1>4. \/ m.kind = "file" /\ uploader'.pc = "wait"
      \/ m.kind = "part" /\ uploader'.pc \in {"part", "end"}
      \/ m.kind = "finished" /\ uploader'.pc = "report"
      \/ m.kind = "finish" /\ uploader'.pc = "idle" /\ uploader.pc = "report"
  BY DEF SendsNow
<1>5. uploader'.pc # "request" /\ \A l \in q : About(l) = visits' /\ l.name = uploader'.name
  BY <1>1, <1>2, <1>4
<1>6. \E l \in q : DocumentRank(l) = Due' - 1
  BY <1>1, <1>2
<1>7. uploader'.pc = "idle" => \E l \in q : l.kind = "finish"
  BY <1>2, <1>4
<1>8. ASSUME uploader'.pc \in {"report", "idle"}, \E l \in q : l.kind = "part"
      PROVE  \E l \in q : l.kind = "finished"
  <2>1. CASE m.kind = "finished"
    BY <1>2, <2>1
  <2>2. CASE m.kind = "finish" /\ uploader.pc = "report"
    <3>1. \E l \in p : l.kind = "part"
      BY <1>2, <1>8, <2>2
    <3>2. \E l \in p : l.kind = "finished"
      BY <1>1, <2>2, <3>1 DEF LiveInv, Way
    <3> QED BY <1>2, <3>2
  <2> QED BY <1>4, <1>8, <2>1, <2>2
<1> QED BY <1>3, <1>5, <1>6, <1>7, <1>8 DEF LiveInv

LEMMA SentFinish ==
  ASSUME UploadTypeOK, RanksInv, SentInv, LiveInv, FinishInv, NEW m, SendsNow(m)
  PROVE  FinishInv'
<1>1. /\ visits' = visits /\ visiting' = visiting /\ uploader.pc # "idle"
      /\ m.kind = "finish" => uploader'.pc = "idle" /\ m.kind # "part"
      /\ About(m) = visits
  BY DEF SendsNow
<1>2. visiting = visits /\ visits # 0
  BY <1>1 DEF FinishInv
<1>3. ASSUME NEW s \in Socket, NEW l \in Uploads(up'[s]), l.kind = "finish"
      PROVE  uploader'.pc = "idle" /\ l.visit = visits
  <2>1. l = m \/ l \in Uploads(up[s])
    <3>1. CASE s = socket
      BY <1>3, <3>1, SentIs
    <3>2. CASE s # socket
      BY <1>3, <3>2, SentIs
    <3> QED BY <3>1, <3>2
  <2>2. l = m
    BY <1>1, <1>3, <2>1 DEF FinishInv, Way
  <2> QED BY <1>1, <1>3, <2>2 DEF About
<1> QED BY <1>1, <1>2, <1>3 DEF FinishInv, Way

LEMMA SentData ==
  ASSUME UploadTypeOK, RanksInv, SentInv, LiveInv, NEW m, SendsNow(m),
         NEW s \in Socket, NEW l \in Data(s)'
  PROVE  l \in Data(s) \/ (l = m /\ s = socket /\ m.kind # "finish")
<1>1. l \in Payload(up'[s]) /\ l.kind # "finish"
  BY DEF Data, Payload
<1>2. CASE s = socket
  <2>1. l \in Payload(up[s]) \/ (m.kind # "finish" /\ l \in Payload(up[s]) \cup {m})
    BY <1>1, <1>2, SentIs
  <2> QED BY <1>2, <2>1 DEF Data
<1>3. CASE s # socket
  <2>1. up'[s] = up[s]
    BY <1>3, SentIs
  <2> QED BY <1>1, <2>1 DEF Data
<1> QED BY <1>2, <1>3

LEMMA SentGot ==
  ASSUME UploadTypeOK, RanksInv, SentInv, LiveInv, NEW m, SendsNow(m),
         NEW c, NEW v, NEW r, Got(c, v, r), m.kind = "part" /\ v = visits => r <= DocumentRank(m)
  PROVE  Got(c, v, r)'
<1>1. spoilt' = spoilt /\ About(m) = visits
  BY DEF SendsNow
<1>2. ASSUME NEW s \in Socket, NEW l \in Data(s)', l.kind = "part", About(l) = v PROVE r <= DocumentRank(l)
  <2>1. l \in Data(s) \/ l = m
    BY SentData
  <2> QED BY <1>1, <1>2, <2>1 DEF Got
<1> QED BY <1>1, <1>2 DEF Got, Lists

\* A list of nothing is empty, and lists what comes before the first part.
LEMMA EmptyLists ==
  ASSUME NEW c \in Seq(Chunk), NEW v, NEW p \in {0, 1}
  PROVE  Lists(c, v, p) <=> c = <<>>
<1>1. [visit : {v}, part : 1 .. p - 1] = {}
  <2>1. 1 .. p - 1 = {}
    OBVIOUS
  <2> QED BY <2>1
<1>2. ASSUME c # <<>> PROVE {c[i] : i \in DOMAIN c} # {}
  <2>1. DOMAIN c = 1 .. Len(c) /\ Len(c) \in Nat /\ Len(c) # 0
    BY <1>2, LenProperties, EmptySeq
  <2>2. 1 \in DOMAIN c
    BY <2>1
  <2> QED BY <2>2
<1>3. ASSUME c = <<>> PROVE Lists(c, v, p)
  <2>1. DOMAIN c = {}
    BY <1>3
  <2> QED BY <1>1, <2>1 DEF Lists
<1> QED BY <1>1, <1>2, <1>3 DEF Lists

LEMMA SentGotInv ==
  ASSUME UploadTypeOK, RanksInv, SentInv, LiveInv, GotInv, LeftInv, NEW m, SendsNow(m)
  PROVE  GotInv'
<1> SUFFICES ASSUME ServerHears' PROVE GotInv'
  BY DEF GotInv
<1>1. /\ socket' = socket /\ route' = route /\ visits' = visits /\ file' = file /\ spoilt' = spoilt
      /\ controller' = controller /\ closed' = closed
      /\ uploader'.name = uploader.name /\ Due' = Due + 1
      /\ About(m) = visits /\ m.name = uploader.name /\ DocumentRank(m) = Due /\ Live
  BY DEF SendsNow
<1>2. ServerHears /\ route \in Socket
  BY <1>1 DEF ServerHears, UploadTypeOK
<1>3. \A n : ReceiverOf(n)' = ReceiverOf(n)
  BY <1>1 DEF ReceiverOf
<1>4. Due \in Nat
  BY DueNow
\* What follows the data of the connection, if it is the receiver's turn.
<1>5. ASSUME NEW l \in Data(route), \A k \in Data(route) : DocumentRank(l) <= DocumentRank(k),
             ReceiverOf(l.name) \in FileName
      PROVE  Got(file[ReceiverOf(l.name)], About(l), DocumentRank(l))'
  <2>1. Got(file[ReceiverOf(l.name)], About(l), DocumentRank(l))
    BY <1>2, <1>5 DEF GotInv
  <2>2. ASSUME About(l) = visits PROVE DocumentRank(l) <= DocumentRank(m)
    <3>1. up[route] \in Seq(Upward) /\ l \in Uploads(up[route])
      BY <1>2, <1>5 DEF UploadTypeOK, Data, Payload
    <3>2. Past(About(l), DocumentRank(l)) /\ DocumentRank(l) \in Nat
      BY <1>2, <3>1, Documents DEF SentInv, Way
    <3>3. visits \in Nat
      <4>1. visits \in {0} \cup Visit
        BY DEF UploadTypeOK
      <4> QED BY <4>1, NumbersOfUploads
    <3> QED BY <1>1, <1>4, <2>2, <3>2, <3>3 DEF Past
  <2> PICK c, v, r : c = file[ReceiverOf(l.name)] /\ v = About(l) /\ r = DocumentRank(l)
    OBVIOUS
  <2>4. Got(c, v, r)'
    BY <2>1, <2>2, SentGot
  <2> QED BY <1>1, <1>3, <2>4
<1>6. ASSUME Data(route) = {}, socket = route, m.kind # "finish", ReceiverOf(m.name) \in FileName
      PROVE  Got(file[ReceiverOf(m.name)], About(m), DocumentRank(m))'
  <2> PICK c : c = file[ReceiverOf(m.name)]
    OBVIOUS
  <2>1. Got(c, visits, Due)
    <3>1. CASE uploader.pc \in {"wait", "part", "end"}
      BY <1>1, <1>2, <1>6, <3>1 DEF GotInv
    <3>2. CASE uploader.pc = "request"
      <4>1. ~UnderWay(m.name) /\ m.name \in Archive
        BY <1>1, <1>6, <3>2 DEF UnderWay, UploadTypeOK
      <4>2. c = <<>>
        BY <1>1, <1>6, <4>1 DEF LeftInv
      <4>3. Due = 0
        BY <3>2, DueNow
      <4>4. \A s \in Socket : \A l \in Data(s) : 0 <= DocumentRank(l)
        <5>1. \A s \in Socket : \A l \in Data(s) : DocumentRank(l) \in Nat
          BY Documents DEF UploadTypeOK, Data, Payload
        <5> QED BY <5>1
      <4>5. <<>> \in Seq(Chunk)
        BY EmptySeq
      <4>6. Lists(<<>>, visits, 1)
        BY <4>5, EmptyLists
      <4> QED BY <4>2, <4>3, <4>4, <4>6 DEF Got
    <3> QED BY <1>6, <3>1, <3>2 DEF SendsNow
  <2> PICK v, r : v = About(m) /\ r = DocumentRank(m)
    OBVIOUS
  <2>2. Got(c, v, r) /\ r <= DocumentRank(m)
    BY <1>1, <1>4, <2>1
  <2>3. Got(c, v, r)'
    BY <2>2, SentGot
  <2> QED BY <1>1, <1>3, <2>3
<1>7. ASSUME NEW l \in Data(route)', \A k \in Data(route)' : DocumentRank(l) <= DocumentRank(k),
             ReceiverOf(l.name)' \in FileName
      PROVE  Got(file[ReceiverOf(l.name)], About(l), DocumentRank(l))'
  <2> PICK p, q : p = Payload(up[route]) /\ q = Payload(up'[route])
    OBVIOUS
  <2>1. Data(route) = p /\ Data(route)' = q
    BY <1>1 DEF Data
  <2>2. p \subseteq q
    <3>1. CASE route = socket
      BY <3>1, SentIs
    <3>2. CASE route # socket
      BY <1>2, <3>2, SentIs
    <3> QED BY <3>1, <3>2
  <2>3. CASE l \in p
    BY <1>3, <1>5, <1>7, <2>1, <2>2, <2>3
  <2>4. CASE l \notin p
    <3>1. l = m /\ route = socket /\ m.kind # "finish"
      <4>1. q = p \/ (route = socket /\ m.kind # "finish" /\ q = p \cup {m})
        <5>1. CASE route = socket
          BY <5>1, SentIs
        <5>2. CASE route # socket
          BY <1>2, <5>2, SentIs
        <5> QED BY <5>1, <5>2
      <4> QED BY <1>7, <2>1, <2>4, <4>1
    <3>2. ASSUME NEW k \in p PROVE FALSE
      <4>1. DocumentRank(k) < DocumentRank(m) /\ DocumentRank(k) \in Nat /\ DocumentRank(m) \in Nat
        BY <3>1, SentIs DEF Payload
      <4>2. DocumentRank(m) <= DocumentRank(k)
        BY <1>7, <2>1, <2>2, <3>1
      <4> QED BY <4>1, <4>2
    <3>3. Data(route) = {}
      BY <2>1, <3>2
    <3> QED BY <1>3, <1>6, <1>7, <3>1, <3>3
  <2> QED BY <2>3, <2>4
<1>8. ASSUME socket' = route', Data(route)' = {}, uploader'.pc \in {"wait", "part", "end"}
      PROVE  FALSE
  <2>1. m.kind # "finish"
    BY <1>8 DEF SendsNow
  <2>2. m \in Payload(up'[route])
    BY <1>1, <1>8, <2>1, SentIs
  <2> QED BY <1>1, <1>8, <2>2 DEF Data
<1> QED BY <1>7, <1>8 DEF GotInv

LEMMA SentLeft ==
  ASSUME UploadTypeOK, RanksInv, SentInv, LiveInv, LeftInv, NEW m, SendsNow(m)
  PROVE  LeftInv'
<1>1. /\ socket' = socket /\ route' = route /\ visits' = visits /\ file' = file
      /\ controller' = controller /\ uploader'.name = uploader.name /\ Live
      /\ uploader'.pc # "request"
      /\ m.kind = "file" => uploader.pc = "request"
      /\ uploader.pc \in {"wait", "part", "end"} =>
           uploader'.pc \in {"wait", "part", "end"} \/ m.kind = "finished"
  BY DEF SendsNow
<1> SUFFICES ASSUME socket = route PROVE LeftInv'
  BY <1>1 DEF LeftInv
<1>2. \A n : ReceiverOf(n)' = ReceiverOf(n)
  BY <1>1 DEF ReceiverOf
<1>3. /\ socket \in Socket
      /\ Data(socket)' = IF m.kind = "finish" THEN Data(socket) ELSE Data(socket) \cup {m}
  BY <1>1, SentIs DEF Data
<1>4. \A n : UnderWay(n) => UnderWay(n)'
  <2> SUFFICES ASSUME NEW n, UnderWay(n) PROVE UnderWay(n)'
    OBVIOUS
  <2>1. n = uploader'.name
    BY <1>1 DEF UnderWay
  <2>2. CASE Data(socket) # {}
    <3>1. Data(socket)' # {}
      BY <1>3, <2>2
    <3> QED BY <2>1, <3>1 DEF UnderWay
  <2>3. CASE uploader.pc \in {"wait", "part", "end"}
    <3>1. uploader'.pc \in {"wait", "part", "end"} \/ Data(socket)' # {}
      BY <1>1, <1>3, <2>3
    <3> QED BY <2>1, <3>1 DEF UnderWay
  <2> QED BY <2>2, <2>3 DEF UnderWay
<1>5. ASSUME NEW n \in Archive, ReceiverOf(n) \in FileName
      PROVE  /\ file[ReceiverOf(n)] = <<>> \/ UnderWay(n)
             /\ ReceiverOf(n) \in Visit => ReceiverOf(n) <= visits
             /\ \A k \in Archive : ReceiverOf(k) = ReceiverOf(n) => k = n
             /\ uploader.pc = "request" \/ (\E l \in Data(socket) : l.kind = "file") =>
                  ReceiverOf(n) # visits
  BY <1>1, <1>5 DEF LeftInv
<1>6. (\E l \in Data(socket)' : l.kind = "file") =>
        uploader.pc = "request" \/ \E l \in Data(socket) : l.kind = "file"
  BY <1>1, <1>3
<1> QED BY <1>1, <1>2, <1>4, <1>5, <1>6 DEF LeftInv

LEMMA SentNameless ==
  ASSUME UploadTypeOK, FinishInv, NamelessInv, NEW m, SendsNow(m)
  PROVE  NamelessInv'
<1>1. uploader.pc # "idle" /\ visiting' = visiting
  BY DEF SendsNow
<1> QED BY <1>1 DEF FinishInv, NamelessInv

LEMMA SentStored ==
  ASSUME UploadTypeOK, UploadTypeOK', RanksInv, SentInv, LiveInv, StoredInv, NEW m, SendsNow(m)
  PROVE  StoredInv'
<1>1. /\ Due' = Due + 1 /\ visits' = visits /\ stored' = stored /\ spoilt' = spoilt /\ gaveUp' = gaveUp
      /\ m.kind = "part" => uploader.pc = "part"
      /\ About(m) = visits
  BY DEF SendsNow
<1>2. Due \in Nat /\ Parts \in Nat /\ Parts + 1 \in Nat /\ (uploader.pc = "part" => Due <= Parts)
  BY DueNow
<1> SUFFICES ASSUME NEW f \in stored
             PROVE  \E v \in Visit :
                      /\ Lists(f.content, v, Parts + 1)' /\ (f.path = v \/ gaveUp # {})
                      /\ Past(v, Parts + 1)'
                      /\ \A s \in Socket : \A l \in Data(s)' : l.kind = "part" => About(l) # v
  BY <1>1 DEF StoredInv
<1>3. PICK v \in Visit :
        /\ Lists(f.content, v, Parts + 1) /\ (f.path = v \/ gaveUp # {})
        /\ Past(v, Parts + 1)
        /\ \A s \in Socket : \A l \in Data(s) : l.kind = "part" => About(l) # v
  BY DEF StoredInv
<1>4. Lists(f.content, v, Parts + 1)'
  BY <1>1, <1>3 DEF Lists
<1>5. Past(v, Parts + 1)'
  <2>1. Due' >= Due
    BY <1>1, <1>2
  <2> QED BY <1>1, <1>2, <1>3, <2>1, PastGrows
<1>6. m.kind = "part" => About(m) # v
  <2>1. visits \in Nat
    <3>1. visits \in {0} \cup Visit
      BY DEF UploadTypeOK
    <3> QED BY <3>1, NumbersOfUploads
  <2> QED BY <1>1, <1>2, <1>3, <2>1 DEF Past
<1>7. ASSUME NEW s \in Socket, NEW l \in Data(s)', l.kind = "part" PROVE About(l) # v
  <2>1. l \in Data(s) \/ l = m
    BY SentData
  <2> QED BY <1>3, <1>6, <1>7, <2>1
<1> QED BY <1>3, <1>4, <1>5, <1>7

LEMMA SentToken ==
  ASSUME UploadTypeOK, RanksInv, SentInv, LiveInv, TokenInv, NEW m, SendsNow(m)
  PROVE  TokenInv'
<1>1. /\ gaveUp' = gaveUp /\ visits' = visits /\ down' = down /\ uploader.pc # "wait"
      /\ uploader'.acknowledged = uploader.acknowledged
      /\ m.kind = "file" => uploader'.pc = "wait" /\ About(m) = visits
  BY DEF SendsNow
<1> SUFFICES ASSUME gaveUp = {} PROVE TokenInv'
  BY <1>1 DEF TokenInv
<1>2. ~uploader.acknowledged
  BY <1>1 DEF TokenInv
<1>3. \A s \in Socket : \A i \in DOMAIN down[s] : ~AcceptAt(down[s], i)
  BY <1>1 DEF TokenInv, Accepts
<1>4. ASSUME NEW s \in Socket, NEW l \in Data(s)', l.kind = "file" PROVE l = m
  <2>1. l \in Data(s) \/ l = m
    BY SentData
  <2> QED BY <1>1, <1>4, <2>1 DEF TokenInv
<1> QED BY <1>1, <1>2, <1>3, <1>4 DEF TokenInv, Accepts

LEMMA SentPath ==
  ASSUME UploadTypeOK, RanksInv, SentInv, LiveInv, LeftInv, PathInv, NEW m, SendsNow(m)
  PROVE  PathInv'
<1>1. /\ socket' = socket /\ route' = route /\ visits' = visits /\ closed' = closed
      /\ gaveUp' = gaveUp
      /\ controller' = controller /\ uploader'.name = uploader.name /\ Live
      /\ m.kind = "file" => uploader.pc = "request"
      /\ About(m) = visits /\ m.name = uploader.name
      /\ uploader'.pc \in {"wait", "part", "end"} \/ m.kind = "finished"
           \/ (uploader.pc = "report" /\ m.kind = "finish")
  BY DEF SendsNow
<1> SUFFICES ASSUME gaveUp = {}, ServerHears PROVE PathInv'
  BY <1>1 DEF PathInv, ServerHears
<1>2. \A n : ReceiverOf(n)' = ReceiverOf(n)
  BY <1>1 DEF ReceiverOf
<1>3. route \in Socket
  BY DEF ServerHears, UploadTypeOK
<1> SUFFICES ASSUME NEW n \in Archive, ReceiverOf(n) \in FileName
             PROVE  /\ \A l \in Data(route)' : l.kind # "file" /\ l.name = n /\ About(l) = ReceiverOf(n)
                    /\ socket = route =>
                         /\ ReceiverOf(n) = visits /\ n = uploader.name
                         /\ \/ uploader'.pc \in {"wait", "part", "end"}
                            \/ \E l \in Data(route)' : l.kind = "finished"
  BY <1>1, <1>2 DEF PathInv
<1>4. /\ \A l \in Data(route) : l.kind # "file" /\ l.name = n /\ About(l) = ReceiverOf(n)
      /\ socket = route =>
           /\ ReceiverOf(n) = visits /\ n = uploader.name
           /\ \/ uploader.pc \in {"wait", "part", "end"}
              \/ \E l \in Data(route) : l.kind = "finished"
  BY <1>1 DEF PathInv
<1>5. CASE socket # route
  <2>1. Data(route)' = Data(route)
    BY <1>1, <1>3, <1>5, SentIs DEF Data
  <2> QED BY <1>4, <1>5, <2>1
<1>6. CASE socket = route
  <2>1. Data(route)' = IF m.kind = "finish" THEN Data(route) ELSE Data(route) \cup {m}
    BY <1>1, <1>6, SentIs DEF Data
  <2>2. uploader.pc # "request"
    BY <1>1, <1>4, <1>6 DEF LeftInv
  <2>3. \A l \in Data(route)' : l.kind # "file" /\ l.name = n /\ About(l) = ReceiverOf(n)
    BY <1>1, <1>4, <1>6, <2>1, <2>2
  <2>4. uploader'.pc \in {"wait", "part", "end"} \/ \E l \in Data(route)' : l.kind = "finished"
    BY <1>1, <1>4, <1>6, <2>1
  <2> QED BY <1>4, <1>6, <2>3, <2>4
<1> QED BY <1>5, <1>6

LEMMA UploadsSendKeeps ==
  ASSUME UploadInv, UploadTypeOK', NEW m, SendsNow(m)
  PROVE  UploadInv'
<1>1. /\ UploadTypeOK /\ FreshInv /\ TokenInv /\ (uploader.acknowledged => uploader.accepted)
      /\ RanksInv /\ SentInv /\ LiveInv /\ FinishInv /\ GotInv /\ LeftInv /\ NamelessInv
      /\ StoredInv /\ PathInv
  BY DEF UploadInv, CoreInv
<1>2. RanksInv' /\ SentInv' /\ LiveInv'
  BY <1>1, SentOrder, SentSent, SentLive
<1>3. FinishInv' /\ GotInv' /\ LeftInv'
  BY <1>1, SentFinish, SentGotInv, SentLeft
<1>4. NamelessInv' /\ StoredInv' /\ PathInv'
  BY <1>1, SentNameless, SentStored, SentPath
<1>5. TokenInv'
  BY <1>1, SentToken
<1>6. FreshInv'
  <2>1. \A t \in Socket : t > sockets => up'[t] = up[t]
    <3>1. \A t \in Socket : t # socket => up'[t] = up[t]
      BY <1>1, SentIs
    <3>2. \A t \in Socket : t > sockets => t # socket
      <4>1. sockets \in Nat /\ socket <= sockets
        BY <1>1, NumbersOfUploads DEF UploadTypeOK, FreshInv
      <4> QED BY <4>1, NumbersOfUploads
    <3> QED BY <3>1, <3>2
  <2>2. UNCHANGED <<socket, sockets, closed, route, controller>>
    BY DEF SendsNow
  <2> QED BY <1>1, <2>1, <2>2 DEF FreshInv
<1>7. uploader'.acknowledged => uploader'.accepted
  BY <1>1 DEF SendsNow
<1> QED BY <1>2, <1>3, <1>4, <1>5, <1>6, <1>7 DEF UploadInv, CoreInv

(***************************************************************************)
(* The visitor thread goes on without a document that arrives.             *)
(***************************************************************************)
Moves ==
  /\ up' = up /\ uploader'.name = uploader.name /\ Due' >= Due /\ uploader.pc # "idle"
  /\ uploader'.pc # "request"
  /\ uploader'.pc \in {"request", "wait"} => uploader'.part = 1
  /\ gaveUp \subseteq gaveUp'
  /\ UNCHANGED <<connected, socket, sockets, broken, closed, controller, route, visiting, visits,
                 file, stored, spoilt, down>>

LEMMA MoveKeeps ==
  ASSUME UploadTypeOK, UploadTypeOK', FreshInv, RanksInv, SentInv, FinishInv, NamelessInv, StoredInv,
         Moves
  PROVE  /\ FreshInv' /\ RanksInv' /\ SentInv' /\ FinishInv' /\ NamelessInv' /\ StoredInv'
         /\ \A s : Way(s)' = Way(s) /\ Data(s)' = Data(s)
         /\ \A n : ReceiverOf(n)' = ReceiverOf(n)
         /\ Live' = Live /\ ServerHears' = ServerHears
<1> USE DEF Moves
<1>1. \A s : Way(s)' = Way(s) /\ Data(s)' = Data(s)
  BY DEF Way, Data
<1>2. \A n : ReceiverOf(n)' = ReceiverOf(n)
  BY DEF ReceiverOf
<1>3. Live' = Live /\ ServerHears' = ServerHears
  BY DEF Live, ServerHears, Usable
<1>4. FreshInv'
  BY DEF FreshInv
<1>5. RanksInv'
  BY <1>1 DEF RanksInv
<1>6. \A v \in Visit : \A r \in Nat : Past(v, r) => Past(v, r)'
  BY PastGrows
<1>7. SentInv'
  <2>1. ASSUME NEW s \in Socket, NEW m \in Way(s) PROVE Past(About(m), DocumentRank(m))'
    <3>1. Past(About(m), DocumentRank(m))
      BY DEF SentInv
    <3>2. About(m) \in Visit /\ DocumentRank(m) \in Nat
      BY Ways, Documents
    <3> QED BY <1>6, <3>1, <3>2
  <2>2. ASSUME NEW c \in spoilt PROVE Past(c.visit, c.part)'
    <3>1. Past(c.visit, c.part)
      BY DEF SentInv
    <3>2. c \in Chunk
      BY DEF UploadTypeOK
    <3>3. c.visit \in Visit /\ c.part \in 1 .. Parts
      BY <3>2 DEF Chunk
    <3> QED BY <1>6, <3>1, <3>3
  <2>3. \A s, t \in Socket : \A m \in Way(s), l \in Way(t) :
          About(m) = About(l) /\ DocumentRank(m) = DocumentRank(l) => s = t
    BY DEF SentInv
  <2>4. \A c \in spoilt : \A s \in Socket : \A m \in Data(s) :
          ~(About(m) = c.visit /\ DocumentRank(m) = c.part)
    BY DEF SentInv
  <2> QED BY <1>1, <2>1, <2>2, <2>3, <2>4 DEF SentInv
<1>8. FinishInv'
  <2>1. visiting = visits /\ visiting # 0 /\ \A s \in Socket : \A m \in Way(s) : m.kind # "finish"
    BY DEF FinishInv
  <2> QED BY <1>1, <2>1 DEF FinishInv
<1>9. NamelessInv'
  <2>1. visiting' # 0
    BY DEF FinishInv
  <2> QED BY <2>1 DEF NamelessInv
<1>10. StoredInv'
  <2> SUFFICES ASSUME NEW f \in stored
               PROVE  \E v \in Visit :
                        /\ Lists(f.content, v, Parts + 1)' /\ (f.path = v \/ gaveUp' # {})
                        /\ Past(v, Parts + 1)'
                        /\ \A s \in Socket : \A l \in Data(s) : l.kind = "part" => About(l) # v
    BY <1>1 DEF StoredInv
  <2>1. PICK v \in Visit :
          /\ Lists(f.content, v, Parts + 1) /\ (f.path = v \/ gaveUp # {})
          /\ Past(v, Parts + 1)
          /\ \A s \in Socket : \A l \in Data(s) : l.kind = "part" => About(l) # v
    BY DEF StoredInv
  <2>2. Lists(f.content, v, Parts + 1)'
    BY <2>1 DEF Lists
  <2>3. Parts + 1 \in Nat
    BY NumbersOfUploads
  <2>4. f.path = v \/ gaveUp' # {}
    BY <2>1
  <2> QED BY <1>6, <2>1, <2>2, <2>3, <2>4
<1> QED BY <1>1, <1>2, <1>3, <1>4, <1>5, <1>7, <1>8, <1>9, <1>10

\* What a file has got does not depend on the visitor thread.
LEMMA MoveGot ==
  ASSUME NEW c, NEW v, NEW r, Got(c, v, r), up' = up, spoilt' = spoilt
  PROVE  Got(c, v, r)'
BY DEF Got, Lists, Data

LEMMA MoveGotInv ==
  ASSUME UploadTypeOK, GotInv, Moves,
         Live /\ uploader'.pc \in {"wait", "part", "end"} =>
           uploader.pc \in {"wait", "part", "end"} /\ Due' = Due
  PROVE  GotInv'
<1> USE DEF Moves
<1>1. Live' = Live /\ ServerHears' = ServerHears /\ visits' = visits
  BY DEF Live, ServerHears, Usable
<1>2. \A n : ReceiverOf(n)' = ReceiverOf(n)
  BY DEF ReceiverOf
<1>3. Data(route)' = Data(route)
  BY DEF Data
<1> SUFFICES ASSUME ServerHears PROVE GotInv'
  BY <1>1 DEF GotInv
<1>4. ASSUME NEW m \in Data(route), \A l \in Data(route) : DocumentRank(m) <= DocumentRank(l),
             ReceiverOf(m.name) \in FileName
      PROVE  Got(file[ReceiverOf(m.name)], About(m), DocumentRank(m))'
  <2> PICK c : c = file[ReceiverOf(m.name)]
    OBVIOUS
  <2>1. Got(c, About(m), DocumentRank(m))
    BY <1>4 DEF GotInv
  <2>2. Got(c, About(m), DocumentRank(m))'
    BY <2>1, MoveGot
  <2> QED BY <1>2, <2>2
<1>5. ASSUME Live, socket = route, Data(route) = {}, uploader'.pc \in {"wait", "part", "end"},
             ReceiverOf(uploader.name) \in FileName
      PROVE  Got(file[ReceiverOf(uploader.name)], visits, Due)'
  <2>1. Got(file[ReceiverOf(uploader.name)], visits, Due) /\ Due' = Due
    BY <1>5 DEF GotInv
  <2> PICK c, v, r : c = file[ReceiverOf(uploader.name)] /\ v = visits /\ r = Due
    OBVIOUS
  <2>2. Got(c, v, r)'
    BY <2>1, MoveGot
  <2> QED BY <1>2, <2>1, <2>2
<1> QED BY <1>1, <1>2, <1>3, <1>4, <1>5 DEF GotInv

LEMMA LostKeeps ==
  ASSUME UploadInv, UploadTypeOK', Moves, ~Live, uploader.pc # "wait", gaveUp' = gaveUp,
         uploader'.accepted = uploader.accepted, uploader'.acknowledged = uploader.acknowledged
  PROVE  UploadInv'
<1>1. /\ UploadTypeOK /\ FreshInv /\ TokenInv /\ (uploader.acknowledged => uploader.accepted)
      /\ RanksInv /\ SentInv /\ LiveInv /\ FinishInv /\ GotInv /\ LeftInv /\ NamelessInv
      /\ StoredInv /\ PathInv
  BY DEF UploadInv, CoreInv
<1>2. /\ FreshInv' /\ RanksInv' /\ SentInv' /\ FinishInv' /\ NamelessInv' /\ StoredInv'
      /\ \A s : Way(s)' = Way(s) /\ Data(s)' = Data(s)
      /\ \A n : ReceiverOf(n)' = ReceiverOf(n)
      /\ Live' = Live /\ ServerHears' = ServerHears
  BY <1>1, MoveKeeps
<1>3. GotInv'
  BY <1>1, MoveGotInv
<1>4. LiveInv' /\ LeftInv'
  BY <1>2 DEF LiveInv, LeftInv
<1>5. TokenInv'
  <2> SUFFICES ASSUME gaveUp = {} PROVE TokenInv'
    BY DEF TokenInv
  <2>1. /\ ~uploader.acknowledged
        /\ \A s \in Socket : \A m \in Data(s) : m.kind # "file"
        /\ \A s \in Socket : \A i \in DOMAIN down[s] : ~Accepts(s, i)
    BY <1>1 DEF TokenInv
  <2>2. down' = down
    BY DEF Moves
  <2> QED BY <1>2, <2>1, <2>2 DEF TokenInv, Accepts
<1>6. PathInv'
  <2>1. route' = route
    BY DEF Moves
  <2> QED BY <1>1, <1>2, <2>1 DEF PathInv
<1> QED BY <1>1, <1>2, <1>3, <1>4, <1>5, <1>6 DEF UploadInv, CoreInv

\* The archive is not uploaded: nothing is under way, and nothing was received.
LEMMA SkipKeeps ==
  ASSUME UploadInv, UploadTypeOK', Moves, uploader.pc = "request", uploader'.pc = "report",
         gaveUp' = gaveUp,
         uploader'.accepted = uploader.accepted, uploader'.acknowledged = uploader.acknowledged
  PROVE  UploadInv'
<1>1. /\ UploadTypeOK /\ FreshInv /\ TokenInv /\ (uploader.acknowledged => uploader.accepted)
      /\ RanksInv /\ SentInv /\ LiveInv /\ FinishInv /\ GotInv /\ LeftInv /\ NamelessInv
      /\ StoredInv /\ PathInv
  BY DEF UploadInv, CoreInv
<1>2. CASE ~Live
  BY <1>2, LostKeeps
<1>3. CASE Live
  <2>1. /\ FreshInv' /\ RanksInv' /\ SentInv' /\ FinishInv' /\ NamelessInv' /\ StoredInv'
        /\ \A s : Way(s)' = Way(s) /\ Data(s)' = Data(s)
        /\ \A n : ReceiverOf(n)' = ReceiverOf(n)
        /\ Live' = Live /\ ServerHears' = ServerHears
    BY <1>1, MoveKeeps
  <2>2. GotInv'
    BY <1>1, MoveGotInv
  <2>3. /\ socket' = socket /\ route' = route /\ visits' = visits /\ file' = file /\ down' = down
        /\ uploader'.name = uploader.name
    BY DEF Moves
  <2>4. Way(socket) = {} /\ Data(socket) = {}
    <3>1. Way(socket) = {}
      BY <1>1, <1>3 DEF LiveInv
    <3> QED BY <3>1 DEF Way, Data, Payload
  <2>5. Way(socket)' = {} /\ Data(socket)' = {}
    BY <2>3, <2>4 DEF Way, Data, Moves
  <2>6. LiveInv'
    BY <2>5 DEF LiveInv
  <2>7. \A n \in Archive : Live /\ socket = route /\ ReceiverOf(n) \in FileName =>
          /\ file[ReceiverOf(n)] = <<>> /\ ReceiverOf(n) # visits
          /\ ReceiverOf(n) \in Visit => ReceiverOf(n) <= visits
          /\ \A k \in Archive : ReceiverOf(k) = ReceiverOf(n) => k = n
    BY <1>1, <2>4 DEF LeftInv, UnderWay
  <2>8. LeftInv'
    BY <2>1, <2>3, <2>5, <2>7 DEF LeftInv
  <2>9. TokenInv'
    <3> SUFFICES ASSUME gaveUp = {} PROVE TokenInv'
      BY DEF TokenInv
    <3>1. /\ ~uploader.acknowledged
          /\ \A s \in Socket : \A m \in Data(s) : m.kind # "file"
          /\ \A s \in Socket : \A i \in DOMAIN down[s] : ~Accepts(s, i)
      BY <1>1 DEF TokenInv
    <3> QED BY <2>1, <2>3, <3>1 DEF TokenInv, Accepts
  <2>10. PathInv'
    <3>1. gaveUp = {} /\ ServerHears => \A n \in Archive : ReceiverOf(n) \in FileName =>
            /\ \A m \in Data(route) : m.kind # "file" /\ m.name = n /\ About(m) = ReceiverOf(n)
            /\ Live /\ socket = route => ReceiverOf(n) = visits
      BY <1>1 DEF PathInv
    <3> QED BY <2>1, <2>3, <2>7, <3>1 DEF PathInv
  <2> QED BY <1>1, <2>1, <2>2, <2>6, <2>8, <2>9, <2>10 DEF UploadInv, CoreInv
<1> QED BY <1>2, <1>3

LEMMA AcceptedKeeps ==
  ASSUME UploadInv, UploadTypeOK', Moves, uploader.pc = "wait", uploader'.pc = "part",
         uploader'.part = uploader.part, gaveUp' = gaveUp,
         uploader.acknowledged, ~uploader'.acknowledged
  PROVE  UploadInv'
<1>1. /\ UploadTypeOK /\ FreshInv /\ TokenInv
      /\ RanksInv /\ SentInv /\ LiveInv /\ FinishInv /\ GotInv /\ LeftInv /\ NamelessInv
      /\ StoredInv /\ PathInv
  BY DEF UploadInv, CoreInv
<1>2. /\ FreshInv' /\ RanksInv' /\ SentInv' /\ FinishInv' /\ NamelessInv' /\ StoredInv'
      /\ \A s : Way(s)' = Way(s) /\ Data(s)' = Data(s)
      /\ \A n : ReceiverOf(n)' = ReceiverOf(n)
      /\ Live' = Live /\ ServerHears' = ServerHears
  BY <1>1, MoveKeeps
<1>3. /\ socket' = socket /\ route' = route /\ visits' = visits /\ file' = file /\ down' = down
      /\ uploader'.name = uploader.name
  BY DEF Moves
<1>4. Due' = 1 /\ Due = 1
  <2>1. uploader.part = 1
    BY <1>1 DEF SentInv
  <2> QED BY <1>1, <2>1, DueNow DEF Due, DueAt
<1>5. GotInv'
  BY <1>1, <1>4, MoveGotInv
<1>6. Way(socket)' = Way(socket) /\ Data(socket)' = Data(socket)
  BY <1>3 DEF Way, Data, Moves
<1>7. LiveInv'
  BY <1>1, <1>2, <1>3, <1>4, <1>6 DEF LiveInv
<1>8. LeftInv'
  <2>1. \A n : UnderWay(n) => UnderWay(n)'
    BY <1>3, <1>6 DEF UnderWay
  <2> QED BY <1>1, <1>2, <1>3, <1>6, <2>1 DEF LeftInv
<1>9. TokenInv'
  <2> SUFFICES ASSUME gaveUp = {} PROVE TokenInv'
    BY DEF TokenInv
  <2>1. /\ \A s \in Socket : \A m \in Data(s) : m.kind # "file"
        /\ \A s \in Socket : \A i \in DOMAIN down[s] : ~Accepts(s, i)
    BY <1>1 DEF TokenInv
  <2> QED BY <1>2, <1>3, <2>1 DEF TokenInv, Accepts
<1>10. PathInv'
  BY <1>1, <1>2, <1>3 DEF PathInv
<1> QED BY <1>1, <1>2, <1>5, <1>7, <1>8, <1>9, <1>10 DEF UploadInv, CoreInv

LEMMA GiveUpKeeps ==
  ASSUME UploadInv, UploadTypeOK', Moves, uploader.pc = "wait", uploader'.pc = "report",
         gaveUp' # {}, ~uploader'.acknowledged
  PROVE  UploadInv'
<1>1. /\ UploadTypeOK /\ FreshInv
      /\ RanksInv /\ SentInv /\ LiveInv /\ FinishInv /\ GotInv /\ LeftInv /\ NamelessInv
      /\ StoredInv
  BY DEF UploadInv, CoreInv
<1>2. /\ FreshInv' /\ RanksInv' /\ SentInv' /\ FinishInv' /\ NamelessInv' /\ StoredInv'
      /\ \A s : Way(s)' = Way(s) /\ Data(s)' = Data(s)
      /\ \A n : ReceiverOf(n)' = ReceiverOf(n)
      /\ Live' = Live /\ ServerHears' = ServerHears
  BY <1>1, MoveKeeps
<1>3. /\ socket' = socket /\ route' = route /\ visits' = visits /\ file' = file /\ down' = down
      /\ uploader'.name = uploader.name
  BY DEF Moves
<1>4. Due = 1
  BY <1>1, DueNow
<1>5. GotInv'
  BY <1>1, MoveGotInv
<1>6. Way(socket)' = Way(socket) /\ Data(socket)' = Data(socket)
  BY <1>3 DEF Way, Data, Moves
<1>7. ASSUME Live, NEW m \in Way(socket), m.kind = "part" PROVE FALSE
  <2>1. socket \in Socket
    BY <1>7 DEF Live, Usable
  <2>2. Past(About(m), DocumentRank(m)) /\ About(m) = visits
    BY <1>1, <1>7, <2>1 DEF SentInv, LiveInv
  <2>3. DocumentRank(m) \in Nat /\ 1 <= DocumentRank(m)
    BY <1>1, <1>7, <2>1, Ways, Documents
  <2>4. visits \in Nat
    <3>1. visits \in {0} \cup Visit
      BY <1>1 DEF UploadTypeOK
    <3> QED BY <3>1, NumbersOfUploads
  <2> QED BY <1>4, <2>2, <2>3, <2>4 DEF Past
<1>8. LiveInv'
  <2>1. Live => \A m \in Way(socket) : About(m) = visits /\ m.name = uploader.name /\ m.kind # "part"
    BY <1>1, <1>7 DEF LiveInv
  <2> QED BY <1>2, <1>3, <1>6, <2>1 DEF LiveInv
<1>9. LeftInv'
  <2> SUFFICES ASSUME Live, socket = route PROVE LeftInv'
    BY <1>2, <1>3 DEF LeftInv
  <2>1. ASSUME NEW n \in Archive, ReceiverOf(n) \in FileName
        PROVE  file[ReceiverOf(n)] = <<>> \/ UnderWay(n)'
    <3>1. CASE ~UnderWay(n)
      BY <1>1, <2>1, <3>1 DEF LeftInv
    <3>2. CASE UnderWay(n) /\ Data(socket) # {}
      BY <1>3, <1>6, <3>2 DEF UnderWay
    <3>3. CASE UnderWay(n) /\ Data(socket) = {}
      <4>1. n = uploader.name /\ ServerHears
        BY <1>1, <3>3 DEF UnderWay, ServerHears, Live, Usable, UploadTypeOK, Socket
      <4>2. Got(file[ReceiverOf(n)], visits, 1)
        BY <1>1, <1>4, <2>1, <3>3, <4>1 DEF GotInv
      <4>3. Lists(file[ReceiverOf(n)], visits, 1)
        BY <4>2 DEF Got
      <4>4. file[ReceiverOf(n)] \in Seq(Chunk)
        BY <1>1, <2>1 DEF UploadTypeOK
      <4> QED BY <4>3, <4>4, EmptyLists
    <3> QED BY <3>1, <3>2, <3>3
  <2>2. \A n \in Archive : ReceiverOf(n) \in FileName =>
          /\ ReceiverOf(n) \in Visit => ReceiverOf(n) <= visits
          /\ \A k \in Archive : ReceiverOf(k) = ReceiverOf(n) => k = n
          /\ (\E m \in Data(socket) : m.kind = "file") => ReceiverOf(n) # visits
    BY <1>1 DEF LeftInv
  <2> QED BY <1>2, <1>3, <1>6, <2>1, <2>2 DEF LeftInv
<1>10. TokenInv' /\ PathInv'
  BY DEF TokenInv, PathInv
<1> QED BY <1>1, <1>2, <1>5, <1>8, <1>9, <1>10 DEF UploadInv, CoreInv

LEMMA EndVisitKeeps ==
  ASSUME UploadInv, NEW name \in Archive, EndVisit(name)
  PROVE  UploadInv'
<1>1. /\ UploadTypeOK /\ FreshInv /\ TokenInv
      /\ RanksInv /\ SentInv /\ LiveInv /\ FinishInv /\ GotInv /\ LeftInv /\ NamelessInv
      /\ StoredInv /\ PathInv
  BY DEF UploadInv, CoreInv
<1>2. UploadTypeOK'
  BY <1>1, TypeOfVisitor
<1>3. /\ uploader.pc = "idle" /\ visiting = 0 /\ Live /\ route = socket /\ socket \in Socket
      /\ visits' = visits + 1 /\ visiting' = visits + 1
      /\ uploader'.pc = "request" /\ uploader'.part = 1 /\ ~uploader'.acknowledged
      /\ UNCHANGED <<connected, socket, sockets, up, down, broken, closed, controller, route, file,
                     stored, gaveUp, spoilt>>
  BY <1>1 DEF EndVisit, At, Live, Usable, UploadTypeOK
<1>4. visits \in Nat /\ 0 \notin Socket
  <2>1. visits \in {0} \cup Visit
    BY <1>1 DEF UploadTypeOK
  <2> QED BY <2>1, NumbersOfUploads
<1>5. ServerHears /\ ServerHears' /\ Live'
  BY <1>3, <1>4 DEF ServerHears, Live, Usable
<1>6. /\ \A s : Way(s)' = Way(s) /\ Data(s)' = Data(s)
      /\ \A n : ReceiverOf(n)' = ReceiverOf(n)
  BY <1>3 DEF Way, Data, ReceiverOf
<1>7. \A s \in Socket : \A m \in Way(s) : m.kind # "finish"
  BY <1>1, <1>3 DEF FinishInv
<1>8. Way(socket) = {} /\ Data(socket) = {} /\ Data(route) = {}
  <2>1. Way(socket) = {}
    BY <1>1, <1>3, <1>7 DEF LiveInv
  <2> QED BY <1>3, <2>1 DEF Way, Data, Payload
<1>9. Way(socket)' = {} /\ Data(socket)' = {} /\ Data(route)' = {}
  BY <1>3, <1>8 DEF Way, Data
<1>10. \A v \in Visit : \A r \in Nat : Past(v, r) => Past(v, r)'
  BY <1>1, <1>2, <1>3, PastGrows
<1>11. FreshInv'
  BY <1>1, <1>3 DEF FreshInv
<1>12. RanksInv'
  BY <1>1, <1>3, <1>6 DEF RanksInv
<1>13. SentInv'
  <2>1. ASSUME NEW s \in Socket, NEW m \in Way(s) PROVE Past(About(m), DocumentRank(m))'
    <3>1. Past(About(m), DocumentRank(m))
      BY <1>1 DEF SentInv
    <3>2. About(m) \in Visit /\ DocumentRank(m) \in Nat
      BY <1>1, Ways, Documents
    <3> QED BY <1>10, <3>1, <3>2
  <2>2. ASSUME NEW c \in spoilt PROVE Past(c.visit, c.part)'
    <3>1. Past(c.visit, c.part)
      BY <1>1 DEF SentInv
    <3>2. c \in Chunk
      BY <1>1 DEF UploadTypeOK
    <3>3. c.visit \in Visit /\ c.part \in 1 .. Parts
      BY <3>2 DEF Chunk
    <3> QED BY <1>10, <3>1, <3>3
  <2>3. \A s, t \in Socket : \A m \in Way(s), l \in Way(t) :
          About(m) = About(l) /\ DocumentRank(m) = DocumentRank(l) => s = t
    BY <1>1 DEF SentInv
  <2>4. \A c \in spoilt : \A s \in Socket : \A m \in Data(s) :
          ~(About(m) = c.visit /\ DocumentRank(m) = c.part)
    BY <1>1 DEF SentInv
  <2> QED BY <1>3, <1>6, <2>1, <2>2, <2>3, <2>4 DEF SentInv
<1>14. LiveInv'
  BY <1>3, <1>9 DEF LiveInv
<1>15. FinishInv'
  BY <1>3, <1>4, <1>6, <1>7 DEF FinishInv
<1>16. GotInv'
  BY <1>3, <1>9 DEF GotInv
<1>17. \A n \in Archive : ReceiverOf(n) \in FileName =>
         /\ file[ReceiverOf(n)] = <<>>
         /\ ReceiverOf(n) \in Visit => ReceiverOf(n) <= visits
         /\ \A k \in Archive : ReceiverOf(k) = ReceiverOf(n) => k = n
  BY <1>1, <1>3, <1>8 DEF LeftInv, UnderWay
<1>18. LeftInv'
  <2>1. ASSUME NEW n \in Archive, ReceiverOf(n) \in FileName
        PROVE  (ReceiverOf(n) \in Visit => ReceiverOf(n) <= visits + 1) /\ ReceiverOf(n) # visits + 1
    <3>1. visits + 1 \in Visit
      BY <1>2, <1>3, <1>4 DEF UploadTypeOK
    <3>2. CASE ReceiverOf(n) \in Visit
      BY <1>4, <1>17, <2>1, <3>2, NumbersOfUploads
    <3>3. CASE ReceiverOf(n) \notin Visit
      BY <3>1, <3>3
    <3> QED BY <3>2, <3>3
  <2> QED BY <1>3, <1>6, <1>17, <2>1 DEF LeftInv
<1>19. NamelessInv'
  BY <1>3, <1>4 DEF NamelessInv
<1>20. StoredInv'
  <2> SUFFICES ASSUME NEW f \in stored
               PROVE  \E v \in Visit :
                        /\ Lists(f.content, v, Parts + 1)' /\ (f.path = v \/ gaveUp # {})
                        /\ Past(v, Parts + 1)'
                        /\ \A s \in Socket : \A l \in Data(s) : l.kind = "part" => About(l) # v
    BY <1>3, <1>6 DEF StoredInv
  <2>1. PICK v \in Visit :
          /\ Lists(f.content, v, Parts + 1) /\ (f.path = v \/ gaveUp # {})
          /\ Past(v, Parts + 1)
          /\ \A s \in Socket : \A l \in Data(s) : l.kind = "part" => About(l) # v
    BY <1>1 DEF StoredInv
  <2>2. Lists(f.content, v, Parts + 1)'
    BY <1>3, <2>1 DEF Lists
  <2>3. Parts + 1 \in Nat
    BY NumbersOfUploads
  <2> QED BY <1>10, <2>1, <2>2, <2>3
<1>21. TokenInv'
  <2> SUFFICES ASSUME gaveUp = {} PROVE TokenInv'
    BY <1>3 DEF TokenInv
  <2>1. /\ \A s \in Socket : \A m \in Data(s) : m.kind # "file"
        /\ \A s \in Socket : \A i \in DOMAIN down[s] : ~Accepts(s, i)
    BY <1>1, <1>3 DEF TokenInv
  <2> QED BY <1>3, <1>6, <2>1 DEF TokenInv, Accepts
<1>22. PathInv'
  <2>1. gaveUp = {} => \A n \in Archive : ReceiverOf(n) \notin FileName
    BY <1>1, <1>3, <1>5, <1>8 DEF PathInv
  <2> QED BY <1>3, <1>6, <2>1 DEF PathInv
<1> QED BY <1>2, <1>3, <1>11, <1>12, <1>13, <1>14, <1>15, <1>16, <1>18, <1>19, <1>20, <1>21, <1>22
        DEF UploadInv, CoreInv

(***************************************************************************)
(* What sendMessage does.                                                  *)
(***************************************************************************)
LEMMA SendsKeeps ==
  ASSUME UploadInv, UploadTypeOK', visits # 0, NEW m \in Upward, NEW next \in UploaderType, Sends(m, next),
         ClientRest, gaveUp' = gaveUp,
         m.kind # "reconnect", DocumentRank(m) = Due, About(m) = visits, m.name = uploader.name,
         next.name = uploader.name, DueAt(next.pc, next.part) = Due + 1,
         next.accepted = uploader.accepted, next.acknowledged = uploader.acknowledged,
         \/ /\ uploader.pc = "request" /\ m.kind = "file" /\ next.pc = "wait"
            /\ next.part = uploader.part
         \/ uploader.pc = "part" /\ m.kind = "part" /\ next.pc \in {"part", "end"}
         \/ uploader.pc = "end" /\ m.kind = "finished" /\ next.pc = "report"
         \/ uploader.pc = "report" /\ m.kind = "finish" /\ next.pc = "idle"
  PROVE  UploadInv'
<1>1. UploadTypeOK /\ SentInv
  BY DEF UploadInv, CoreInv
<1>2. UNCHANGED <<connected, socket, sockets, broken, closed, controller, route, visiting, visits,
                  file, stored, spoilt, gaveUp, down>>
  BY DEF ClientRest, serverSide
<1>3. /\ uploader'.pc = next.pc /\ uploader'.name = next.name /\ uploader'.part = next.part
      /\ uploader'.accepted = next.accepted /\ uploader'.acknowledged = next.acknowledged
      /\ \/ Live /\ up' = [up EXCEPT ![socket] = Append(up[socket], m)]
         \/ ~Live /\ up' = up
  <2>1. ASSUME NEW failed
        PROVE  LET u == [next EXCEPT !.failed = failed] IN
               /\ u.pc = next.pc /\ u.name = next.name /\ u.part = next.part
               /\ u.accepted = next.accepted /\ u.acknowledged = next.acknowledged
    BY DEF UploaderType
  <2>2. CASE ~connected /\ uploader' = next /\ up' = up
    BY <2>2 DEF Live
  <2>3. CASE connected /\ Usable(socket) /\ uploader' = next
             /\ up' = [up EXCEPT ![socket] = Append(up[socket], m)]
    BY <2>3 DEF Live
  <2>4. CASE ~Usable(socket) /\ up' = up /\ \E failed : uploader' = [next EXCEPT !.failed = failed]
    BY <2>1, <2>4 DEF Live
  <2> QED BY <2>2, <2>3, <2>4 DEF Sends
<1>4. Due' = Due + 1 /\ Due \in Nat
  BY <1>1, <1>3, DueNow DEF Due
<1>5. CASE Live /\ up' = [up EXCEPT ![socket] = Append(up[socket], m)]
  <2>1. SendsNow(m)
    BY <1>2, <1>3, <1>4, <1>5 DEF SendsNow
  <2> QED BY <2>1, UploadsSendKeeps
<1>6. CASE ~Live /\ up' = up
  <2>1. Moves
    <3>1. Due' >= Due
      BY <1>4
    <3>2. uploader.pc # "idle" /\ uploader'.pc # "request"
          /\ (uploader'.pc = "wait" => uploader.pc = "request" /\ uploader'.part = uploader.part)
      BY <1>3
    <3>3. uploader'.pc \in {"request", "wait"} => uploader'.part = 1
      BY <1>1, <3>2 DEF SentInv
    <3> QED BY <1>2, <1>3, <1>6, <3>1, <3>2, <3>3 DEF Moves
  <2>2. uploader.pc # "wait"
    OBVIOUS
  <2> QED BY <1>2, <1>3, <1>6, <2>1, <2>2, LostKeeps
<1> QED BY <1>3, <1>5, <1>6

LEMMA UploadsVisitorKeeps ==
  ASSUME UploadInv, RequestFile \/ AwaitAcceptance \/ SendFilePart \/ FinishFile \/ ReportVisit
  PROVE  UploadInv'
<1>1. UploadTypeOK /\ FinishInv /\ SentInv /\ (uploader.acknowledged => uploader.accepted)
  BY DEF UploadInv, CoreInv
<1>2. UploadTypeOK'
  BY <1>1, TypeOfVisitor
<1>3. uploader \in UploaderType
  BY <1>1 DEF UploadTypeOK, UploaderType
<1>4. uploader.pc # "idle" => visits # 0
  BY <1>1 DEF FinishInv
<1>5. \A pc \in {"idle", "request", "wait", "part", "end", "report"} :
        LET u == [uploader EXCEPT !.pc = pc] IN
        /\ u \in UploaderType /\ u.pc = pc /\ u.part = uploader.part /\ u.name = uploader.name
        /\ u.accepted = uploader.accepted /\ u.acknowledged = uploader.acknowledged
  BY <1>3 DEF UploaderType
<1>6. /\ Due \in Nat /\ Parts \in Nat /\ uploader.part \in 1 .. Parts
      /\ uploader.pc = "request" => Due = 0
      /\ uploader.pc = "part" => Due = uploader.part
      /\ uploader.pc = "end" => Due = Parts + 1
      /\ uploader.pc = "report" => Due = Parts + 2
  BY <1>1, <1>3, DueNow DEF UploaderType
<1>7. CASE RequestFile
  <2>1. uploader.pc = "request" /\ visits # 0 /\ ClientRest /\ gaveUp' = gaveUp
    BY <1>4, <1>7 DEF RequestFile, At
  <2>2. CASE Sends(Message("file"), [uploader EXCEPT !.pc = "wait"])
    <3> PICK m, next : m = Message("file") /\ next = [uploader EXCEPT !.pc = "wait"]
      OBVIOUS
    <3>1. /\ m \in Upward /\ m.kind = "file" /\ m.name = uploader.name /\ About(m) = visits
          /\ DocumentRank(m) = 0
      BY <1>1, <2>1, MessageIs, RankOfMessage
    <3>2. /\ next \in UploaderType /\ next.pc = "wait" /\ next.part = uploader.part
          /\ next.name = uploader.name
          /\ next.accepted = uploader.accepted /\ next.acknowledged = uploader.acknowledged
      BY <1>5
    <3>3. Sends(m, next)
      BY <2>2
    <3>4. DueAt(next.pc, next.part) = Due + 1 /\ DocumentRank(m) = Due /\ m.kind # "reconnect"
      BY <1>6, <2>1, <3>1, <3>2 DEF DueAt
    <3> QED BY <1>2, <2>1, <3>1, <3>2, <3>3, <3>4, SendsKeeps
  <2>3. CASE uploader' = [uploader EXCEPT !.pc = "report"] /\ up' = up
    <3>1. /\ uploader'.pc = "report" /\ uploader'.name = uploader.name
          /\ uploader'.accepted = uploader.accepted /\ uploader'.acknowledged = uploader.acknowledged
      BY <1>5, <2>3
    <3>2. Due' >= Due
      <4>1. Due' = Parts + 2 /\ Due = 0
        BY <1>6, <2>1, <3>1 DEF Due, DueAt
      <4> QED BY <1>6, <4>1
    <3>3. Moves
      BY <2>1, <2>3, <3>1, <3>2 DEF Moves, ClientRest, serverSide
    <3> QED BY <1>2, <2>1, <3>1, <3>3, SkipKeeps
  <2> QED BY <1>7, <2>2, <2>3 DEF RequestFile
<1>8. CASE AwaitAcceptance
  <2>1. uploader.pc = "wait" /\ up' = up /\ ClientRest
    BY <1>8 DEF AwaitAcceptance, At
  <2>2. CASE /\ uploader.acknowledged /\ gaveUp' = gaveUp
             /\ uploader' = [uploader EXCEPT !.acknowledged = FALSE,
                               !.pc = IF uploader.accepted THEN "part" ELSE "report"]
    <3>1. uploader' = [uploader EXCEPT !.acknowledged = FALSE, !.pc = "part"]
      BY <1>1, <2>2
    <3>2. /\ uploader'.pc = "part" /\ uploader'.name = uploader.name /\ uploader'.part = uploader.part
          /\ ~uploader'.acknowledged
      BY <1>3, <3>1 DEF UploaderType
    <3>3. Due' >= Due
      <4>1. uploader.part = 1
        BY <1>1, <2>1 DEF SentInv
      <4> QED BY <2>1, <3>2, <4>1 DEF Due, DueAt
    <3>4. Moves
      BY <2>1, <2>2, <3>2, <3>3 DEF Moves, ClientRest, serverSide
    <3> QED BY <1>2, <2>1, <2>2, <3>2, <3>4, AcceptedKeeps
  <2>3. CASE /\ ~uploader.acknowledged /\ gaveUp' = gaveUp \cup {uploader.name}
             /\ uploader' = [uploader EXCEPT !.pc = "report"]
    <3>1. /\ uploader'.pc = "report" /\ uploader'.name = uploader.name /\ ~uploader'.acknowledged
      BY <1>5, <2>3
    <3>2. Due' >= Due
      <4>1. Due' = Parts + 2 /\ Due = 1
        BY <1>1, <2>1, <3>1, DueNow DEF Due, DueAt
      <4> QED BY <1>6, <4>1
    <3>3. Moves
      BY <2>1, <2>3, <3>1, <3>2 DEF Moves, ClientRest, serverSide
    <3>4. gaveUp' # {}
      BY <2>3
    <3> QED BY <1>2, <2>1, <3>1, <3>3, <3>4, GiveUpKeeps
  <2> QED BY <1>8, <2>2, <2>3 DEF AwaitAcceptance
<1>9. CASE SendFilePart
  <2> DEFINE c == [visit |-> visits, part |-> uploader.part]
  <2>1. uploader.pc = "part" /\ visits # 0 /\ ClientRest /\ gaveUp' = gaveUp
    BY <1>4, <1>9 DEF SendFilePart, At
  <2> PICK m : m = [kind |-> "part", name |-> uploader.name, chunk |-> c]
    OBVIOUS
  <2> PICK pc : pc = IF uploader.part = Parts THEN "end" ELSE "part"
    OBVIOUS
  <2> PICK part : part = IF uploader.part = Parts THEN 1 ELSE uploader.part + 1
    OBVIOUS
  <2> PICK next : next = [uploader EXCEPT !.pc = pc, !.part = part]
    OBVIOUS
  <2>2. /\ m \in Upward /\ m.kind = "part" /\ m.name = uploader.name /\ About(m) = visits
        /\ DocumentRank(m) = uploader.part
    BY <1>1, <2>1, PartIs
  <2>3. pc \in {"part", "end"} /\ part \in 1 .. Parts
    BY <1>6
  <2>4. /\ next \in UploaderType /\ next.pc = pc /\ next.part = part
        /\ next.name = uploader.name
        /\ next.accepted = uploader.accepted /\ next.acknowledged = uploader.acknowledged
    BY <1>3, <2>3 DEF UploaderType
  <2>5. Sends(m, next)
    <3>1. next = [uploader EXCEPT
                    !.part = IF uploader.part = Parts THEN 1 ELSE uploader.part + 1,
                    !.pc = IF uploader.part = Parts THEN "end" ELSE "part"]
      BY <1>3 DEF UploaderType
    <3> QED BY <1>9, <3>1 DEF SendFilePart
  <2>6. DueAt(next.pc, next.part) = Due + 1
    BY <1>6, <2>1, <2>4 DEF DueAt
  <2> QED BY <1>2, <1>6, <2>1, <2>2, <2>3, <2>4, <2>5, <2>6, SendsKeeps
<1>10. CASE FinishFile
  <2>1. uploader.pc = "end" /\ visits # 0 /\ ClientRest /\ gaveUp' = gaveUp
    BY <1>4, <1>10 DEF FinishFile, At
  <2> PICK m, next : m = Message("finished") /\ next = [uploader EXCEPT !.pc = "report"]
    OBVIOUS
  <2>2. /\ m \in Upward /\ m.kind = "finished" /\ m.name = uploader.name /\ About(m) = visits
        /\ DocumentRank(m) = Parts + 1
    BY <1>1, <2>1, MessageIs, RankOfMessage
  <2>3. /\ next \in UploaderType /\ next.pc = "report" /\ next.name = uploader.name
        /\ next.accepted = uploader.accepted /\ next.acknowledged = uploader.acknowledged
    BY <1>5
  <2>4. Sends(m, next)
    BY <1>10 DEF FinishFile
  <2>5. DueAt(next.pc, next.part) = Due + 1
    BY <1>6, <2>1, <2>3 DEF DueAt
  <2> QED BY <1>2, <1>6, <2>1, <2>2, <2>3, <2>4, <2>5, SendsKeeps
<1>11. CASE ReportVisit
  <2>1. uploader.pc = "report" /\ visits # 0 /\ ClientRest /\ gaveUp' = gaveUp
    BY <1>4, <1>11 DEF ReportVisit, At
  <2> PICK m, next : m = Message("finish") /\ next = [uploader EXCEPT !.pc = "idle"]
    OBVIOUS
  <2>2. /\ m \in Upward /\ m.kind = "finish" /\ m.name = uploader.name /\ About(m) = visits
        /\ DocumentRank(m) = Parts + 2
    BY <1>1, <2>1, MessageIs, RankOfMessage
  <2>3. /\ next \in UploaderType /\ next.pc = "idle" /\ next.name = uploader.name
        /\ next.accepted = uploader.accepted /\ next.acknowledged = uploader.acknowledged
    BY <1>5
  <2>4. Sends(m, next)
    BY <1>11 DEF ReportVisit
  <2>5. DueAt(next.pc, next.part) = Due + 1
    BY <1>6, <2>1, <2>3 DEF DueAt
  <2> QED BY <1>2, <1>6, <2>1, <2>2, <2>3, <2>4, <2>5, SendsKeeps
<1> QED BY <1>7, <1>8, <1>9, <1>10, <1>11

(***************************************************************************)
(* A controller reads a document: the first of those under way, which has  *)
(* the least rank.                                                         *)
(***************************************************************************)
LEMMA ReadWay ==
  ASSUME UploadTypeOK, RanksInv, NEW s \in Socket, Reads(s), NEW h, h = First(s)
  PROVE  /\ \A t \in Socket : t # s => up'[t] = up[t]
         /\ up'[s] \in Seq(Upward) /\ Ascending(up'[s]) /\ h \in Upward
         /\ h.kind = "reconnect" => Uploads(up'[s]) = Uploads(up[s])
         /\ h.kind # "reconnect" =>
              /\ h \in Uploads(up[s]) /\ Uploads(up'[s]) = Uploads(up[s]) \ {h}
              /\ Payload(up'[s]) = Payload(up[s]) \ {h}
              /\ \A l \in Uploads(up'[s]) : DocumentRank(h) < DocumentRank(l)
         /\ \A t \in Socket : /\ Uploads(up'[t]) \subseteq Uploads(up[t])
                              /\ Payload(up'[t]) \subseteq Payload(up[t])
         /\ s \notin closed
<1>1. /\ up[s] \in Seq(Upward) /\ up[s] # <<>> /\ h \in Upward /\ up'[s] = Tail(up[s])
      /\ \A t \in Socket : t # s => up'[t] = up[t]
      /\ s \notin closed
  BY ReadIs
<1> PICK p, q : p = up[s] /\ q = up'[s]
  OBVIOUS
<1>2. Ascending(p)
  BY DEF RanksInv
<1>3. /\ q \in Seq(Upward) /\ Ascending(q)
      /\ h.kind = "reconnect" => Uploads(q) = Uploads(p)
      /\ h.kind # "reconnect" =>
           /\ h \in Uploads(p) /\ Uploads(q) = Uploads(p) \ {h}
           /\ \A l \in Uploads(q) : DocumentRank(h) < DocumentRank(l)
  <2>1. h = Head(p) /\ q = Tail(p) /\ p \in Seq(Upward) /\ p # <<>>
    BY <1>1 DEF First
  <2> QED BY <1>2, <2>1, UploadsAfterTail
<1>4. /\ h.kind # "reconnect" => Payload(q) = Payload(p) \ {h}
      /\ Uploads(q) \subseteq Uploads(p) /\ Payload(q) \subseteq Payload(p)
  BY <1>3 DEF Payload
<1>5. \A t \in Socket : /\ Uploads(up'[t]) \subseteq Uploads(up[t])
                        /\ Payload(up'[t]) \subseteq Payload(up[t])
  <2> SUFFICES ASSUME NEW t \in Socket
               PROVE  Uploads(up'[t]) \subseteq Uploads(up[t]) /\ Payload(up'[t]) \subseteq Payload(up[t])
    OBVIOUS
  <2>1. CASE t = s
    BY <1>4, <2>1
  <2>2. CASE t # s
    BY <1>1, <2>2
  <2> QED BY <2>1, <2>2
<1> QED BY <1>1, <1>3, <1>4, <1>5

\* A part may be spoilt.
SpoilsAtMost(h) == spoilt' = spoilt \/ (h.kind = "part" /\ spoilt' = spoilt \cup {h.chunk})

LEMMA ReadOrder ==
  ASSUME UploadTypeOK, RanksInv, NEW s \in Socket, Reads(s)
  PROVE  RanksInv'
<1> PICK h : h = First(s)
  OBVIOUS
<1> SUFFICES ASSUME NEW t \in Socket
             PROVE  /\ Ascending(up'[t])
                    /\ \A m, l \in Uploads(up'[t]) :
                         /\ About(m) = About(l) /\ m.name = l.name
                         /\ \A r \in 0 .. Parts + 1 :
                              DocumentRank(m) < r /\ r < DocumentRank(l) /\ l.kind # "finish" =>
                                \E k \in Uploads(up'[t]) : DocumentRank(k) = r
  BY DEF RanksInv, Way
<1> PICK p, q : p = Uploads(up[t]) /\ q = Uploads(up'[t])
  OBVIOUS
<1>1. /\ Ascending(up[t])
      /\ \A m, l \in p :
           /\ About(m) = About(l) /\ m.name = l.name
           /\ \A r \in 0 .. Parts + 1 :
                DocumentRank(m) < r /\ r < DocumentRank(l) /\ l.kind # "finish" => \E k \in p : DocumentRank(k) = r
  BY DEF RanksInv, Way
<1>2. Ascending(up'[t]) /\ (q = p \/ (q = p \ {h} /\ \A l \in q : DocumentRank(h) < DocumentRank(l)))
  <2>1. CASE t = s
    BY <2>1, ReadWay
  <2>2. CASE t # s
    BY <1>1, <2>2, ReadWay
  <2> QED BY <2>1, <2>2
<1>3. ASSUME NEW m \in q, NEW l \in q, NEW r \in 0 .. Parts + 1,
             DocumentRank(m) < r, r < DocumentRank(l), l.kind # "finish"
      PROVE  \E k \in q : DocumentRank(k) = r
  <2>1. m \in p /\ l \in p
    BY <1>2
  <2>2. PICK k \in p : DocumentRank(k) = r
    BY <1>1, <1>3, <2>1
  <2>3. CASE k = h /\ \A j \in q : DocumentRank(h) < DocumentRank(j)
    <3>1. DocumentRank(m) \in Nat
      BY <2>1, Ways, Documents
    <3>2. r < DocumentRank(m)
      BY <2>2, <2>3
    <3> QED BY <1>3, <3>1, <3>2
  <2>4. CASE k \in q
    BY <2>2, <2>4
  <2> QED BY <1>2, <2>3, <2>4
<1> QED BY <1>1, <1>2, <1>3

LEMMA ReadSent ==
  ASSUME UploadTypeOK, RanksInv, SentInv, NEW s \in Socket, Reads(s), ServerRest,
         NEW h, h = First(s), SpoilsAtMost(h)
  PROVE  SentInv'
<1>1. uploader' = uploader /\ Due' = Due /\ visits' = visits
  BY DEF ServerRest, Due
<1>2. \A v, r : Past(v, r)' = Past(v, r)
  BY <1>1 DEF Past
<1>3. \A t \in Socket : Uploads(up'[t]) \subseteq Uploads(up[t]) /\ Payload(up'[t]) \subseteq Payload(up[t])
  BY ReadWay
<1>4. \A t \in Socket : \A m \in Way(t)' : Past(About(m), DocumentRank(m))'
  BY <1>2, <1>3 DEF SentInv, Way
<1>5. \A t, u \in Socket : \A m \in Way(t)', l \in Way(u)' :
        About(m) = About(l) /\ DocumentRank(m) = DocumentRank(l) => t = u
  BY <1>3 DEF SentInv, Way
<1>6. ASSUME NEW c \in spoilt
      PROVE  /\ Past(c.visit, c.part)'
             /\ \A t \in Socket : \A m \in Data(t)' : ~(About(m) = c.visit /\ DocumentRank(m) = c.part)
  BY <1>2, <1>3 DEF SentInv, Data
<1>7. ASSUME h.kind = "part", NEW c, c = h.chunk
      PROVE  /\ Past(c.visit, c.part)'
             /\ \A t \in Socket : \A m \in Data(t)' : ~(About(m) = c.visit /\ DocumentRank(m) = c.part)
  <2>1. /\ h \in Uploads(up[s]) /\ c.visit = About(h) /\ c.part = DocumentRank(h)
        /\ \A l \in Uploads(up'[s]) : DocumentRank(h) < DocumentRank(l)
        /\ DocumentRank(h) \in Nat
    <3>1. h \in Uploads(up[s]) /\ \A l \in Uploads(up'[s]) : DocumentRank(h) < DocumentRank(l)
      BY <1>7, ReadWay
    <3> QED BY <1>7, <3>1, Ways, Documents DEF About, DocumentRank
  <2>2. Past(c.visit, c.part)
    BY <2>1 DEF SentInv, Way
  <2>3. ASSUME NEW t \in Socket, NEW m \in Payload(up'[t]), About(m) = c.visit, DocumentRank(m) = c.part
        PROVE  FALSE
    <3>1. m \in Uploads(up'[t]) /\ m \in Uploads(up[t])
      BY <1>3 DEF Payload
    <3>2. t = s
      BY <2>1, <2>3, <3>1 DEF SentInv, Way
    <3>3. DocumentRank(h) < DocumentRank(m)
      BY <2>1, <3>1, <3>2
    <3> QED BY <2>1, <2>3, <3>3
  <2> QED BY <1>2, <2>2, <2>3 DEF Data
<1>8. \A c \in spoilt' : /\ Past(c.visit, c.part)'
                         /\ \A t \in Socket : \A m \in Data(t)' : ~(About(m) = c.visit /\ DocumentRank(m) = c.part)
  BY <1>6, <1>7 DEF SpoilsAtMost
<1>9. uploader'.pc \in {"request", "wait"} => uploader'.part = 1
  BY <1>1 DEF SentInv
<1> QED BY <1>4, <1>5, <1>8, <1>9 DEF SentInv

LEMMA ReadLive ==
  ASSUME UploadTypeOK, RanksInv, SentInv, LiveInv, NEW s \in Socket, Reads(s), ServerRest,
         closed \subseteq closed'
  PROVE  LiveInv'
<1> PICK h : h = First(s)
  OBVIOUS
<1> SUFFICES ASSUME Live' PROVE LiveInv'
  BY DEF LiveInv
<1>1. uploader' = uploader /\ Due' = Due /\ visits' = visits /\ socket' = socket /\ Live
      /\ socket \in Socket
  BY DEF ServerRest, Due, Live, Usable
<1> PICK p, q : p = Uploads(up[socket]) /\ q = Uploads(up'[socket])
  OBVIOUS
<1>2. Way(socket) = p /\ Way(socket)' = q
  BY <1>1 DEF Way
<1>3. q \subseteq p /\ (q = p \/ (q = p \ {h} /\ \A l \in q : DocumentRank(h) < DocumentRank(l)))
  <2>1. CASE socket = s
    BY <2>1, ReadWay
  <2>2. CASE socket # s
    BY <1>1, <2>2, ReadWay
  <2> QED BY <2>1, <2>2
<1>4. \A m \in p : /\ DocumentRank(m) \in Nat /\ DocumentRank(m) <= Parts + 2
                   /\ m.kind = "part" <=> 1 <= DocumentRank(m) /\ DocumentRank(m) <= Parts
                   /\ m.kind = "finished" <=> DocumentRank(m) = Parts + 1
                   /\ m.kind = "finish" <=> DocumentRank(m) = Parts + 2
  BY <1>1, Ways, Documents
<1>5. \A m \in p : DocumentRank(m) < Due
  <2>1. \A m \in p : About(m) = visits /\ Past(About(m), DocumentRank(m))
    BY <1>1, <1>2 DEF LiveInv, SentInv
  <2>2. visits \in Nat
    <3>1. visits \in {0} \cup Visit
      BY DEF UploadTypeOK
    <3> QED BY <3>1, NumbersOfUploads
  <2> QED BY <2>1, <2>2 DEF Past
<1>6. ASSUME NEW m \in p, NEW l \in q, DocumentRank(l) <= DocumentRank(m) PROVE m \in q
  <2>1. DocumentRank(m) \in Nat /\ DocumentRank(l) \in Nat
    BY <1>3, <1>4
  <2> QED BY <1>3, <1>6, <2>1
<1>7. /\ uploader.pc = "request" => q = {}
      /\ \A m \in q : About(m) = visits /\ m.name = uploader.name
  BY <1>1, <1>2, <1>3 DEF LiveInv
<1>8. ASSUME q # {}, uploader.pc \in {"wait", "part", "end"} PROVE \E m \in q : DocumentRank(m) = Due - 1
  <2>1. PICK m \in p : DocumentRank(m) = Due - 1
    BY <1>1, <1>2, <1>3, <1>8 DEF LiveInv
  <2>2. PICK l \in q : TRUE
    BY <1>8
  <2>3. DocumentRank(l) < Due /\ DocumentRank(l) \in Nat /\ Due \in Nat
    BY <1>3, <1>4, <1>5, DueNow
  <2>4. DocumentRank(l) <= DocumentRank(m)
    BY <2>1, <2>3
  <2> QED BY <1>6, <2>1, <2>4
<1>9. ASSUME q # {}, uploader.pc = "idle" PROVE \E m \in q : m.kind = "finish"
  <2>1. PICK m \in p : m.kind = "finish"
    BY <1>1, <1>2, <1>3, <1>9 DEF LiveInv
  <2>2. PICK l \in q : TRUE
    BY <1>9
  <2>3. DocumentRank(l) <= DocumentRank(m)
    BY <1>3, <1>4, <2>1
  <2> QED BY <1>6, <2>1, <2>3
<1>10. ASSUME uploader.pc \in {"report", "idle"}, NEW l \in q, l.kind = "part"
       PROVE  \E m \in q : m.kind = "finished"
  <2>1. PICK m \in p : m.kind = "finished"
    BY <1>1, <1>2, <1>3, <1>10 DEF LiveInv
  <2>2. DocumentRank(l) <= DocumentRank(m)
    <3>1. DocumentRank(l) \in Nat /\ DocumentRank(l) <= Parts /\ DocumentRank(m) = Parts + 1
      BY <1>3, <1>4, <1>10, <2>1
    <3>2. Parts \in Nat
      BY NumbersOfUploads
    <3> QED BY <3>1, <3>2
  <2> QED BY <1>6, <2>1, <2>2
<1> QED BY <1>1, <1>2, <1>7, <1>8, <1>9, <1>10 DEF LiveInv

LEMMA ReadFinish ==
  ASSUME UploadTypeOK, RanksInv, FinishInv, NEW s \in Socket, Reads(s), ServerRest,
         visiting' = visiting
  PROVE  FinishInv'
<1>1. uploader' = uploader /\ visits' = visits
  BY DEF ServerRest
<1>2. \A t \in Socket : \A m \in Way(t)' : m \in Way(t)
  BY ReadWay DEF Way
<1> QED BY <1>1, <1>2 DEF FinishInv

\* What a file has got does not depend on a part that comes later.
LEMMA SpoiltLists ==
  ASSUME UploadTypeOK, NEW s \in Socket, NEW h \in Data(s), NEW v, NEW p \in Nat,
         SpoilsAtMost(h), h.kind = "part" /\ About(h) = v => p <= DocumentRank(h),
         NEW c, Lists(c, v, p)
  PROVE  Lists(c, v, p)'
<1>1. CASE spoilt' = spoilt
  BY <1>1 DEF Lists
<1>2. CASE h.kind = "part" /\ spoilt' = spoilt \cup {h.chunk}
  <2>1. h.chunk.visit = About(h) /\ h.chunk.part = DocumentRank(h) /\ DocumentRank(h) \in Nat
    <3>1. h \in Uploads(up[s]) /\ up[s] \in Seq(Upward)
      BY Ways DEF Data, Payload
    <3> QED BY <1>2, <3>1, Documents DEF About, DocumentRank
  <2>2. h.chunk \notin [visit : {v}, part : 1 .. p - 1]
    <3> SUFFICES ASSUME h.chunk \in [visit : {v}, part : 1 .. p - 1] PROVE FALSE
      OBVIOUS
    <3>1. h.chunk.visit = v /\ h.chunk.part \in 1 .. p - 1
      OBVIOUS
    <3>2. p <= DocumentRank(h)
      BY <1>2, <2>1, <3>1
    <3> QED BY <2>1, <3>1, <3>2
  <2>3. [visit : {v}, part : 1 .. p - 1] \ spoilt' = [visit : {v}, part : 1 .. p - 1] \ spoilt
    BY <1>2, <2>2
  <2> QED BY <2>3 DEF Lists
<1> QED BY <1>1, <1>2 DEF SpoilsAtMost

LEMMA ReadGot ==
  ASSUME UploadTypeOK, RanksInv, NEW s \in Socket, Reads(s), NEW h, h = First(s), SpoilsAtMost(h),
         NEW c, NEW v, NEW r \in Nat, Got(c, v, r)
  PROVE  Got(c, v, r)'
<1>1. \A t \in Socket : \A m \in Data(t)' : m \in Data(t)
  BY ReadWay DEF Data
<1> PICK p \in Nat : p = IF r = 0 THEN 1 ELSE r
  OBVIOUS
<1>2. Lists(c, v, p)
  BY DEF Got
<1>3. CASE spoilt' = spoilt
  BY <1>1, <1>3 DEF Got, Lists
<1>4. CASE h.kind = "part"
  <2>1. h \in Data(s)
    BY <1>4, ReadWay DEF Data, Payload
  <2>2. About(h) = v => p <= DocumentRank(h)
    <3> SUFFICES ASSUME About(h) = v PROVE p <= DocumentRank(h)
      OBVIOUS
    <3>1. r <= DocumentRank(h)
      BY <1>4, <2>1 DEF Got
    <3>2. DocumentRank(h) \in Nat /\ 1 <= DocumentRank(h)
      BY <1>4, <2>1, Ways, Documents DEF Data, Payload
    <3> QED BY <3>1, <3>2
  <2>3. Lists(c, v, p)'
    BY <1>2, <2>1, <2>2, SpoiltLists
  <2> QED BY <1>1, <2>3 DEF Got
<1> QED BY <1>3, <1>4 DEF SpoilsAtMost

LEMMA ReadStored ==
  ASSUME UploadTypeOK, RanksInv, StoredInv, NEW s \in Socket, Reads(s), ServerRest,
         NEW h, h = First(s), SpoilsAtMost(h), stored' = stored
  PROVE  StoredInv'
<1>1. /\ uploader' = uploader /\ Due' = Due /\ visits' = visits /\ gaveUp' = gaveUp
  BY DEF ServerRest, Due
<1>2. \A v, r : Past(v, r)' = Past(v, r)
  BY <1>1 DEF Past
<1>3. \A t \in Socket : \A m \in Data(t)' : m \in Data(t)
  BY ReadWay DEF Data
<1> SUFFICES ASSUME NEW f \in stored
             PROVE  \E v \in Visit :
                      /\ Lists(f.content, v, Parts + 1)' /\ (f.path = v \/ gaveUp # {})
                      /\ Past(v, Parts + 1)
                      /\ \A t \in Socket : \A m \in Data(t)' : m.kind = "part" => About(m) # v
  BY <1>1, <1>2 DEF StoredInv
<1>4. PICK v \in Visit :
        /\ Lists(f.content, v, Parts + 1) /\ (f.path = v \/ gaveUp # {})
        /\ Past(v, Parts + 1)
        /\ \A t \in Socket : \A m \in Data(t) : m.kind = "part" => About(m) # v
  BY DEF StoredInv
<1>5. Lists(f.content, v, Parts + 1)'
  <2>1. CASE spoilt' = spoilt
    BY <1>4, <2>1 DEF Lists
  <2>2. CASE h.kind = "part"
    <3>1. h \in Data(s)
      BY <2>2, ReadWay DEF Data, Payload
    <3>2. Parts + 1 \in Nat
      BY NumbersOfUploads
    <3> QED BY <1>4, <2>2, <3>1, <3>2, SpoiltLists
  <2> QED BY <2>1, <2>2 DEF SpoilsAtMost
<1> QED BY <1>3, <1>4, <1>5

LEMMA ReadToken ==
  ASSUME UploadTypeOK, UploadTypeOK', RanksInv, TokenInv, NEW s \in Socket, Reads(s), ServerRest,
         down' = down
  PROVE  TokenInv'
<1> PICK d \in [Socket -> Nat] : d = [t \in Socket |-> 0]
  OBVIOUS
<1>1. ASSUME NEW t \in Socket, NEW i \in DOMAIN down'[t], AcceptAt(down'[t], i)
      PROVE  AcceptAt(down[t], i + d[t])
  <2>1. down[t] \in Seq(Greeting)
    BY DEF UploadTypeOK, Greeting
  <2>2. i \in Nat
    BY <2>1, LenProperties
  <2>3. i + d[t] = i
    BY <2>2
  <2> QED BY <1>1, <2>3
<1>2. \A t \in Socket : \A m \in Data(t)' : m \in Data(t)
  BY ReadWay DEF Data
<1>3. gaveUp' = gaveUp /\ uploader' = uploader /\ visits' = visits
  BY DEF ServerRest
<1> QED BY <1>1, <1>2, <1>3, TokenKept

\* Nothing is asked of a connection without a file.
LEMMA NoReceivers ==
  ASSUME UploadTypeOK', \A n \in Archive : ReceiverOf(n)' \notin FileName
  PROVE  GotInv' /\ LeftInv' /\ NamelessInv' /\ PathInv'
<1>1. uploader'.name \in Archive
  BY DEF UploadTypeOK
<1>2. ServerHears' => \A m \in Data(route)' : m.name \in Archive
  <2> SUFFICES ASSUME ServerHears', NEW m \in Data(route)' PROVE m.name \in Archive
    OBVIOUS
  <2>1. route' \in Socket
    BY DEF ServerHears, UploadTypeOK
  <2>2. up'[route'] \in Seq(Upward)
    BY <2>1 DEF UploadTypeOK
  <2>3. m \in Payload(up'[route'])
    BY DEF Data
  <2> QED BY <2>2, <2>3, Documents
<1>3. GotInv'
  BY <1>1, <1>2 DEF GotInv
<1>4. LeftInv' /\ NamelessInv' /\ PathInv'
  BY DEF LeftInv, NamelessInv, PathInv
<1> QED BY <1>3, <1>4

LEMMA ParseReconnectKeeps ==
  ASSUME UploadInv, NEW s \in Socket, ParseReconnect(s)
  PROVE  UploadInv'
<1>1. /\ UploadTypeOK /\ FreshInv /\ TokenInv /\ (uploader.acknowledged => uploader.accepted)
      /\ RanksInv /\ SentInv /\ LiveInv /\ FinishInv /\ StoredInv
  BY DEF UploadInv, CoreInv
<1>2. UploadTypeOK'
  BY <1>1, TypeOfServer DEF Controller
<1> PICK h : h = First(s)
  OBVIOUS
<1>3. /\ h.kind = "reconnect" /\ Reads(s)
      /\ \A t \in Socket : controller'[t].receiver = controller[t].receiver
      /\ \A t \in Socket : t # s => controller'[t].client = controller[t].client
      /\ \/ route # 0 /\ closed' = closed \cup {route} /\ route' = s /\ controller'[s].client
         \/ route = 0 /\ UNCHANGED <<closed, route, controller>>
      /\ UNCHANGED <<down, visiting, file, stored, spoilt>> /\ ServerRest
  BY <1>1, ReconnectIsRead
<1>4. /\ UNCHANGED <<connected, socket, sockets, uploader, broken, visits, gaveUp>>
      /\ closed \subseteq closed'
  BY <1>3 DEF ServerRest
<1>5. /\ \A t \in Socket : t # s => up'[t] = up[t]
      /\ up'[s] \in Seq(Upward) /\ Ascending(up'[s]) /\ Uploads(up'[s]) = Uploads(up[s])
      /\ s \notin closed /\ up[s] # <<>>
  <2>1. s \notin closed /\ up[s] # <<>>
    BY <1>3 DEF Reads
  <2> QED BY <1>1, <1>3, <2>1, ReadWay
<1>6. FreshInv'
  <2>1. \A t \in Socket :
          /\ t > sockets => up[t] = <<>> /\ t # route
          /\ t # route /\ t \notin closed => ~controller[t].client
          /\ ~controller[t].client => \A n \in Archive : controller[t].receiver[n] \notin FileName
    BY <1>1 DEF FreshInv
  <2>2. socket' <= sockets'
    BY <1>1, <1>4 DEF FreshInv
  <2>3. ~(s > sockets)
    BY <1>5, <2>1
  <2>4. ASSUME NEW t \in Socket
        PROVE  /\ t > sockets' => up'[t] = <<>> /\ t # route'
               /\ t # route' /\ t \notin closed' => ~controller'[t].client
               /\ ~controller'[t].client =>
                    \A n \in Archive : controller'[t].receiver[n] \notin FileName
    <3>1. t > sockets' => t # s /\ t > sockets
      BY <1>4, <2>3
    <3>2. t > sockets' => up'[t] = <<>> /\ t # route'
      BY <1>3, <1>5, <2>1, <3>1
    <3>3. t # route' /\ t \notin closed' => ~controller'[t].client
      BY <1>3, <2>1
    <3>4. ~controller'[t].client => \A n \in Archive : controller'[t].receiver[n] \notin FileName
      BY <1>3, <2>1
    <3> QED BY <3>2, <3>3, <3>4
  <2> QED BY <2>2, <2>4 DEF FreshInv
\* The client is not heard any more, or not yet.
<1>7. CASE route = 0 \/ s = route
  <2>1. Shrinks
    <3>1. ASSUME NEW t \in Socket
          PROVE  up'[t] \in Seq(Upward) /\ Ascending(up'[t]) /\ Uploads(up'[t]) = Uploads(up[t])
      BY <1>1, <1>5 DEF UploadTypeOK, RanksInv
    <3> QED BY <3>1 DEF Shrinks
  <2>2. SameUpload
    BY <1>3, <1>4 DEF SameUpload
  <2>3. Stays
    <3>1. Live' => Live /\ socket' = socket /\ Uploads(up'[socket]) = Uploads(up[socket])
      <4>1. Live' => Live /\ socket' = socket /\ socket \in Socket
        BY <1>4 DEF Live, Usable
      <4> QED BY <1>5, <4>1
    <3>2. ~ServerHears'
      BY <1>3, <1>7 DEF ServerHears
    <3> QED BY <3>1, <3>2 DEF Stays
  <2>4. \A t \in Socket : down'[t] = down[t]
    BY <1>3
  <2> PICK d \in [Socket -> Nat] : d = [t \in Socket |-> 0]
    OBVIOUS
  <2>5. ASSUME NEW t \in Socket, NEW i \in DOMAIN down'[t], AcceptAt(down'[t], i)
        PROVE  AcceptAt(down[t], i + d[t])
    <3>1. down[t] \in Seq(Greeting)
      BY <1>1 DEF UploadTypeOK, Greeting
    <3>2. i \in Nat
      BY <2>4, <3>1, LenProperties
    <3>3. i + d[t] = i
      BY <3>2
    <3> QED BY <2>4, <2>5, <3>3
  <2> QED BY <1>2, <1>4, <1>6, <2>1, <2>2, <2>3, <2>5, QuietKeeps
\* The connection it is heard on now has no receivers yet.
<1>8. CASE route # 0 /\ s # route
  <2>1. \A n \in Archive : controller[s].receiver[n] \notin FileName
    BY <1>1, <1>5, <1>8 DEF FreshInv
  <2>2. \A n \in Archive : ReceiverOf(n)' \notin FileName
    BY <1>3, <1>8, <2>1 DEF ReceiverOf
  <2>3. GotInv' /\ LeftInv' /\ NamelessInv' /\ PathInv'
    BY <1>2, <2>2, NoReceivers
  <2>4. SpoilsAtMost(h)
    BY <1>3 DEF SpoilsAtMost
  <2>5. RanksInv' /\ SentInv' /\ LiveInv'
    BY <1>1, <1>3, <1>4, <2>4, ReadOrder, ReadSent, ReadLive
  <2>6. FinishInv' /\ StoredInv'
    BY <1>1, <1>3, <2>4, ReadFinish, ReadStored
  <2>7. TokenInv'
    BY <1>1, <1>2, <1>3, ReadToken
  <2>8. uploader'.acknowledged => uploader'.accepted
    BY <1>1, <1>4
  <2> QED BY <1>2, <1>6, <2>3, <2>5, <2>6, <2>7, <2>8 DEF UploadInv, CoreInv
<1> QED BY <1>7, <1>8

(***************************************************************************)
(* A connection that is not the machine's, for the server: its client has  *)
(* not said who it is.                                                     *)
(***************************************************************************)
LEMMA ElsewhereIs ==
  ASSUME UploadTypeOK, FreshInv, NEW s \in Socket, s # route,
         ReceiveFile(s) \/ ReceiveFilePart(s) \/ ReceiveFileEnd(s) \/ ParseVisitEvent(s)
  PROVE  /\ Reads(s) /\ SpoilsAtMost(First(s)) /\ ServerRest
         /\ UNCHANGED <<closed, down, route, visiting, file, stored>>
         /\ \A t \in Socket : controller'[t].client = controller[t].client
         /\ \A t \in Socket : t # s => controller'[t].receiver = controller[t].receiver
         /\ \A n \in Archive : controller'[s].receiver[n] \notin FileName
<1> PICK h : h = First(s)
  BY Zenon
<1>1. Reads(s) /\ s \notin closed
  <2>1. Reads(s)
    BY Zenon DEF ReceiveFile, ReceiveFilePart, ReceiveFileEnd, ParseVisitEvent
  <2> QED BY <2>1 DEF Reads
<1>2. ~controller[s].client /\ \A n \in Archive : controller[s].receiver[n] \notin FileName
  BY <1>1 DEF FreshInv
<1>3. NoStream \notin FileName
  BY NumbersOfUploads
<1>4. CASE ReceiveFile(s)
  <2>1. /\ h.kind = "file" /\ h.name \in Archive
        /\ \A t \in Socket : controller'[t].client = controller[t].client
        /\ \A t \in Socket : t # s => controller'[t] = controller[t]
        /\ \A k \in Archive :
             k # h.name \/ controller[s].receiver[k] # NoReceiver =>
               controller'[s].receiver[k] = controller[s].receiver[k]
        /\ UNCHANGED <<file, down>>
        /\ controller[s].receiver[h.name] = NoReceiver => controller'[s].receiver[h.name] = NoStream
        /\ UNCHANGED <<closed, route, visiting, stored, spoilt>> /\ ServerRest
    BY <1>2, <1>4, FileIsRead
  <2>2. \A n \in Archive : controller'[s].receiver[n] \notin FileName
    BY <1>2, <1>3, <2>1
  <2> QED BY <1>1, <2>1, <2>2 DEF SpoilsAtMost
<1>5. CASE ReceiveFilePart(s)
  <2>1. /\ h.kind = "part" /\ h.name \in Archive
        /\ \A t \in Socket : /\ controller'[t].client = controller[t].client
                             /\ controller'[t].receiver = controller[t].receiver
        /\ UNCHANGED file /\ (spoilt' = spoilt \/ spoilt' = spoilt \cup {h.chunk})
        /\ UNCHANGED <<closed, down, route, visiting, stored>> /\ ServerRest
    BY <1>2, <1>5, PartIsRead
  <2> QED BY <1>1, <1>2, <2>1 DEF SpoilsAtMost
<1>6. CASE ReceiveFileEnd(s)
  <2>1. /\ h.name \in Archive
        /\ \A t \in Socket : controller'[t].client = controller[t].client
        /\ \A t \in Socket : t # s => controller'[t].receiver = controller[t].receiver
        /\ \A k \in Archive : k # h.name => controller'[s].receiver[k] = controller[s].receiver[k]
        /\ UNCHANGED stored /\ controller'[s].receiver[h.name] = controller[s].receiver[h.name]
        /\ UNCHANGED <<closed, down, route, visiting, file, spoilt>> /\ ServerRest
    BY <1>2, <1>6, EndIsRead
  <2> QED BY <1>1, <1>2, <2>1 DEF SpoilsAtMost
<1>7. CASE ParseVisitEvent(s)
  <2>1. visiting' = visiting /\ UNCHANGED <<closed, down, controller, route, file, stored, spoilt>>
        /\ ServerRest
    BY <1>2, <1>7 DEF ParseVisitEvent
  <2> QED BY <1>1, <1>2, <2>1 DEF SpoilsAtMost
<1> QED BY <1>4, <1>5, <1>6, <1>7

LEMMA ElsewhereKeeps ==
  ASSUME UploadInv, NEW s \in Socket, s # route,
         ReceiveFile(s) \/ ReceiveFilePart(s) \/ ReceiveFileEnd(s) \/ ParseVisitEvent(s)
  PROVE  UploadInv'
<1>1. /\ UploadTypeOK /\ FreshInv /\ TokenInv /\ (uploader.acknowledged => uploader.accepted)
      /\ RanksInv /\ SentInv /\ LiveInv /\ FinishInv /\ GotInv /\ LeftInv /\ NamelessInv
      /\ StoredInv /\ PathInv
  BY DEF UploadInv, CoreInv
<1>2. UploadTypeOK'
  BY <1>1, TypeOfServer DEF Controller
<1> PICK h : h = First(s)
  OBVIOUS
<1>3. /\ Reads(s) /\ SpoilsAtMost(h) /\ ServerRest
      /\ UNCHANGED <<closed, down, route, visiting, file, stored>>
      /\ \A t \in Socket : controller'[t].client = controller[t].client
      /\ \A t \in Socket : t # s => controller'[t].receiver = controller[t].receiver
      /\ \A n \in Archive : controller'[s].receiver[n] \notin FileName
  BY <1>1, ElsewhereIs
<1>4. UNCHANGED <<connected, socket, sockets, uploader, broken, visits, gaveUp>>
  BY <1>3 DEF ServerRest
<1>5. /\ \A t \in Socket : t # s => up'[t] = up[t]
      /\ up[s] # <<>>
  <2>1. up[s] # <<>>
    BY <1>3 DEF Reads
  <2> QED BY <1>1, <1>3, <2>1, ReadWay
<1>6. RanksInv' /\ SentInv' /\ LiveInv'
  BY <1>1, <1>3, ReadOrder, ReadSent, ReadLive
<1>7. FinishInv' /\ StoredInv' /\ TokenInv'
  BY <1>1, <1>2, <1>3, ReadFinish, ReadStored, ReadToken
<1>8. FreshInv'
  <2>1. \A t \in Socket : t > sockets => up'[t] = up[t]
    <3>1. ~(s > sockets)
      BY <1>1, <1>5 DEF FreshInv
    <3> QED BY <1>5, <3>1
  <2>2. sockets' \in Nat /\ sockets' >= sockets /\ socket' <= sockets'
    <3>1. sockets \in Nat
      BY <1>1, NumbersOfUploads DEF UploadTypeOK
    <3> QED BY <1>1, <1>4, <3>1 DEF FreshInv
  <2>3. ASSUME NEW t \in Socket
        PROVE  /\ controller'[t].client = controller[t].client
               /\ \A n \in Archive : controller'[t].receiver[n] \notin FileName
                                     \/ controller'[t].receiver[n] = controller[t].receiver[n]
    BY <1>3
  <2> QED BY <1>1, <1>3, <1>4, <2>1, <2>2, <2>3, FreshKept
\* What the machine's connection has is untouched.
<1>9. ServerHears' = ServerHears /\ Live' = Live /\ Due' = Due
  BY <1>3, <1>4 DEF ServerHears, Live, Usable, Due
<1>10. ASSUME route \in Socket
       PROVE  Data(route)' = Data(route) /\ \A n : ReceiverOf(n)' = ReceiverOf(n)
  <2>1. up'[route] = up[route] /\ controller'[route].receiver = controller[route].receiver
    BY <1>3, <1>5, <1>10
  <2> QED BY <1>3, <2>1 DEF Data, ReceiverOf
<1>11. GotInv'
  <2> SUFFICES ASSUME ServerHears PROVE GotInv'
    BY <1>9 DEF GotInv
  <2>1. route \in Socket
    BY <1>1 DEF ServerHears, UploadTypeOK
  <2>2. ASSUME NEW m \in Data(route), \A l \in Data(route) : DocumentRank(m) <= DocumentRank(l),
               ReceiverOf(m.name) \in FileName
        PROVE  Got(file[ReceiverOf(m.name)], About(m), DocumentRank(m))'
    <3>1. DocumentRank(m) \in Nat
      BY <1>1, <2>1, Ways, Documents DEF Data
    <3> PICK c, v, r : r \in Nat /\ c = file[ReceiverOf(m.name)] /\ v = About(m) /\ r = DocumentRank(m)
      BY <3>1
    <3>2. Got(c, v, r)
      BY <1>1, <2>2 DEF GotInv
    <3>3. Got(c, v, r)'
      BY <1>1, <1>3, <3>2, ReadGot
    <3> QED BY <1>3, <1>10, <2>1, <3>3
  <2>3. ASSUME Live, socket = route, Data(route) = {}, uploader.pc \in {"wait", "part", "end"},
               ReceiverOf(uploader.name) \in FileName
        PROVE  Got(file[ReceiverOf(uploader.name)], visits, Due)'
    <3>1. Due \in Nat
      BY <1>1, DueNow
    <3> PICK c, v, r : r \in Nat /\ c = file[ReceiverOf(uploader.name)] /\ v = visits /\ r = Due
      BY <3>1
    <3>2. Got(c, v, r)
      BY <1>1, <2>3 DEF GotInv
    <3>3. Got(c, v, r)'
      BY <1>1, <1>3, <3>2, ReadGot
    <3> QED BY <1>3, <1>4, <1>9, <1>10, <2>1, <3>3
  <2> QED BY <1>3, <1>4, <1>9, <1>10, <2>1, <2>2, <2>3 DEF GotInv
<1>12. LeftInv'
  <2> SUFFICES ASSUME Live, socket = route PROVE LeftInv'
    BY <1>3, <1>4, <1>9 DEF LeftInv
  <2>1. route \in Socket
    BY DEF Live, Usable
  <2>2. Data(socket)' = Data(socket)
    BY <1>3, <1>4, <1>10, <2>1 DEF Data
  <2>3. \A n : UnderWay(n)' = UnderWay(n)
    BY <1>4, <2>2 DEF UnderWay
  <2> QED BY <1>1, <1>3, <1>4, <1>10, <2>1, <2>2, <2>3 DEF LeftInv
<1>13. NamelessInv' /\ PathInv'
  <2> SUFFICES ASSUME ServerHears PROVE NamelessInv' /\ PathInv'
    BY <1>9 DEF NamelessInv, PathInv
  <2>1. route \in Socket
    BY <1>1 DEF ServerHears, UploadTypeOK
  <2>2. NamelessInv'
    BY <1>1, <1>3, <1>10, <2>1 DEF NamelessInv
  <2>3. PathInv'
    BY <1>1, <1>3, <1>4, <1>9, <1>10, <2>1 DEF PathInv
  <2> QED BY <2>2, <2>3
<1>14. uploader'.acknowledged => uploader'.accepted
  BY <1>1, <1>4
<1> QED BY <1>2, <1>6, <1>7, <1>8, <1>11, <1>12, <1>13, <1>14 DEF UploadInv, CoreInv

(***************************************************************************)
(* The connection of the machine.  What is read next, or sent next, follows *)
(* what is read.                                                           *)
(***************************************************************************)
LEMMA NextRank ==
  ASSUME UploadTypeOK, RanksInv, LiveInv, FinishInv, NEW s \in Socket, Reads(s),
         NEW h, h = First(s), h.kind \in {"file", "part", "finished"}
  PROVE  /\ h \in Data(s) /\ \A l \in Data(s) : DocumentRank(h) <= DocumentRank(l)
         /\ Data(s)' = Data(s) \ {h} /\ \A l \in Data(s)' : DocumentRank(h) < DocumentRank(l)
         /\ \A l \in Data(s) : About(l) = About(h) /\ l.name = h.name
         /\ \A l \in Data(s)' :
              (\A k \in Data(s)' : DocumentRank(l) <= DocumentRank(k)) => DocumentRank(l) = DocumentRank(h) + 1
         /\ Live /\ socket = s => About(h) = visits /\ h.name = uploader.name
                                  /\ uploader.pc # "request"
         /\ Live /\ socket = s /\ Data(s)' = {} /\ uploader.pc \in {"wait", "part", "end"} =>
              Due = DocumentRank(h) + 1
<1> PICK p, q : p = Payload(up[s]) /\ q = Payload(up'[s])
  OBVIOUS
<1>1. Data(s) = p /\ Data(s)' = q
  BY DEF Data
<1>2. /\ h \in Uploads(up[s]) /\ q = p \ {h}
      /\ \A l \in Uploads(up'[s]) : DocumentRank(h) < DocumentRank(l)
      /\ Uploads(up'[s]) = Uploads(up[s]) \ {h}
  BY ReadWay
<1>3. h \in p /\ p \subseteq Uploads(up[s]) /\ q \subseteq Uploads(up'[s])
  BY <1>2 DEF Payload
<1>4. \A m \in Uploads(up[s]) : /\ DocumentRank(m) \in Nat
                                /\ m.kind = "finish" <=> DocumentRank(m) = Parts + 2
                                /\ m \in p <=> DocumentRank(m) # Parts + 2
                                /\ DocumentRank(m) <= Parts + 2
  <2>1. up[s] \in Seq(Upward)
    BY Ways
  <2> QED BY <2>1, Documents
<1>5. \A m, l \in Uploads(up[s]) :
        /\ About(m) = About(l) /\ m.name = l.name
        /\ \A r \in 0 .. Parts + 1 :
             DocumentRank(m) < r /\ r < DocumentRank(l) /\ l.kind # "finish" => \E k \in Uploads(up[s]) : DocumentRank(k) = r
  BY DEF RanksInv, Way
<1>6. \A l \in p : About(l) = About(h) /\ l.name = h.name
  BY <1>3, <1>5
<1>7. \A l \in p : DocumentRank(h) <= DocumentRank(l)
  <2> SUFFICES ASSUME NEW l \in p, l # h PROVE DocumentRank(h) <= DocumentRank(l)
    BY <1>3, <1>4
  <2>1. DocumentRank(h) < DocumentRank(l) /\ DocumentRank(h) \in Nat /\ DocumentRank(l) \in Nat
    BY <1>2, <1>3, <1>4
  <2> QED BY <2>1
<1>8. ASSUME NEW l \in q, \A k \in q : DocumentRank(l) <= DocumentRank(k)
      PROVE  DocumentRank(l) = DocumentRank(h) + 1
  <2>1. /\ DocumentRank(h) < DocumentRank(l) /\ DocumentRank(h) \in Nat /\ DocumentRank(l) \in Nat /\ l \in Uploads(up[s])
        /\ DocumentRank(l) # Parts + 2 /\ DocumentRank(l) <= Parts + 2 /\ l.kind # "finish" /\ Parts \in Nat
    BY <1>2, <1>3, <1>4, NumbersOfUploads
  <2> SUFFICES ASSUME DocumentRank(h) + 1 < DocumentRank(l) PROVE FALSE
    BY <2>1
  <2>2. DocumentRank(h) + 1 \in 0 .. Parts + 1 /\ DocumentRank(h) < DocumentRank(h) + 1
    BY <2>1
  <2>3. PICK k \in Uploads(up[s]) : DocumentRank(k) = DocumentRank(h) + 1
    BY <1>2, <1>5, <2>1, <2>2
  <2>4. k # h /\ DocumentRank(k) # Parts + 2
    BY <2>1, <2>3
  <2>5. k \in q
    BY <1>2, <1>4, <2>4
  <2>6. DocumentRank(l) <= DocumentRank(k)
    BY <1>8, <2>5
  <2> QED BY <2>1, <2>3, <2>6
<1>9. ASSUME Live, socket = s
      PROVE  About(h) = visits /\ h.name = uploader.name /\ uploader.pc # "request"
  BY <1>2, <1>9 DEF LiveInv, Way
<1>10. ASSUME Live, socket = s, q = {}, uploader.pc \in {"wait", "part", "end"}
       PROVE  Due = DocumentRank(h) + 1
  <2>1. PICK m \in Uploads(up[s]) : DocumentRank(m) = Due - 1
    BY <1>2, <1>10 DEF LiveInv, Way
  <2>2. m.kind # "finish"
    BY <1>10 DEF FinishInv, Way
  <2>3. m = h
    BY <1>2, <1>4, <1>10, <2>2
  <2>4. Due \in Nat
    BY DueNow
  <2> QED BY <2>1, <2>3, <2>4
<1> QED BY <1>1, <1>2, <1>3, <1>6, <1>7, <1>8, <1>9, <1>10

LEMMA ReadGotInv ==
  ASSUME UploadTypeOK, RanksInv, LiveInv, FinishInv, Reads(route), route \in Socket, ServerRest,
         UNCHANGED <<route, closed>>,
         NEW h, h = First(route), h.kind \in {"file", "part", "finished"},
         NEW n, n = h.name, NEW v, v = About(h), NEW r, r = DocumentRank(h) + 1,
         NEW c, ReceiverOf(n)' \in FileName => c = file'[ReceiverOf(n)'] /\ Got(c, v, r)'
  PROVE  GotInv'
<1>1. UNCHANGED <<connected, socket, uploader, broken, visits>> /\ Live' = Live /\ Due' = Due
  BY DEF ServerRest, Live, Usable, Due
<1>2. Data(route)' = Payload(up'[route])
  BY DEF Data
<1> PICK q : q = Payload(up'[route])
  OBVIOUS
<1>3. /\ \A l \in q : About(l) = v /\ l.name = n
      /\ \A l \in q : (\A k \in q : DocumentRank(l) <= DocumentRank(k)) => DocumentRank(l) = r
      /\ Live /\ socket = route /\ q = {} /\ uploader.pc \in {"wait", "part", "end"} =>
           visits = v /\ uploader.name = n /\ Due = r
  <2> PICK s \in Socket : s = route
    OBVIOUS
  <2>1. Data(s)' = q
    BY <1>2
  <2>2. /\ Data(s)' \subseteq Data(s)
        /\ \A l \in Data(s) : About(l) = About(h) /\ l.name = h.name
        /\ \A l \in Data(s)' :
             (\A k \in Data(s)' : DocumentRank(l) <= DocumentRank(k)) => DocumentRank(l) = DocumentRank(h) + 1
        /\ Live /\ socket = s => About(h) = visits /\ h.name = uploader.name
        /\ Live /\ socket = s /\ Data(s)' = {} /\ uploader.pc \in {"wait", "part", "end"} =>
             Due = DocumentRank(h) + 1
    BY NextRank
  <2> QED BY <2>1, <2>2
<1>4. ASSUME NEW l \in q, \A k \in q : DocumentRank(l) <= DocumentRank(k), ReceiverOf(l.name)' \in FileName
      PROVE  Got(file[ReceiverOf(l.name)], About(l), DocumentRank(l))'
  <2>1. About(l) = v /\ l.name = n /\ DocumentRank(l) = r
    BY <1>3, <1>4
  <2> QED BY <1>4, <2>1
<1>5. ASSUME Live, socket = route, q = {}, uploader.pc \in {"wait", "part", "end"},
             ReceiverOf(uploader.name)' \in FileName
      PROVE  Got(file[ReceiverOf(uploader.name)], visits, Due)'
  <2>1. visits' = v /\ uploader'.name = n /\ Due' = r
    BY <1>1, <1>3, <1>5
  <2>2. ReceiverOf(uploader.name)' = ReceiverOf(n)'
    BY <2>1
  <2> QED BY <1>5, <2>1, <2>2
<1> QED BY <1>1, <1>2, <1>4, <1>5 DEF GotInv

\* A new receiver starts with an empty file, which no other writes.
LEMMA ReceiveFileKeeps ==
  ASSUME UploadInv, NEW s \in Socket, s = route, ReceiveFile(s)
  PROVE  UploadInv'
<1>1. /\ UploadTypeOK /\ FreshInv /\ TokenInv /\ (uploader.acknowledged => uploader.accepted)
      /\ RanksInv /\ SentInv /\ LiveInv /\ FinishInv /\ GotInv /\ LeftInv /\ NamelessInv
      /\ StoredInv /\ PathInv
  BY DEF UploadInv, CoreInv
<1>2. UploadTypeOK'
  BY <1>1, TypeOfServer DEF Controller
<1> PICK h : h = First(s)
  OBVIOUS
<1> PICK n : n = h.name
  OBVIOUS
<1>3. /\ h.kind = "file" /\ n \in Archive /\ Reads(s)
      /\ \A t \in Socket : controller'[t].client = controller[t].client
      /\ \A t \in Socket : t # s => controller'[t] = controller[t]
      /\ \A k \in Archive :
           k # n \/ controller[s].receiver[k] # NoReceiver =>
             controller'[s].receiver[k] = controller[s].receiver[k]
      /\ \/ /\ controller[s].client /\ file' = [file EXCEPT ![Named] = <<>>]
            /\ controller[s].receiver[n] = NoReceiver => controller'[s].receiver[n] = Named
            /\ down' = IF Usable(route)
                       THEN [down EXCEPT ![route] = Append(down[route], "file-accept")]
                       ELSE down
         \/ /\ UNCHANGED <<file, down>>
            /\ controller[s].receiver[n] = NoReceiver => controller'[s].receiver[n] = NoStream
      /\ UNCHANGED <<closed, route, visiting, stored, spoilt>> /\ ServerRest
  BY <1>1, FileIsRead
<1>4. /\ UNCHANGED <<connected, socket, sockets, uploader, broken, visits, gaveUp>>
      /\ Live' = Live /\ ServerHears' = ServerHears /\ ServerHears /\ route \in Socket /\ SpoilsAtMost(h)
  <2>1. UNCHANGED <<connected, socket, sockets, uploader, broken, visits, gaveUp>>
    BY <1>3 DEF ServerRest
  <2>2. s \notin closed /\ s # 0
    BY <1>3, NumbersOfUploads DEF Reads
  <2>3. Live' = Live /\ ServerHears' = ServerHears /\ ServerHears
    BY <1>3, <2>1, <2>2 DEF Live, Usable, ServerHears
  <2> QED BY <1>3, <2>1, <2>3 DEF SpoilsAtMost
<1>5. /\ \A k : ReceiverOf(k) = controller[s].receiver[k] /\ ReceiverOf(k)' = controller'[s].receiver[k]
      /\ Named \in FileName /\ NoReceiver \notin FileName /\ NoStream \notin FileName
  <2>1. Named \in FileName
    <3>1. visiting \in {0} \cup Visit
      BY <1>1 DEF UploadTypeOK
    <3> QED BY <3>1, NumbersOfUploads DEF Named
  <2> QED BY <1>3, <2>1, NumbersOfUploads DEF ReceiverOf
\* The document that was read comes first.
<1>6. /\ h \in Data(s) /\ \A l \in Data(s) : DocumentRank(h) <= DocumentRank(l)
      /\ Data(s)' = Data(s) \ {h} /\ \A l \in Data(s)' : DocumentRank(h) < DocumentRank(l)
      /\ \A l \in Data(s) : About(l) = About(h) /\ l.name = n
      /\ Live /\ socket = s => About(h) = visits /\ n = uploader.name /\ uploader.pc # "request"
  BY <1>1, <1>3, NextRank
<1>7. DocumentRank(h) = 0 /\ About(h) \in Visit
  BY <1>1, <1>3, <1>6, Ways, Documents DEF Data, Payload
<1>8. \A l \in Data(s)' : l.kind # "file"
  BY <1>1, <1>3, <1>6, <1>7, Ways, Documents DEF Data, Payload
\* What becomes of the receivers and their files.
<1>9. /\ \A k \in Archive : ReceiverOf(k) \in FileName \/ k # n => ReceiverOf(k)' = ReceiverOf(k)
      /\ ReceiverOf(n)' \in FileName /\ ReceiverOf(n) \notin FileName =>
           /\ ReceiverOf(n)' = Named /\ file'[Named] = <<>>
           /\ controller[s].client
  <2>1. \A k \in Archive : ReceiverOf(k) \in FileName \/ k # n => ReceiverOf(k)' = ReceiverOf(k)
    BY <1>3, <1>5
  <2>2. ASSUME ReceiverOf(n)' \in FileName, ReceiverOf(n) \notin FileName
        PROVE  /\ ReceiverOf(n)' = Named /\ file'[Named] = <<>>
               /\ controller[s].client
    <3>1. controller[s].receiver[n] = NoReceiver
      BY <1>3, <1>5, <2>2
    <3>2. /\ controller[s].client /\ ReceiverOf(n)' = Named
          /\ file' = [file EXCEPT ![Named] = <<>>]
      BY <1>3, <1>5, <2>2, <3>1
    <3>3. file'[Named] = <<>>
      BY <1>1, <1>5, <3>2 DEF UploadTypeOK
    <3> QED BY <3>2, <3>3
  <2> QED BY <2>1, <2>2
<1>10. \A p \in FileName : file'[p] = file[p] \/ file'[p] = <<>>
  BY <1>1, <1>3 DEF UploadTypeOK
<1>11. ReceiverOf(n)' \in FileName => file'[ReceiverOf(n)'] = <<>>
  <2> SUFFICES ASSUME ReceiverOf(n)' \in FileName, ReceiverOf(n) \in FileName
               PROVE  file'[ReceiverOf(n)'] = <<>>
    BY <1>9
  <2>1. Got(file[ReceiverOf(n)], About(h), DocumentRank(h))
    BY <1>1, <1>3, <1>4, <1>6 DEF GotInv
  <2>2. Lists(file[ReceiverOf(n)], About(h), 1)
    BY <1>7, <2>1 DEF Got
  <2>3. file[ReceiverOf(n)] \in Seq(Chunk)
    BY <1>1 DEF UploadTypeOK
  <2>4. file[ReceiverOf(n)] = <<>>
    BY <2>2, <2>3, EmptyLists
  <2>5. ReceiverOf(n)' = ReceiverOf(n)
    BY <1>3, <1>9
  <2> QED BY <1>10, <2>4, <2>5
<1>12. RanksInv' /\ SentInv' /\ LiveInv'
  BY <1>1, <1>3, <1>4, ReadOrder, ReadSent, ReadLive
<1>13. FinishInv' /\ StoredInv'
  BY <1>1, <1>3, <1>4, ReadFinish, ReadStored
<1>14. GotInv'
  <2> PICK v \in Visit : v = About(h)
    BY <1>7
  <2>1. Got(<<>>, v, 1)
    <3>1. <<>> \in Seq(Chunk)
      BY EmptySeq
    <3>2. Lists(<<>>, v, 1)
      BY <3>1, EmptyLists
    <3>3. \A t \in Socket : \A m \in Data(t) : m.kind = "part" => 1 <= DocumentRank(m)
      BY <1>1, Ways, Documents DEF Data, Payload
    <3> QED BY <3>2, <3>3 DEF Got
  <2>2. Got(<<>>, v, 1)'
    BY <1>1, <1>3, <1>4, <2>1, ReadGot
  <2> PICK r, c : r = 1 /\ c = <<>>
    OBVIOUS
  <2>3. Got(c, v, r)' /\ r = DocumentRank(h) + 1 /\ (ReceiverOf(n)' \in FileName => c = file'[ReceiverOf(n)'])
    BY <1>7, <1>11, <2>2
  <2> QED BY <1>1, <1>3, <1>4, <2>3, ReadGotInv
<1>15. LeftInv'
  <2> SUFFICES ASSUME Live, socket = s PROVE LeftInv'
    BY <1>3, <1>4 DEF LeftInv
  <2>1. \A k \in Archive : ReceiverOf(k) \in FileName =>
          /\ file[ReceiverOf(k)] = <<>> \/ UnderWay(k)
          /\ ReceiverOf(k) \in Visit => ReceiverOf(k) <= visits
          /\ \A j \in Archive : ReceiverOf(j) = ReceiverOf(k) => j = k
          /\ ReceiverOf(k) # visits
    BY <1>1, <1>3, <1>6 DEF LeftInv
  <2>2. ASSUME NEW k \in Archive, ReceiverOf(k)' \in FileName PROVE file'[ReceiverOf(k)'] = <<>>
    <3>1. CASE k = n
      BY <1>11, <2>2, <3>1
    <3>2. CASE k # n
      <4>1. ReceiverOf(k)' = ReceiverOf(k) /\ ~UnderWay(k)
        BY <1>6, <1>9, <2>2, <3>2 DEF UnderWay
      <4> QED BY <1>10, <2>1, <2>2, <4>1
    <3> QED BY <3>1, <3>2
\* The file of a new receiver is not yet in the map.
  <2>3. ASSUME ReceiverOf(n)' \in FileName, ReceiverOf(n) \notin FileName
        PROVE  /\ ReceiverOf(n)' \in Visit => ReceiverOf(n)' <= visits
               /\ \A j \in Archive : ReceiverOf(j) # ReceiverOf(n)'
    <3>1. ReceiverOf(n)' = Named
      BY <1>9, <2>3
    <3>2. CASE visiting = 0
      <4>1. \A j \in Archive : ReceiverOf(j) \notin FileName
        BY <1>1, <1>3, <1>4, <1>6, <3>2 DEF NamelessInv
      <4>2. Named = Unnamed
        BY <3>2 DEF Named
      <4> QED BY <1>5, <3>1, <4>1, <4>2, NumbersOfUploads
    <3>3. CASE visiting # 0
      <4>1. Named = visits /\ visits \in Nat
        <5>1. Named = visits
          BY <1>1, <3>3 DEF FinishInv, Named
        <5>2. visits \in {0} \cup Visit
          BY <1>1 DEF UploadTypeOK
        <5> QED BY <5>1, <5>2, NumbersOfUploads
      <4>2. visits <= visits
        BY <4>1
      <4> QED BY <1>5, <2>1, <3>1, <4>1, <4>2
    <3> QED BY <3>2, <3>3
  <2>4. ASSUME NEW k \in Archive, ReceiverOf(k)' \in FileName
        PROVE  /\ ReceiverOf(k)' \in Visit => ReceiverOf(k)' <= visits
               /\ \A j \in Archive : ReceiverOf(j)' = ReceiverOf(k)' => j = k
    <3>1. CASE ReceiverOf(n)' \in FileName /\ ReceiverOf(n) \notin FileName
      BY <1>9, <2>1, <2>3, <2>4, <3>1
    <3>2. CASE ReceiverOf(n)' \notin FileName \/ ReceiverOf(n) \in FileName
      BY <1>9, <2>1, <2>4, <3>2
    <3> QED BY <3>1, <3>2
  <2>5. ~(uploader'.pc = "request" \/ \E m \in Data(socket)' : m.kind = "file")
    <3>1. Data(socket)' = Data(s)'
      BY <1>4 DEF Data
    <3> QED BY <1>4, <1>6, <1>8, <3>1
  <2>6. visits' = visits
    BY <1>4
  <2> QED BY <2>2, <2>4, <2>5, <2>6 DEF LeftInv
<1>16. NamelessInv'
  <2>1. Data(route)' = Data(s)'
    BY <1>3 DEF Data
  <2> QED BY <1>8, <2>1 DEF NamelessInv
\* The token passes from the request to the acceptance.
<1>17. TokenInv'
  <2> SUFFICES ASSUME gaveUp = {} PROVE TokenInv'
    BY <1>4 DEF TokenInv
  <2>1. /\ uploader.pc = "wait" /\ ~uploader.acknowledged
        /\ \A t \in Socket : \A i \in DOMAIN down[t] : ~AcceptAt(down[t], i)
    BY <1>1, <1>3, <1>6 DEF TokenInv, Accepts
  <2>2. ASSUME NEW t \in Socket, NEW m \in Data(t)', m.kind = "file" PROVE FALSE
    <3>1. m \in Data(t) /\ m \in Uploads(up[t]) /\ h \in Uploads(up[s])
      BY <1>1, <1>3, <1>6, ReadWay DEF Data, Payload
    <3>2. About(m) = visits /\ About(h) = visits
      BY <1>1, <1>3, <1>6, <2>2, <3>1 DEF TokenInv
    <3>3. DocumentRank(m) = 0
      BY <1>1, <2>2, <3>1, Ways, Documents
    <3>4. t = s
      BY <1>1, <1>7, <3>1, <3>2, <3>3 DEF SentInv, Way
    <3> QED BY <1>8, <2>2, <3>4
  <2>3. \E l : \A t \in Socket : \A i \in DOMAIN down'[t] : AcceptAt(down'[t], i) => t = s /\ i = l
    <3>1. CASE \A t \in Socket : down'[t] = down[t]
      BY <2>1, <3>1
    <3>2. CASE down' = [down EXCEPT ![route] = Append(down[route], "file-accept")]
      <4>1. /\ \A t \in Socket : t # s => down'[t] = down[t]
            /\ down'[s] = Append(down[s], "file-accept")
        BY <1>1, <1>3, <3>2 DEF UploadTypeOK
      <4>2. down[s] \in Seq(Greeting) /\ "file-accept" \in Greeting
        BY <1>1 DEF UploadTypeOK, Greeting
      <4> PICK l \in Nat : l = Len(down[s]) /\ DOMAIN down[s] = 1 .. l
        BY <4>2, LenProperties
      <4>3. DOMAIN down'[s] = 1 .. l + 1 /\ \A i \in 1 .. l : down'[s][i] = down[s][i]
        BY <4>1, <4>2, AppendProperties
      <4>4. ASSUME NEW i \in DOMAIN down'[s], AcceptAt(down'[s], i) PROVE i = l + 1
        <5>1. i \in 1 .. l => AcceptAt(down[s], i)
          BY <4>3, <4>4 DEF AcceptAt
        <5>2. i \notin 1 .. l
          BY <2>1, <5>1
        <5> QED BY <4>3, <4>4, <5>2
      <4> QED BY <2>1, <4>1, <4>4
    <3> QED BY <1>3, <3>1, <3>2
  <2>4. uploader' = uploader
    BY <1>4
  <2> QED BY <2>1, <2>2, <2>3, <2>4 DEF TokenInv, Accepts
<1>18. PathInv'
  <2> SUFFICES ASSUME gaveUp = {} PROVE PathInv'
    BY <1>4 DEF PathInv
  <2>1. \A k \in Archive : ReceiverOf(k) \notin FileName
    BY <1>1, <1>3, <1>4, <1>6 DEF PathInv
  <2>2. uploader.pc = "wait" /\ About(h) = visits
    BY <1>1, <1>3, <1>6 DEF TokenInv
  <2>3. Named = visits
    <3>1. visiting = visits /\ visiting # 0
      BY <1>1, <2>2 DEF FinishInv
    <3> QED BY <3>1 DEF Named
  <2>4. ASSUME NEW k \in Archive, ReceiverOf(k)' \in FileName
        PROVE  k = n /\ ReceiverOf(k)' = visits
    BY <1>9, <2>1, <2>3, <2>4
  <2>5. Data(route)' = Data(s)'
    BY <1>3 DEF Data
  <2>6. \A l \in Data(route)' : l.kind # "file" /\ l.name = n /\ About(l) = visits
    BY <1>6, <1>8, <2>2, <2>5
  <2>7. Live' /\ socket' = route' => n = uploader'.name /\ uploader'.pc = "wait"
    BY <1>3, <1>4, <1>6, <2>2
  <2>8. visits' = visits
    BY <1>4
  <2> QED BY <2>4, <2>6, <2>7, <2>8 DEF PathInv
<1>19. FreshInv'
  <2>1. \A t \in Socket :
          /\ t > sockets => up[t] = <<>> /\ t # route
          /\ t # route /\ t \notin closed => ~controller[t].client
          /\ ~controller[t].client => \A k \in Archive : controller[t].receiver[k] \notin FileName
    BY <1>1 DEF FreshInv
  <2>2. socket' <= sockets'
    BY <1>1, <1>4 DEF FreshInv
  <2>3. ASSUME NEW t \in Socket
        PROVE  /\ t > sockets' => up'[t] = <<>> /\ t # route'
               /\ t # route' /\ t \notin closed' => ~controller'[t].client
               /\ ~controller'[t].client =>
                    \A k \in Archive : controller'[t].receiver[k] \notin FileName
    <3>1. t > sockets' => t # s /\ up'[t] = up[t]
      BY <1>1, <1>3, <1>4, <2>1, ReadWay
    <3>2. t > sockets' => up'[t] = <<>> /\ t # route'
      BY <1>3, <1>4, <2>1, <3>1
    <3>3. ~controller'[t].client => \A k \in Archive : controller'[t].receiver[k] \notin FileName
      <4>1. CASE t # s
        BY <1>3, <2>1, <4>1
      <4>2. CASE t = s
        BY <1>3, <1>5, <1>9, <2>1, <4>2
      <4> QED BY <4>1, <4>2
    <3> QED BY <1>3, <2>1, <3>2, <3>3
  <2> QED BY <2>2, <2>3 DEF FreshInv
<1>20. uploader'.acknowledged => uploader'.accepted
  BY <1>1, <1>4
<1> QED BY <1>2, <1>12, <1>13, <1>14, <1>15, <1>16, <1>17, <1>18, <1>19, <1>20 DEF UploadInv, CoreInv

\* One part more.
LEMMA PartsUpTo ==
  ASSUME NEW v, NEW r \in Nat, r # 0
  PROVE  [visit : {v}, part : 1 .. (r + 1) - 1]
           = [visit : {v}, part : 1 .. r - 1] \cup {[visit |-> v, part |-> r]}
<1>1. 1 .. (r + 1) - 1 = (1 .. r - 1) \cup {r}
  OBVIOUS
<1> PICK S, T : S = 1 .. r - 1 /\ T = 1 .. (r + 1) - 1
  OBVIOUS
<1>2. ASSUME NEW x \in [visit : {v}, part : T]
      PROVE  x \in [visit : {v}, part : S] \cup {[visit |-> v, part |-> r]}
  <2>1. x = [visit |-> v, part |-> x.part] /\ x.part \in T
    OBVIOUS
  <2>2. x.part \in S \/ x.part = r
    BY <1>1, <2>1
  <2> QED BY <2>1, <2>2
<1>3. ASSUME NEW x \in [visit : {v}, part : S] PROVE x \in [visit : {v}, part : T]
  <2>1. x.part \in T
    BY <1>1
  <2> QED BY <2>1
<1>4. [visit |-> v, part |-> r] \in [visit : {v}, part : T]
  BY <1>1
<1> QED BY <1>2, <1>3, <1>4

\* The next part is added to a list, or is the one that is spoilt.
LEMMA ListsGrow ==
  ASSUME NEW c \in Seq(Chunk), NEW k \in Chunk, k \notin spoilt, Lists(c, k.visit, k.part)
  PROVE  Lists(Append(c, k), k.visit, k.part + 1)
<1> PICK n \in Nat : n = Len(c) /\ DOMAIN c = 1 .. n
  BY LenProperties
<1> DEFINE a == Append(c, k)
<1>1. /\ a \in Seq(Chunk) /\ DOMAIN a = 1 .. n + 1
      /\ \A i \in 1 .. n : a[i] = c[i]
      /\ a[n + 1] = k
  BY AppendProperties
<1> HIDE DEF a
<1> PICK v, r : v = k.visit /\ r = k.part
  OBVIOUS
<1>2. v \in Visit /\ r \in 1 .. Parts /\ k = [visit |-> v, part |-> r]
  BY DEF Chunk
<1>3. r \in Nat
  BY <1>2, NumbersOfUploads
<1>4. /\ \A i, j \in DOMAIN c : i < j => c[i].part < c[j].part
      /\ {c[i] : i \in DOMAIN c} = [visit : {v}, part : 1 .. r - 1] \ spoilt
  BY DEF Lists
<1>5. \A i \in DOMAIN c : c[i].part \in 1 .. r - 1
  <2> SUFFICES ASSUME NEW i \in DOMAIN c PROVE c[i].part \in 1 .. r - 1
    OBVIOUS
  <2>1. c[i] \in [visit : {v}, part : 1 .. r - 1]
    BY <1>4
  <2> QED BY <2>1
<1>6. ASSUME NEW i \in DOMAIN a, NEW j \in DOMAIN a, i < j PROVE a[i].part < a[j].part
  <2>1. i \in 1 .. n /\ (j \in 1 .. n \/ j = n + 1)
    BY <1>1, <1>6
  <2>2. c[i].part < r
    BY <1>3, <1>5, <2>1
  <2> QED BY <1>1, <1>4, <1>6, <2>1, <2>2
<1>7. {a[i] : i \in DOMAIN a} = {c[i] : i \in DOMAIN c} \cup {k}
  <2>1. ASSUME NEW i \in DOMAIN a PROVE a[i] \in {c[j] : j \in DOMAIN c} \cup {k}
    <3>1. i \in 1 .. n \/ i = n + 1
      BY <1>1
    <3> QED BY <1>1, <3>1
  <2>2. \A i \in DOMAIN c : c[i] \in {a[j] : j \in DOMAIN a}
    BY <1>1
  <2>3. k \in {a[j] : j \in DOMAIN a}
    BY <1>1
  <2> QED BY <2>1, <2>2, <2>3
<1>8. [visit : {v}, part : 1 .. (r + 1) - 1] = [visit : {v}, part : 1 .. r - 1] \cup {k}
  <2>1. r # 0
    BY <1>2, NumbersOfUploads
  <2> QED BY <1>2, <1>3, <2>1, PartsUpTo
<1> QED BY <1>4, <1>6, <1>7, <1>8 DEF a, Lists

LEMMA ListsSkip ==
  ASSUME NEW c, NEW k \in Chunk, spoilt' = spoilt \cup {k}, Lists(c, k.visit, k.part)
  PROVE  Lists(c, k.visit, k.part + 1)'
<1> PICK v, r : v = k.visit /\ r = k.part
  OBVIOUS
<1>1. v \in Visit /\ r \in 1 .. Parts /\ k = [visit |-> v, part |-> r]
  BY DEF Chunk
<1>2. r \in Nat
  BY <1>1, NumbersOfUploads
<1>3. [visit : {v}, part : 1 .. (r + 1) - 1] = [visit : {v}, part : 1 .. r - 1] \cup {k}
  <2>1. r # 0
    BY <1>1, NumbersOfUploads
  <2> QED BY <1>1, <1>2, <2>1, PartsUpTo
<1>4. k \notin [visit : {v}, part : 1 .. r - 1]
  <2> SUFFICES ASSUME k \in [visit : {v}, part : 1 .. r - 1] PROVE FALSE
    OBVIOUS
  <2>1. k.part \in 1 .. r - 1
    OBVIOUS
  <2> QED BY <1>2, <2>1
<1>5. [visit : {v}, part : 1 .. (r + 1) - 1] \ spoilt'
        = [visit : {v}, part : 1 .. r - 1] \ spoilt
  BY <1>3, <1>4
<1>6. Lists(c, v, r + 1)'
  BY <1>5 DEF Lists
<1> QED BY <1>6

LEMMA ReceiveFilePartKeeps ==
  ASSUME UploadInv, NEW s \in Socket, s = route, ReceiveFilePart(s)
  PROVE  UploadInv'
<1>1. /\ UploadTypeOK /\ FreshInv /\ TokenInv /\ (uploader.acknowledged => uploader.accepted)
      /\ RanksInv /\ SentInv /\ LiveInv /\ FinishInv /\ GotInv /\ LeftInv /\ NamelessInv
      /\ StoredInv /\ PathInv
  BY DEF UploadInv, CoreInv
<1>2. UploadTypeOK'
  BY <1>1, TypeOfServer DEF Controller
<1> PICK h : h = First(s)
  OBVIOUS
<1> PICK n : n = h.name
  OBVIOUS
<1>3. /\ h.kind = "part" /\ n \in Archive /\ h.chunk \in Chunk /\ Reads(s)
      /\ \A t \in Socket : /\ controller'[t].client = controller[t].client
                           /\ controller'[t].receiver = controller[t].receiver
      /\ UNCHANGED <<closed, down, route, visiting, stored>> /\ ServerRest
      /\ spoilt' = spoilt \/ spoilt' = spoilt \cup {h.chunk}
  BY Zenon, <1>1, PartIsRead
<1>4. \/ /\ controller[s].receiver[n] \in FileName
         /\ file' = [file EXCEPT ![controller[s].receiver[n]] =
                        Append(file[controller[s].receiver[n]], h.chunk)]
         /\ UNCHANGED spoilt
      \/ controller[s].receiver[n] \notin FileName /\ UNCHANGED <<file, spoilt>>
      \/ spoilt' = spoilt \cup {h.chunk} /\ UNCHANGED file
  BY Zenon, <1>1, PartIsRead
<1>5. /\ UNCHANGED <<connected, socket, sockets, uploader, broken, visits, gaveUp>>
      /\ Live' = Live /\ ServerHears' = ServerHears /\ ServerHears /\ route \in Socket /\ SpoilsAtMost(h)
  <2>1. UNCHANGED <<connected, socket, sockets, uploader, broken, visits, gaveUp>>
    BY <1>3 DEF ServerRest
  <2>2. s \notin closed /\ s # 0
    BY <1>3, NumbersOfUploads DEF Reads
  <2>3. Live' = Live /\ ServerHears' = ServerHears /\ ServerHears
    BY <1>3, <2>1, <2>2 DEF Live, Usable, ServerHears
  <2> QED BY <1>3, <2>1, <2>3 DEF SpoilsAtMost
<1>6. \A k : ReceiverOf(k) = controller[s].receiver[k] /\ ReceiverOf(k)' = ReceiverOf(k)
  BY <1>3 DEF ReceiverOf
<1>7. /\ h \in Data(s) /\ \A l \in Data(s) : DocumentRank(h) <= DocumentRank(l)
      /\ Data(s)' = Data(s) \ {h} /\ \A l \in Data(s)' : DocumentRank(h) < DocumentRank(l)
      /\ \A l \in Data(s) : About(l) = About(h) /\ l.name = n
      /\ Live /\ socket = s => About(h) = visits /\ n = uploader.name /\ uploader.pc # "request"
  BY <1>1, <1>3, NextRank
<1>8. /\ h.chunk.visit = About(h) /\ h.chunk.part = DocumentRank(h)
      /\ DocumentRank(h) \in Nat /\ 1 <= DocumentRank(h) /\ DocumentRank(h) <= Parts
  <2>1. h \in Uploads(up[s])
    BY <1>7 DEF Data, Payload
  <2> QED BY <1>1, <1>3, <2>1, Ways, Documents DEF About, DocumentRank
<1>9. Data(route) = Data(s) /\ Data(route)' = Data(s)'
      /\ (socket = s => Data(socket) = Data(s) /\ Data(socket)' = Data(s)')
  BY <1>3, <1>5 DEF Data
<1>10. RanksInv' /\ SentInv' /\ LiveInv'
  BY <1>1, <1>3, <1>5, ReadOrder, ReadSent, ReadLive
<1>11. FinishInv' /\ StoredInv' /\ TokenInv'
  BY <1>1, <1>2, <1>3, <1>5, ReadFinish, ReadStored, ReadToken
<1>12. GotInv'
  <2> PICK v, r, c : v = About(h) /\ r = DocumentRank(h) + 1
                     /\ (ReceiverOf(n)' \in FileName => c = file'[ReceiverOf(n)'])
    OBVIOUS
  <2>1. ASSUME ReceiverOf(n) \in FileName PROVE Got(c, v, r)'
    <3> PICK w : w = file[ReceiverOf(n)]
      OBVIOUS
    <3>1. Got(w, v, DocumentRank(h))
      BY <1>1, <1>3, <1>5, <1>7, <1>9, <2>1 DEF GotInv
    <3>2. Lists(w, v, DocumentRank(h)) /\ w \in Seq(Chunk)
      BY <1>1, <1>8, <2>1, <3>1 DEF Got, UploadTypeOK
    <3>3. h.chunk \notin spoilt
      BY <1>1, <1>7, <1>8 DEF SentInv
    <3>4. Lists(c, v, r)'
      <4>1. CASE file' = [file EXCEPT ![ReceiverOf(n)] = Append(w, h.chunk)] /\ spoilt' = spoilt
        <5>1. c = Append(w, h.chunk)
          BY <1>1, <1>6, <2>1, <4>1 DEF UploadTypeOK
        <5>2. Lists(Append(w, h.chunk), v, r)
          BY <1>3, <1>8, <3>2, <3>3, ListsGrow
        <5>3. Lists(c, v, r)
          BY <5>1, <5>2
        <5>4. spoilt' = spoilt
          BY <4>1
        <5> QED BY <5>3, <5>4 DEF Lists
      <4>2. CASE spoilt' = spoilt \cup {h.chunk} /\ file' = file
        <5>1. c = w
          BY <1>6, <2>1, <4>2
        <5>2. Lists(w, h.chunk.visit, h.chunk.part + 1)'
          BY <1>3, <1>8, <3>2, <4>2, ListsSkip
        <5> QED BY <1>8, <5>1, <5>2
      <4> QED BY <1>4, <1>6, <2>1, <4>1, <4>2
    <3>5. ASSUME NEW t \in Socket, NEW m \in Data(t)', m.kind = "part", About(m) = v
          PROVE  r <= DocumentRank(m)
      <4>1. m \in Data(t) /\ m \in Uploads(up[t]) /\ h \in Uploads(up[s])
        BY <1>1, <1>3, <1>7, <3>5, ReadWay DEF Data, Payload
      <4>2. DocumentRank(h) <= DocumentRank(m) /\ DocumentRank(m) \in Nat
        BY <1>1, <3>1, <3>5, <4>1, Ways, Documents DEF Got
      <4>3. ASSUME DocumentRank(m) = DocumentRank(h) PROVE FALSE
        <5>1. t = s
          BY <1>1, <3>5, <4>1, <4>3 DEF SentInv, Way
        <5>2. DocumentRank(h) < DocumentRank(m)
          BY <1>7, <3>5, <5>1
        <5> QED BY <1>8, <4>3, <5>2
      <4> QED BY <1>8, <4>2, <4>3
    <3>6. r # 0
      BY <1>8
    <3> QED BY <3>4, <3>5, <3>6 DEF Got
  <2>2. ReceiverOf(n)' \in FileName => c = file'[ReceiverOf(n)'] /\ Got(c, v, r)'
    BY <1>6, <2>1
  <2> QED BY <1>1, <1>3, <1>5, <2>2, ReadGotInv
\* The end of an upload is still under way when its parts are.
<1>13. ASSUME Live, socket = s
       PROVE  uploader.pc \in {"wait", "part", "end"} \/ \E m \in Data(s)' : m.kind = "finished"
  <2> SUFFICES ASSUME uploader.pc \in {"report", "idle"} PROVE \E m \in Data(s)' : m.kind = "finished"
    BY <1>7, <1>13, DueNow, <1>1
  <2>1. h \in Way(socket)
    BY <1>7, <1>13 DEF Data, Way, Payload
  <2>2. PICK m \in Way(socket) : m.kind = "finished"
    BY <1>1, <1>3, <1>13, <2>1 DEF LiveInv
  <2>3. m \in Data(s)
    BY <1>13, <2>2 DEF Data, Way, Payload
  <2>4. m # h
    BY <1>3, <2>2
  <2> QED BY <1>7, <2>2, <2>3, <2>4
<1>14. LeftInv'
  <2> SUFFICES ASSUME Live, socket = s PROVE LeftInv'
    BY <1>3, <1>5 DEF LeftInv
  <2>1. \A k \in Archive : ReceiverOf(k) \in FileName =>
          /\ file[ReceiverOf(k)] = <<>> \/ UnderWay(k)
          /\ ReceiverOf(k) \in Visit => ReceiverOf(k) <= visits
          /\ \A j \in Archive : ReceiverOf(j) = ReceiverOf(k) => j = k
          /\ (\E m \in Data(socket) : m.kind = "file") => ReceiverOf(k) # visits
    BY <1>1, <1>3 DEF LeftInv
  <2>2. ASSUME NEW k \in Archive, ReceiverOf(k) \in FileName
        PROVE  file'[ReceiverOf(k)] = <<>> \/ UnderWay(k)'
    <3>1. CASE k = n
      <4>1. uploader'.pc \in {"wait", "part", "end"} \/ Data(socket)' # {}
        BY <1>5, <1>9, <1>13
      <4> QED BY <1>5, <1>7, <3>1, <4>1 DEF UnderWay
    <3>2. CASE k # n
      <4>1. ~UnderWay(k)
        BY <1>7, <3>2 DEF UnderWay
      <4>2. ReceiverOf(n) # ReceiverOf(k)
        BY <1>3, <2>1, <2>2, <3>2
      <4>3. file'[ReceiverOf(k)] = file[ReceiverOf(k)]
        BY <1>1, <1>4, <1>6, <2>2, <4>2 DEF UploadTypeOK
      <4> QED BY <2>1, <2>2, <4>1, <4>3
    <3> QED BY <3>1, <3>2
  <2>3. ~(uploader'.pc = "request")
        /\ ((\E m \in Data(socket)' : m.kind = "file") => \E m \in Data(socket) : m.kind = "file")
    BY <1>5, <1>7, <1>9
  <2>4. visits' = visits
    BY <1>5
  <2> QED BY <1>6, <2>1, <2>2, <2>3, <2>4 DEF LeftInv
<1>15. NamelessInv'
  <2>1. \A m \in Data(route)' : m \in Data(route)
    BY <1>7, <1>9
  <2> QED BY <1>1, <1>3, <1>5, <1>6, <2>1 DEF NamelessInv
<1>16. PathInv'
  <2> SUFFICES ASSUME gaveUp = {} PROVE PathInv'
    BY <1>5 DEF PathInv
  <2>1. ASSUME NEW k \in Archive, ReceiverOf(k)' \in FileName
        PROVE  /\ \A m \in Data(route)' : m.kind # "file" /\ m.name = k /\ About(m) = ReceiverOf(k)'
               /\ Live /\ socket = route => ReceiverOf(k)' = visits /\ k = uploader.name
    BY <1>1, <1>3, <1>5, <1>6, <1>7, <1>9, <2>1 DEF PathInv
  <2> QED BY <1>3, <1>5, <1>9, <1>13, <2>1 DEF PathInv
<1>17. FreshInv'
  <2>1. \A t \in Socket : t > sockets => up'[t] = up[t]
    <3>1. up[s] # <<>> /\ \A t \in Socket : t # s => up'[t] = up[t]
      <4>1. up[s] # <<>>
        BY <1>3 DEF Reads
      <4> QED BY <1>1, <1>3, <4>1, ReadWay
    <3>2. ~(s > sockets)
      BY <1>1, <3>1 DEF FreshInv
    <3> QED BY <3>1, <3>2
  <2>2. sockets' \in Nat /\ sockets' >= sockets /\ socket' <= sockets'
    <3>1. sockets \in Nat
      BY <1>1, NumbersOfUploads DEF UploadTypeOK
    <3> QED BY <1>1, <1>5, <3>1 DEF FreshInv
  <2>3. ASSUME NEW t \in Socket
        PROVE  /\ controller'[t].client = controller[t].client
               /\ \A k \in Archive : controller'[t].receiver[k] \notin FileName
                                     \/ controller'[t].receiver[k] = controller[t].receiver[k]
    BY <1>3
  <2>4. closed' = closed /\ route' = route
    BY <1>3
  <2> QED BY <1>1, <1>2, <1>5, <2>1, <2>2, <2>3, <2>4, FreshKept
<1>18. uploader'.acknowledged => uploader'.accepted
  BY <1>1, <1>5
<1> QED BY <1>2, <1>10, <1>11, <1>12, <1>14, <1>15, <1>16, <1>17, <1>18 DEF UploadInv, CoreInv

\* The end of a file: it has all that was sent.
LEMMA ReceiveFileEndKeeps ==
  ASSUME UploadInv, NEW s \in Socket, s = route, ReceiveFileEnd(s)
  PROVE  UploadInv'
<1>1. /\ UploadTypeOK /\ FreshInv /\ TokenInv /\ (uploader.acknowledged => uploader.accepted)
      /\ RanksInv /\ SentInv /\ LiveInv /\ FinishInv /\ GotInv /\ LeftInv /\ NamelessInv
      /\ StoredInv /\ PathInv
  BY DEF UploadInv, CoreInv
<1>2. UploadTypeOK'
  BY <1>1, TypeOfServer DEF Controller
<1> PICK h : h = First(s)
  OBVIOUS
<1> PICK n : n = h.name
  OBVIOUS
<1>3. /\ h.kind = "finished" /\ n \in Archive /\ Reads(s)
      /\ \A t \in Socket : controller'[t].client = controller[t].client
      /\ \A t \in Socket : t # s => controller'[t].receiver = controller[t].receiver
      /\ \A k \in Archive : k # n => controller'[s].receiver[k] = controller[s].receiver[k]
      /\ \/ /\ controller[s].receiver[n] \in FileName
            /\ stored' = stored \cup {[path |-> controller[s].receiver[n], name |-> n,
                                        content |-> file[controller[s].receiver[n]]]}
            /\ controller'[s].receiver[n] = NoReceiver
         \/ /\ controller[s].receiver[n] \notin FileName /\ UNCHANGED stored
            /\ controller'[s].receiver[n] = controller[s].receiver[n]
      /\ UNCHANGED <<closed, down, route, visiting, file, spoilt>> /\ ServerRest
  BY <1>1, EndIsRead
<1>4. /\ UNCHANGED <<connected, socket, sockets, uploader, broken, visits, gaveUp>>
      /\ Live' = Live /\ ServerHears' = ServerHears /\ ServerHears /\ route \in Socket /\ SpoilsAtMost(h)
  <2>1. UNCHANGED <<connected, socket, sockets, uploader, broken, visits, gaveUp>>
    BY <1>3 DEF ServerRest
  <2>2. s \notin closed /\ s # 0
    BY <1>3, NumbersOfUploads DEF Reads
  <2>3. Live' = Live /\ ServerHears' = ServerHears /\ ServerHears
    BY <1>3, <2>1, <2>2 DEF Live, Usable, ServerHears
  <2> QED BY <1>3, <2>1, <2>3 DEF SpoilsAtMost
\* The receiver of the name is gone, the others are where they were.
<1>5. /\ \A k : ReceiverOf(k) = controller[s].receiver[k]
      /\ \A k \in Archive : k # n => ReceiverOf(k)' = ReceiverOf(k)
      /\ ReceiverOf(n)' \notin FileName
  BY <1>3, NumbersOfUploads DEF ReceiverOf
<1>6. /\ h \in Data(s) /\ \A l \in Data(s) : DocumentRank(h) <= DocumentRank(l)
      /\ Data(s)' \subseteq Data(s) /\ \A l \in Data(s)' : DocumentRank(h) < DocumentRank(l)
      /\ \A l \in Data(s) : About(l) = About(h) /\ l.name = n
      /\ Live /\ socket = s => n = uploader.name /\ uploader.pc # "request"
  BY <1>1, <1>3, NextRank
<1>7. DocumentRank(h) = Parts + 1 /\ About(h) \in Visit /\ h \in Uploads(up[s])
  BY <1>1, <1>3, <1>6, Ways, Documents DEF Data, Payload
<1>8. Data(s)' = {}
  <2> SUFFICES ASSUME NEW l \in Data(s)' PROVE FALSE
    OBVIOUS
  <2>1. /\ l \in Uploads(up[s]) /\ l \in Payload(up[s]) /\ up[s] \in Seq(Upward)
    BY <1>1, <1>6, Ways DEF Data, Payload
  <2>2. DocumentRank(l) \in Nat /\ DocumentRank(l) <= Parts + 2 /\ DocumentRank(l) # Parts + 2
    BY <2>1, Documents
  <2> QED BY <1>6, <1>7, <2>2, NumbersOfUploads
<1>9. Data(route) = Data(s) /\ Data(route)' = {} /\ (socket = s => Data(socket)' = {})
  BY <1>3, <1>4, <1>8 DEF Data
<1>10. RanksInv' /\ SentInv' /\ LiveInv'
  BY <1>1, <1>3, <1>4, ReadOrder, ReadSent, ReadLive
<1>11. FinishInv' /\ TokenInv'
  BY <1>1, <1>2, <1>3, <1>4, ReadFinish, ReadToken
<1>12. GotInv'
  BY <1>1, <1>3, <1>4, <1>5, ReadGotInv
<1>13. LeftInv'
  <2> SUFFICES ASSUME Live, socket = s PROVE LeftInv'
    BY <1>3, <1>4 DEF LeftInv
  <2>1. \A k \in Archive : ReceiverOf(k) \in FileName =>
          /\ file[ReceiverOf(k)] = <<>> \/ UnderWay(k)
          /\ ReceiverOf(k) \in Visit => ReceiverOf(k) <= visits
          /\ \A j \in Archive : ReceiverOf(j) = ReceiverOf(k) => j = k
    BY <1>1, <1>3 DEF LeftInv
  <2>2. ASSUME NEW k \in Archive, ReceiverOf(k)' \in FileName
        PROVE  k # n /\ ReceiverOf(k)' = ReceiverOf(k) /\ file[ReceiverOf(k)] = <<>>
    <3>1. k # n /\ ReceiverOf(k)' = ReceiverOf(k)
      BY <1>5, <2>2
    <3>2. ~UnderWay(k)
      BY <1>6, <3>1 DEF UnderWay
    <3> QED BY <2>1, <2>2, <3>1, <3>2
  <2>3. ASSUME NEW k \in Archive, ReceiverOf(k)' \in FileName, NEW j \in Archive, ReceiverOf(j)' = ReceiverOf(k)'
        PROVE  j = k
    BY <2>1, <2>2, <2>3
  <2>4. ~(uploader'.pc = "request" \/ \E m \in Data(socket)' : m.kind = "file")
    BY <1>4, <1>6, <1>9
  <2>5. visits' = visits /\ file' = file
    BY <1>3, <1>4
  <2> QED BY <2>1, <2>2, <2>3, <2>4, <2>5 DEF LeftInv
<1>14. NamelessInv'
  BY <1>9 DEF NamelessInv
<1>15. PathInv'
  <2> SUFFICES ASSUME gaveUp = {}, NEW k \in Archive, ReceiverOf(k)' \in FileName PROVE FALSE
    BY <1>4 DEF PathInv
  <2>1. k # n /\ ReceiverOf(k) \in FileName
    BY <1>5
  <2>2. h.name = k
    BY <1>1, <1>4, <1>6, <1>9, <2>1 DEF PathInv
  <2> QED BY <2>1, <2>2
<1>16. StoredInv'
  <2>1. CASE stored' = stored
    BY <1>1, <1>3, <1>4, <2>1, ReadStored
  <2>2. CASE ReceiverOf(n) \in FileName /\ stored' # stored
    <3> PICK f : f = [path |-> ReceiverOf(n), name |-> n, content |-> file[ReceiverOf(n)]]
      OBVIOUS
    <3> PICK v \in Visit : v = About(h)
      BY <1>7
    <3>1. stored' = stored \cup {f}
      BY <1>3, <1>5, <2>2
    <3>2. f.path = ReceiverOf(n) /\ f.content = file[ReceiverOf(n)]
      OBVIOUS
    <3>3. Got(file[ReceiverOf(n)], v, Parts + 1)
      BY <1>1, <1>3, <1>4, <1>6, <1>7, <1>9, <2>2 DEF GotInv
    <3>4. /\ UNCHANGED <<uploader, visits, gaveUp, spoilt>> /\ Due' = Due
      BY <1>3, <1>4 DEF Due
    <3>5. \A w, r : Past(w, r)' = Past(w, r)
      BY <3>4 DEF Past
    <3>6. \A c, w, r : Lists(c, w, r)' = Lists(c, w, r)
      BY <3>4 DEF Lists
    <3>7. \A t \in Socket : \A m \in Data(t)' : m \in Data(t)
      BY <1>1, <1>3, ReadWay DEF Data
    <3>8. /\ Lists(f.content, v, Parts + 1)' /\ (f.path = v \/ gaveUp' # {})
          /\ Past(v, Parts + 1)'
          /\ \A t \in Socket : \A m \in Data(t)' : m.kind = "part" => About(m) # v
      <4>1. Lists(f.content, v, Parts + 1)
        <5>1. Parts + 1 # 0
          BY NumbersOfUploads
        <5> QED BY <3>2, <3>3, <5>1 DEF Got
      <4>2. f.path = v \/ gaveUp' # {}
        BY <1>1, <1>3, <1>4, <1>6, <1>9, <2>2, <3>2 DEF PathInv
      <4>3. Past(v, Parts + 1)
        BY <1>1, <1>7 DEF SentInv, Way
      <4>4. ASSUME NEW t \in Socket, NEW m \in Data(t), m.kind = "part", About(m) = v PROVE FALSE
        <5>1. Parts + 1 <= DocumentRank(m)
          BY <3>3, <4>4 DEF Got
        <5>2. DocumentRank(m) \in Nat /\ DocumentRank(m) <= Parts
          BY <1>1, <4>4, Ways, Documents DEF Data, Payload
        <5> QED BY <5>1, <5>2, NumbersOfUploads
      <4>5. Lists(f.content, v, Parts + 1)' /\ Past(v, Parts + 1)'
        BY <3>5, <3>6, <4>1, <4>3
      <4>6. \A t \in Socket : \A m \in Data(t)' : m.kind = "part" => About(m) # v
        BY <3>7, <4>4
      <4> QED BY <4>2, <4>5, <4>6
    <3>9. ASSUME NEW g \in stored
          PROVE  \E w \in Visit :
                   /\ Lists(g.content, w, Parts + 1)' /\ (g.path = w \/ gaveUp' # {})
                   /\ Past(w, Parts + 1)'
                   /\ \A t \in Socket : \A m \in Data(t)' : m.kind = "part" => About(m) # w
      <4>1. PICK w \in Visit :
              /\ Lists(g.content, w, Parts + 1) /\ (g.path = w \/ gaveUp # {})
              /\ Past(w, Parts + 1)
              /\ \A t \in Socket : \A m \in Data(t) : m.kind = "part" => About(m) # w
        BY <1>1 DEF StoredInv
      <4>2. Lists(g.content, w, Parts + 1)' /\ Past(w, Parts + 1)'
        BY <3>5, <3>6, <4>1
      <4>3. \A t \in Socket : \A m \in Data(t)' : m.kind = "part" => About(m) # w
        BY <3>7, <4>1
      <4>4. g.path = w \/ gaveUp' # {}
        BY <3>4, <4>1
      <4> QED BY <4>2, <4>3, <4>4
    <3> QED BY <3>1, <3>8, <3>9 DEF StoredInv
  <2> QED BY <1>3, <1>5, <2>1, <2>2
<1>17. FreshInv'
  <2>1. \A t \in Socket : t > sockets => up'[t] = up[t]
    <3>1. up[s] # <<>> /\ \A t \in Socket : t # s => up'[t] = up[t]
      <4>1. up[s] # <<>>
        BY <1>3 DEF Reads
      <4> QED BY <1>1, <1>3, <4>1, ReadWay
    <3>2. ~(s > sockets)
      BY <1>1, <3>1 DEF FreshInv
    <3> QED BY <3>1, <3>2
  <2>2. sockets' \in Nat /\ sockets' >= sockets /\ socket' <= sockets'
    <3>1. sockets \in Nat
      BY <1>1, NumbersOfUploads DEF UploadTypeOK
    <3> QED BY <1>1, <1>4, <3>1 DEF FreshInv
  <2>3. ASSUME NEW t \in Socket
        PROVE  /\ controller'[t].client = controller[t].client
               /\ \A k \in Archive : controller'[t].receiver[k] \notin FileName
                                     \/ controller'[t].receiver[k] = controller[t].receiver[k]
    BY <1>3, NumbersOfUploads
  <2>4. closed' = closed /\ route' = route
    BY <1>3
  <2> QED BY <1>1, <1>2, <1>4, <2>1, <2>2, <2>3, <2>4, FreshKept
<1>18. uploader'.acknowledged => uploader'.accepted
  BY <1>1, <1>4
<1> QED BY <1>2, <1>10, <1>11, <1>12, <1>13, <1>14, <1>15, <1>16, <1>17, <1>18 DEF UploadInv, CoreInv

\* The end of a visit is the last of its documents.
LEMMA ParseVisitEventKeeps ==
  ASSUME UploadInv, NEW s \in Socket, s = route, ParseVisitEvent(s)
  PROVE  UploadInv'
<1>1. /\ UploadTypeOK /\ FreshInv /\ TokenInv /\ (uploader.acknowledged => uploader.accepted)
      /\ RanksInv /\ SentInv /\ LiveInv /\ FinishInv /\ GotInv /\ LeftInv /\ NamelessInv
      /\ StoredInv /\ PathInv
  BY DEF UploadInv, CoreInv
<1>2. UploadTypeOK'
  BY <1>1, TypeOfServer DEF Controller
<1> PICK h : h = First(s)
  OBVIOUS
<1>3. /\ h.kind = "finish" /\ Reads(s) /\ visiting' \in {0, visiting}
      /\ UNCHANGED <<closed, down, controller, route, file, stored, spoilt>> /\ ServerRest
  BY DEF ParseVisitEvent, IsHead, First
<1>4. /\ UNCHANGED <<connected, socket, sockets, uploader, broken, visits, gaveUp>>
      /\ Live' = Live /\ ServerHears' = ServerHears /\ Due' = Due /\ SpoilsAtMost(h)
  <2>1. UNCHANGED <<connected, socket, sockets, uploader, broken, visits, gaveUp>>
    BY <1>3 DEF ServerRest
  <2>2. Live' = Live /\ ServerHears' = ServerHears /\ Due' = Due
    BY <1>3, <2>1 DEF Live, Usable, ServerHears, Due
  <2> QED BY <1>3, <2>1, <2>2 DEF SpoilsAtMost
<1>5. /\ h \in Uploads(up[s]) /\ up[s] # <<>>
      /\ \A l \in Uploads(up'[s]) : DocumentRank(h) < DocumentRank(l)
      /\ \A t \in Socket : t # s => up'[t] = up[t]
      /\ \A t \in Socket : Uploads(up'[t]) \subseteq Uploads(up[t])
      /\ Payload(up'[s]) = Payload(up[s]) \ {h}
  <2>1. up[s] # <<>>
    BY <1>3 DEF Reads
  <2> QED BY <1>1, <1>3, <2>1, ReadWay
<1>6. DocumentRank(h) = Parts + 2 /\ \A l \in Uploads(up[s]) : DocumentRank(l) \in Nat /\ DocumentRank(l) <= Parts + 2
  BY <1>1, <1>3, <1>5, Ways, Documents
<1>7. Uploads(up'[s]) = {} /\ Payload(up'[s]) = Payload(up[s]) /\ Payload(up'[s]) = {}
  <2>1. ASSUME NEW l \in Uploads(up'[s]) PROVE FALSE
    <3>1. DocumentRank(h) < DocumentRank(l) /\ DocumentRank(l) \in Nat /\ DocumentRank(l) <= Parts + 2
      BY <1>5, <1>6
    <3> QED BY <1>6, <3>1, NumbersOfUploads
  <2>2. h \notin Payload(up[s])
    BY <1>3 DEF Payload
  <2> QED BY <1>5, <2>1, <2>2 DEF Payload
<1>8. \A t : t \in Socket => Data(t)' = Data(t)
  <2> SUFFICES ASSUME NEW t \in Socket PROVE Payload(up'[t]) = Payload(up[t])
    BY DEF Data
  <2>1. CASE t = s
    BY <1>7, <2>1
  <2>2. CASE t # s
    BY <1>5, <2>2
  <2> QED BY <2>1, <2>2
<1>9. /\ Data(route)' = {} /\ Data(route)' = Data(route)
      /\ \A n : ReceiverOf(n)' = ReceiverOf(n)
  BY <1>3, <1>7 DEF Data, ReceiverOf
<1>10. uploader.pc = "idle" /\ visiting = visits /\ visits # 0 /\ h.visit = visits
  BY <1>1, <1>3, <1>5 DEF FinishInv, Way
<1>11. RanksInv' /\ SentInv' /\ LiveInv'
  BY <1>1, <1>3, <1>4, ReadOrder, ReadSent, ReadLive
<1>12. StoredInv' /\ TokenInv'
  BY <1>1, <1>2, <1>3, <1>4, ReadStored, ReadToken
<1>13. FinishInv'
  <2>1. ASSUME NEW t \in Socket, NEW m \in Way(t)', m.kind = "finish" PROVE FALSE
    <3>1. m \in Uploads(up'[t]) /\ m \in Uploads(up[t])
      BY <1>5 DEF Way
    <3>2. m.visit = visits
      BY <1>1, <2>1, <3>1 DEF FinishInv, Way
    <3>3. About(m) = About(h)
      BY <1>3, <1>10, <2>1, <3>2 DEF About
    <3>4. DocumentRank(m) = DocumentRank(h)
      BY <1>3, <2>1 DEF DocumentRank
    <3>5. t = s
      BY <1>1, <1>5, <3>1, <3>3, <3>4 DEF SentInv, Way
    <3> QED BY <1>7, <3>1, <3>5
  <2>2. visiting' \in {0, visits'} /\ uploader'.pc = "idle"
    BY <1>3, <1>4, <1>10
  <2> QED BY <2>1, <2>2 DEF FinishInv
<1>14. GotInv'
  <2>1. uploader'.pc = "idle"
    BY <1>4, <1>10
  <2> QED BY <1>9, <2>1 DEF GotInv
<1>15. LeftInv'
  <2> SUFFICES ASSUME Live, socket = s PROVE LeftInv'
    BY <1>3, <1>4 DEF LeftInv
  <2>1. Data(socket)' = Data(socket)
    BY <1>3, <1>4, <1>9 DEF Data
  <2>2. \A n : UnderWay(n)' = UnderWay(n)
    BY <1>4, <2>1 DEF UnderWay
  <2> QED BY <1>1, <1>3, <1>4, <1>9, <2>1, <2>2 DEF LeftInv
<1>16. NamelessInv'
  BY <1>9 DEF NamelessInv
<1>17. PathInv'
  BY <1>1, <1>3, <1>4, <1>9 DEF PathInv
<1>18. FreshInv'
  <2>1. \A t \in Socket : t > sockets => up'[t] = up[t]
    <3>1. ~(s > sockets)
      BY <1>1, <1>5 DEF FreshInv
    <3> QED BY <1>5, <3>1
  <2> QED BY <1>1, <1>3, <1>4, <2>1 DEF FreshInv
<1>19. uploader'.acknowledged => uploader'.accepted
  BY <1>1, <1>4
<1> QED BY <1>2, <1>11, <1>12, <1>13, <1>14, <1>15, <1>16, <1>17, <1>18, <1>19 DEF UploadInv, CoreInv

LEMMA ControllerKeeps ==
  ASSUME UploadInv, NEW s \in Socket, Controller(s)
  PROVE  UploadInv'
<1>1. CASE ParseReconnect(s)
  BY <1>1, ParseReconnectKeeps
<1>2. CASE s # route /\ ~ParseReconnect(s)
  BY <1>2, ElsewhereKeeps DEF Controller
<1>3. CASE s = route /\ ~ParseReconnect(s)
  BY <1>3, ReceiveFileKeeps, ReceiveFilePartKeeps, ReceiveFileEndKeeps, ParseVisitEventKeeps
     DEF Controller
<1> QED BY <1>1, <1>2, <1>3

LEMMA UploadsBegin == UploadInit => UploadInv
<1> SUFFICES ASSUME UploadInit PROVE UploadInv
  OBVIOUS
<1>1. UploadTypeOK
  BY UploadsStart
<1>2. /\ \A s \in Socket : up[s] = <<>> /\ down[s] = <<>>
      /\ \A s \in Socket : \A n \in Archive : controller[s].receiver[n] = NoReceiver
      /\ \A s \in Socket : controller[s].client <=> s = 1
      /\ route = 1 /\ socket = 1 /\ sockets = 1 /\ visiting = 0 /\ visits = 0
      /\ stored = {} /\ spoilt = {} /\ uploader.pc = "idle" /\ ~uploader.acknowledged
      /\ 1 \in Socket /\ NoReceiver \notin FileName
  <2>1. 1 \in Socket /\ NoReceiver \notin FileName
    BY NumbersOfUploads
  <2>2. /\ up = [s \in Socket |-> <<>>] /\ down = [s \in Socket |-> <<>>]
        /\ route = 1 /\ socket = 1 /\ sockets = 1 /\ visiting = 0 /\ visits = 0
        /\ stored = {} /\ spoilt = {}
    BY Zenon DEF UploadInit
  <2>3. controller = [s \in Socket |-> [reads |-> TRUE, client |-> s = 1,
                                        receiver |-> [n \in Archive |-> NoReceiver]]]
    BY Zenon DEF UploadInit
  <2>4. \E n \in Archive :
          uploader = [pc |-> "idle", name |-> n, part |-> 1, accepted |-> FALSE,
                      acknowledged |-> FALSE, failed |-> FALSE]
    BY Zenon DEF UploadInit
  <2>5. uploader.pc = "idle" /\ ~uploader.acknowledged
    BY <2>4
  <2>6. \A s \in Socket : up[s] = <<>> /\ down[s] = <<>>
    BY <2>2
  <2>7. /\ \A s \in Socket : \A n \in Archive : controller[s].receiver[n] = NoReceiver
        /\ \A s \in Socket : controller[s].client <=> s = 1
    BY <2>3
  <2> QED BY <2>1, <2>2, <2>5, <2>6, <2>7
<1>3. Uploads(<<>>) = {} /\ Payload(<<>>) = {} /\ Ascending(<<>>)
  <2> PICK q \in Seq(Upward) : q = <<>>
    BY EmptySeq
  <2>1. DOMAIN q = {}
    OBVIOUS
  <2>2. Uploads(q) = {}
    BY <2>1 DEF Uploads
  <2>3. Payload(q) = {}
    BY <2>2 DEF Payload
  <2>4. Ascending(q)
    BY <2>1 DEF Ascending
  <2> QED BY <2>2, <2>3, <2>4
<1>4. /\ \A s \in Socket : Way(s) = {} /\ Data(s) = {} /\ Ascending(up[s])
      /\ \A n \in Archive : ReceiverOf(n) \notin FileName
  BY <1>2, <1>3 DEF Way, Data, ReceiverOf
<1>5. FreshInv
  <2>1. \A s \in Socket : s > 1 => s # 1
    BY NumbersOfUploads
  <2> QED BY <1>2, <2>1 DEF FreshInv
<1>6. RanksInv /\ SentInv /\ LiveInv /\ FinishInv
  BY <1>2, <1>4 DEF RanksInv, SentInv, LiveInv, FinishInv
<1>7. GotInv /\ LeftInv /\ NamelessInv /\ StoredInv /\ PathInv
  BY <1>2, <1>4 DEF GotInv, LeftInv, NamelessInv, StoredInv, PathInv
<1>8. TokenInv
  <2>1. \A s \in Socket : DOMAIN down[s] = {}
    BY <1>2
  <2> QED BY <1>2, <1>4, <2>1 DEF TokenInv
<1> QED BY <1>1, <1>2, <1>5, <1>6, <1>7, <1>8 DEF UploadInv, CoreInv

LEMMA UploadsGoOn == UploadInv /\ [UploadNext]_uploadVars => UploadInv'
<1> SUFFICES ASSUME UploadInv, [UploadNext]_uploadVars PROVE UploadInv'
  OBVIOUS
<1>1. CASE UNCHANGED uploadVars
  <2>1. UploadTypeOK /\ FreshInv
    BY DEF UploadInv
  <2>2. UploadTypeOK'
    BY <1>1, <2>1 DEF uploadVars, UploadTypeOK
  <2>3. FreshInv'
    BY <1>1, <2>1 DEF uploadVars, FreshInv
  <2>4. Stays
    BY <1>1 DEF uploadVars, Stays, Live, Usable, ServerHears
  <2>5. SameUpload
    BY <1>1 DEF uploadVars, SameUpload
  <2>6. /\ up' = up /\ uploader' = uploader
        /\ \A s \in Socket : down'[s] = down[s]
    BY <1>1 DEF uploadVars
  <2> QED BY <2>2, <2>3, <2>4, <2>5, <2>6, StillKeeps
<1>2. ASSUME NEW s \in Socket, Break(s) \/ Controller(s) PROVE UploadInv'
  BY <1>2, BreakKeeps, ControllerKeeps
<1>3. CASE Disconnect
  BY <1>3, UploadsDisconnectKeeps
<1>4. CASE ListenOn \/ HearNothing \/ FailToHear \/ SetConnectedFalse
  BY <1>4, ListenerIsQuiet
<1>5. ASSUME NEW n \in Archive, EndVisit(n) PROVE UploadInv'
  BY <1>5, EndVisitKeeps
<1>6. CASE RequestFile \/ AwaitAcceptance \/ SendFilePart \/ FinishFile \/ ReportVisit
  BY <1>6, UploadsVisitorKeeps
<1>7. CASE Hear
  BY <1>7, HearKeeps
<1>8. CASE Reconnect
  BY <1>8, ReconnectKeeps
<1> QED BY <1>1, <1>2, <1>3, <1>4, <1>5, <1>6, <1>7, <1>8 DEF UploadNext

(* What the documents under way and the files of the receivers have to do  *)
(* with one another holds at all times, whatever the numbers of names,     *)
(* parts, visits and connections.                                          *)
THEOREM UploadsInvariant == UploadSpec => []UploadInv
<1>1. UploadInit => UploadInv
  BY UploadsBegin
<1>2. UploadInv /\ [UploadNext]_uploadVars => UploadInv'
  BY UploadsGoOn
<1> QED BY <1>1, <1>2, PTL DEF UploadSpec

(* The state of the client's connection and of the controllers of the      *)
(* server (Server.cpp, FileUploader.cpp, ClientEventController.java,       *)
(* ClientFileReceiver.java) has its type.                                  *)
THEOREM UploadsTypeCorrect == UploadSpec => []UploadTypeOK
<1>1. UploadInv => UploadTypeOK
  BY DEF UploadInv
<1> QED BY <1>1, UploadsInvariant, PTL

(* Every file the server closed as finished                                *)
(* (ClientFileReceiver.receiveFileEnd) holds the archive of one visit,     *)
(* each part once and in order, but for those the parser spoilt, and is    *)
(* named for that visit unless an upload was given up: however connections *)
(* break, and for every number of names, parts, visits and connections.    *)
THEOREM UploadsArriveWhole == UploadSpec => []UploadsAreWhole
<1>1. UploadInv => UploadsAreWhole
  BY DEF UploadInv, CoreInv, StoredInv, UploadsAreWhole
<1> QED BY <1>1, UploadsInvariant, PTL
=============================================================================
