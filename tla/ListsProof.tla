------------------------------ MODULE ListsProof ------------------------------
(***************************************************************************)
(* Theorems about the nine transfer lists, from the numbers of usb.c: to   *)
(* write a list again under the chip is harmless, and the lists word by    *)
(* word implement UsbKeyboard, where a list is one access.                 *)
(*                                                                         *)
(* Both rest on where things are: a list reaches to 12 bytes behind its    *)
(* last descriptor and every buffer lies behind it, so of the words the    *)
(* program has written the chip only ever changes the control byte.        *)
(***************************************************************************)
EXTENDS UsbLists, TLAPS

(* A buffer behind a list with n data packets. *)
Buffer(b, n) ==
    /\ b[1] \in Int /\ b[2] \in 1 .. 8
    /\ b[1] >= \h0520 + 12 * n

(* What the nine requests have in common. *)
Fits(r) ==
    /\ Request[r].dev = (IF r = 1 THEN 0 ELSE 512)
    /\ Packets(r) \in 0 .. 8
    /\ Packets(r) = 0 <=> Request[r].in = <<>>
    /\ \A k \in 1 .. Packets(r) : Buffer(Request[r].in[k], Packets(r))
    /\ \A i \in 1 .. 4 : Request[r].setup[i] \in Nat

(* The nine requests, one by one. *)
LEMMA RequestsFit == \A r \in 1 .. Requests : Fits(r)
<1> SUFFICES ASSUME NEW r \in 1 .. Requests
             PROVE  Fits(r)
  OBVIOUS
<1>1. CASE r = 1
  BY <1>1 DEF Request, UsbSetAddress, Fits, Packets, ListLen, Buffer
<1>2. CASE r = 2
  BY <1>2 DEF Request, UsbGetDeviceDesc1, Fits, Packets, ListLen, Buffer
<1>3. CASE r = 3
  <2>1. Request[r] = UsbGetDeviceDesc2
    BY <1>3 DEF Request
  <2>2. Packets(r) = 3
    BY <2>1 DEF Packets, UsbGetDeviceDesc2
  <2>3. ASSUME NEW k \in 1 .. 3
        PROVE  Buffer(UsbGetDeviceDesc2.in[k], 3)
    BY DEF UsbGetDeviceDesc2, Buffer
  <2> QED
    BY <1>3, <2>1, <2>2, <2>3 DEF Fits, UsbGetDeviceDesc2
<1>4. CASE r = 4
  <2>1. Request[r] = UsbGetConfigDesc1
    BY <1>4 DEF Request
  <2>2. Packets(r) = 2
    BY <2>1 DEF Packets, UsbGetConfigDesc1
  <2>3. ASSUME NEW k \in 1 .. 2
        PROVE  Buffer(UsbGetConfigDesc1.in[k], 2)
    BY DEF UsbGetConfigDesc1, Buffer
  <2> QED
    BY <1>4, <2>1, <2>2, <2>3 DEF Fits, UsbGetConfigDesc1
<1>5. CASE r = 5
  <2>1. Request[r] = UsbGetConfigDesc2
    BY <1>5 DEF Request
  <2>2. Packets(r) = 5
    BY <2>1 DEF Packets, UsbGetConfigDesc2
  <2>3. ASSUME NEW k \in 1 .. 5
        PROVE  Buffer(UsbGetConfigDesc2.in[k], 5)
    BY DEF UsbGetConfigDesc2, Buffer
  <2> QED
    BY <1>5, <2>1, <2>2, <2>3 DEF Fits, UsbGetConfigDesc2
<1>6. CASE r = 6
  BY <1>6 DEF Request, UsbSetConfig, Fits, Packets, ListLen, Buffer
<1>7. CASE r = 7
  BY <1>7 DEF Request, UsbClassRequest, Fits, Packets, ListLen, Buffer
<1>8. CASE r = 8
  BY <1>8 DEF Request, UsbGetHidDesc, Fits, Packets, ListLen, Buffer
<1>9. CASE r = 9
  <2>1. Request[r] = UsbGetReportDesc
    BY <1>9 DEF Request
  <2>2. Packets(r) = 8
    BY <2>1 DEF Packets, UsbGetReportDesc
  <2>3. ASSUME NEW k \in 1 .. 8
        PROVE  Buffer(UsbGetReportDesc.in[k], 8)
    BY DEF UsbGetReportDesc, Buffer
  <2> QED
    BY <1>9, <2>1, <2>2, <2>3 DEF Fits, UsbGetReportDesc
<1> QED
  BY <1>1, <1>2, <1>3, <1>4, <1>5, <1>6, <1>7, <1>8, <1>9 DEF Requests

(* The first descriptor. *)
IsFirst(t, r) ==
    /\ t[1] = \h050C /\ t[2] = 8 /\ t[3] = SetupTo(Request[r].dev)
    /\ t[4] = DATA0 /\ t[6] = SetupTd

(* A data packet with another descriptor behind it. *)
IsPacket(t, r, k) ==
    /\ Buffer(t, Packets(r)) /\ t[3] = InFrom(Request[r].dev)
    /\ t[4] = IF k % 2 = 0 THEN DATA1 ELSE DATA0
    /\ t[6] = After(k + 1)

(* The last descriptor. *)
IsLast(t, r) ==
    /\ t[1] = 0 /\ t[2] = 0 /\ t[3] \in {InFrom(Request[r].dev), OutTo(Request[r].dev)}
    /\ t[4] = DATA1 /\ t[6] = 0

IsLater(t, r, k) == IF k < Packets(r) THEN IsPacket(t, r, k) ELSE IsLast(t, r)

(* The descriptors a list is made of: those after the setup data, ... *)
LEMMA LaterIs ==
    ASSUME NEW r \in 1 .. Requests, NEW k \in 0 .. Packets(r)
    PROVE  IsLater(Later(r, k), r, k) /\ Later(r, k)[5] = \h0013
<1> Fits(r)
  BY RequestsFit
<1>1. CASE k < Packets(r)
  <2>1. k + 1 \in 1 .. Packets(r)
    BY <1>1 DEF Fits
  <2>2. Buffer(Request[r].in[k + 1], Packets(r))
    BY <2>1 DEF Fits
  <2>3. (k + 1) % 2 = 1 <=> k % 2 = 0
    BY <2>1
  <2>4. Later(r, k) = <<Request[r].in[k + 1][1], Request[r].in[k + 1][2], InFrom(Request[r].dev),
                        IF k % 2 = 0 THEN DATA1 ELSE DATA0, \h0013, After(k + 1)>>
    BY <1>1, <2>3 DEF Later, DataTD, TD
  <2> QED
    BY <1>1, <2>2, <2>4 DEF IsLater, IsPacket, Buffer
<1>2. CASE ~(k < Packets(r))
  BY <1>2 DEF Later, StatusTD, TD, IsLater, IsLast
<1> QED
  BY <1>1, <1>2

(* ... and the one before. *)
LEMMA FirstIs ==
    ASSUME NEW r \in 1 .. Requests
    PROVE  IsFirst(SetupTD(r), r) /\ SetupTD(r)[5] = \h0013
BY DEF IsFirst, SetupTD, TD

(* Where they are in the list: descriptor k from word 11 + 6k on. *)
LEMMA ListWords ==
    ASSUME NEW r \in 1 .. Requests
    PROVE  /\ Packets(r) \in 0 .. 8 /\ ListLen(r) \in 16 .. 64
           /\ \A i \in 1 .. 6 : Lists[r][i] = SetupTD(r)[i]
           /\ \A k \in 0 .. Packets(r) : \A j \in 1 .. 6 :
                /\ 10 + 6 * k + j \in 1 .. ListLen(r)
                /\ Lists[r][10 + 6 * k + j] = Later(r, k)[j]
           /\ \A i \in 1 .. ListLen(r) : Lists[r][i] \in Nat
<1>0. Fits(r)
  BY RequestsFit
<1>1. Packets(r) \in 0 .. 8 /\ ListLen(r) \in 16 .. 64
  <2>1. Packets(r) \in 0 .. 8
    BY <1>0 DEF Fits
  <2> QED
    BY <2>1 DEF ListLen
<1>2. Lists[r] = ListOf(r)
  BY DEF Lists
<1>3. ASSUME NEW i \in 1 .. 6
      PROVE  Lists[r][i] = SetupTD(r)[i]
  <2>1. i \in 1 .. ListLen(r) /\ i <= 6
    BY <1>1
  <2> QED
    BY <1>2, <2>1 DEF ListOf
<1>4. ASSUME NEW k \in 0 .. Packets(r), NEW j \in 1 .. 6
      PROVE  10 + 6 * k + j \in 1 .. ListLen(r) /\ Lists[r][10 + 6 * k + j] = Later(r, k)[j]
  <2>1. 10 + 6 * k + j \in 1 .. ListLen(r)
    BY <1>1 DEF ListLen
  <2>2. (10 + 6 * k + j - 11) \div 6 = k /\ ((10 + 6 * k + j - 11) % 6) + 1 = j
    BY <1>1
  <2>3. ~(10 + 6 * k + j <= 6) /\ ~(10 + 6 * k + j <= 10)
    BY <1>1
  <2> QED
    BY <1>2, <2>1, <2>2, <2>3 DEF ListOf
<1>5. ASSUME NEW i \in 1 .. ListLen(r)
      PROVE  Lists[r][i] \in Nat
  <2>1. CASE i <= 6
    <3>1. SetupTD(r)[i] \in Nat
      BY <1>0, <2>1 DEF SetupTD, TD, Fits, SetupTo, DATA0, SetupTd
    <3> QED
      BY <1>3, <2>1, <3>1
  <2>2. CASE i > 6 /\ i <= 10
    BY <1>0, <1>2, <2>2 DEF ListOf, Fits
  <2>3. CASE i > 10
    <3> DEFINE k == (i - 11) \div 6
               j == ((i - 11) % 6) + 1
    <3>1. k \in 0 .. Packets(r) /\ j \in 1 .. 6
      BY <1>1, <2>3 DEF ListLen
    <3>2. Lists[r][i] = Later(r, k)[j]
      BY <1>2, <2>3 DEF ListOf
    <3>3. IsLater(Later(r, k), r, k) /\ Later(r, k)[5] = 19
      BY <3>1, LaterIs
    <3>4. Request[r].dev \in Nat
      BY <1>0 DEF Fits
    <3>5. ASSUME NEW t, IsLater(t, r, k), t[5] = 19
          PROVE  t[j] \in Nat
      <4>1. t[1] \in Nat /\ t[2] \in Nat
        BY <1>1, <3>5 DEF IsLater, IsPacket, IsLast, Buffer
      <4>2. t[3] \in Nat /\ t[4] \in Nat
        BY <3>4, <3>5 DEF IsLater, IsPacket, IsLast, InFrom, OutTo, DATA0, DATA1
      <4>3. t[6] \in Nat
        BY <3>1, <3>5 DEF IsLater, IsPacket, IsLast, After, SetupTd
      <4> QED
        BY <3>1, <3>5, <4>1, <4>2, <4>3
    <3> QED
      BY <3>2, <3>3, <3>5
  <2> QED
    BY <2>1, <2>2, <2>3
<1> QED
  BY <1>1, <1>3, <1>4, <1>5

-----------------------------------------------------------------------------
(* The inductive invariant: what the variables are, ...                    *)
ListsTypeOK ==
    /\ mem \in [Address -> Int]
    /\ place \in {"submit", "flag", "message", "clear", "check", "stray", "retry"}
    /\ request \in 1 .. Requests /\ written \in 0 .. ListLen(request)
    /\ pointer \in {0, Start, StrayTd} /\ cur \in Int

(* The chip has been given the list of the request. *)
Out == pointer = Start \/ Walking

(* ... the words that were written, or that the chip was given, are those  *)
(* of the list, only the control byte changes, ...                         *)
WordsInPlace ==
    /\ \A i \in 1 .. ListLen(request) :
        i # 5 /\ (i <= written \/ Out) => mem[Start + 2 * (i - 1)] = Lists[request][i]
    /\ mem[\h0508] \in {Data, 0, 3, \h0013}
    /\ mem[\h0508] = Data => written < 5 /\ ~Out
    /\ place \notin {"submit", "stray"} => written = ListLen(request)
    /\ place = "stray" => written = 0

(* ... what the chip has fetched is the descriptor it is at, and the       *)
(* keyboard waits for the toggle that this has.                            *)
OnTheList ==
    /\ Walking => cur = Start \/ \E k \in 0 .. Packets(request) : cur = After(k)
    /\ td # <<>> => Walking
    /\ td # <<>> /\ cur = Start => IsFirst(td, request)
    /\ \A k \in 0 .. Packets(request) : cur = After(k) =>
        /\ td # <<>> => IsLater(td, request, k)
        /\ request \in heard
        /\ expects = IF k % 2 = 0 THEN "1" ELSE "0"
    /\ ~askew /\ ~wild

ListsInv == ListsTypeOK /\ WordsInPlace /\ OnTheList

(* Where things are in the memory. *)
LEMMA Geometry ==
    /\ Start \in Int /\ StrayTd \in Int /\ Start # 0 /\ StrayTd # 0 /\ StrayTd # Start
    /\ \A i \in 1 .. 64 : Start + 2 * (i - 1) \in Address
    /\ \A k \in 0 .. 9 : After(k) \in Int /\ After(k) \notin {0, Start, StrayTd}
    /\ \A k \in 0 .. 9 : \A m \in 0 .. 9 : After(k) = After(m) => k = m
    /\ \h0508 \in Address /\ \h0508 = Start + 2 * (5 - 1)
    /\ After(0) = SetupTd
    /\ \A a \in Address : a \in Int
<1>1. ASSUME NEW i \in 1 .. 64
      PROVE  Start + 2 * (i - 1) \in Address
  <2>1. i - 1 \in 0 .. 63
    OBVIOUS
  <2> QED
    BY <2>1 DEF Address
<1>2. \h0508 = Start + 2 * (5 - 1)
  BY DEF Start
<1>3. \h0508 \in Address
  BY <1>1, <1>2
<1>4. \A a \in Address : a \in Int
  BY DEF Address, Start
<1> QED
  BY <1>1, <1>2, <1>3, <1>4 DEF Start, StrayTd, After, SetupTd

(* Nothing is written and nothing is started at first. *)
LEMMA ListsStart == ListsInit => ListsInv
<1> SUFFICES ASSUME ListsInit
             PROVE  ListsInv
  OBVIOUS
<1>1. request \in 1 .. Requests /\ request = 1
  BY DEF ListsInit, SetAddress, Requests
<1>2. Packets(request) \in 0 .. 8 /\ ListLen(request) \in 16 .. 64
  BY <1>1, ListWords
<1>3. ListsTypeOK
  <2>1. mem \in [Address -> Int]
    BY DEF ListsInit, Anything, Data
  <2>2. place = "submit" /\ written = 0 /\ pointer = 0 /\ cur = 0
    BY DEF ListsInit
  <2> QED
    BY <1>1, <1>2, <2>1, <2>2 DEF ListsTypeOK
<1>4. WordsInPlace
  BY <1>2, Geometry DEF ListsInit, WordsInPlace, Anything, Data, Out, Walking
<1>5. OnTheList
  <2>0. cur = 0
    BY DEF ListsInit
  <2>1. \A k \in 0 .. Packets(request) : cur # After(k)
    BY <1>2, <2>0, Geometry
  <2>2. ~Walking /\ td = <<>> /\ ~askew /\ ~wild
    BY DEF ListsInit, Walking
  <2> QED
    BY <2>1, <2>2 DEF OnTheList
<1> QED
  BY <1>3, <1>4, <1>5 DEF ListsInv

(* A word of the list is written. *)
LEMMA WriteWordKeeps ==
    ASSUME ListsInv, WriteWord
    PROVE  ListsInv'
<1> DEFINE n == written + 1
<1>1. request \in 1 .. Requests /\ n \in 1 .. ListLen(request) /\ n \in 1 .. 64
  <2>1. ListLen(request) \in 16 .. 64
    BY ListWords DEF ListsInv, ListsTypeOK
  <2> QED
    BY <2>1 DEF ListsInv, ListsTypeOK, WriteWord
<1>2. Lists[request][n] \in Nat /\ ListLen(request) \in 16 .. 64
  BY <1>1, ListWords
<1>3. Start + 2 * written = Start + 2 * (n - 1)
  <2>1. written \in Nat
    BY <1>1 DEF ListsInv, ListsTypeOK
  <2> QED
    BY <2>1
<1>4. mem' = [mem EXCEPT ![Start + 2 * (n - 1)] = Lists[request][n]]
  BY <1>3 DEF WriteWord
<1>5. /\ UNCHANGED <<place, request, pointer, cur, td, expects, heard, askew, wild>>
      /\ written' = n /\ place = "submit"
  BY DEF WriteWord, messages, walk, keyboard, history
<1>6. mem \in [Address -> Int] /\ Start + 2 * (n - 1) \in Address
  BY <1>1, Geometry DEF ListsInv, ListsTypeOK
<1>7. \A a \in Address : mem'[a] = IF a = Start + 2 * (n - 1) THEN Lists[request][n] ELSE mem[a]
  BY <1>4, <1>6
<1>8. ListsTypeOK'
  BY <1>1, <1>2, <1>4, <1>5, <1>6 DEF ListsInv, ListsTypeOK
<1>9. WordsInPlace'
  <2>1. Out' <=> Out
    BY <1>5 DEF Out, Walking
  <2>2. ASSUME NEW i \in 1 .. ListLen(request), i # 5, i <= n \/ Out
        PROVE  mem'[Start + 2 * (i - 1)] = Lists[request][i]
    <3>1. i \in 1 .. 64 /\ Start + 2 * (i - 1) \in Address
      BY <1>2, Geometry
    <3>2. CASE i = n
      BY <1>7, <3>1, <3>2
    <3>3. CASE i # n
      <4>1. Start + 2 * (i - 1) # Start + 2 * (n - 1)
        BY <1>1, <3>1, <3>3, Geometry
      <4>2. i <= written \/ Out
        BY <1>1, <2>2, <3>1, <3>3 DEF ListsInv, ListsTypeOK
      <4> QED
        BY <1>7, <2>2, <3>1, <4>1, <4>2 DEF ListsInv, WordsInPlace
    <3> QED
      BY <3>2, <3>3
  <2>3. mem'[\h0508] = IF n = 5 THEN \h0013 ELSE mem[\h0508]
    <3>1. \h0508 = Start + 2 * (n - 1) <=> n = 5
      BY <1>1, Geometry
    <3>2. Lists[request][5] = \h0013
      BY <1>1, ListWords, FirstIs
    <3> QED
      BY <1>7, <3>1, <3>2, Geometry
  <2>4. mem'[\h0508] \in {Data, 0, 3, \h0013} /\ (mem'[\h0508] = Data => n < 5 /\ ~Out)
    BY <1>1, <2>3 DEF ListsInv, ListsTypeOK, WordsInPlace, Data
  <2> QED
    BY <1>5, <2>1, <2>2, <2>4 DEF WordsInPlace
<1>10. OnTheList'
  BY <1>5 DEF ListsInv, OnTheList, Walking
<1> QED
  BY <1>8, <1>9, <1>10 DEF ListsInv

(* The other steps of the program. *)
LEMMA ProgramKeeps ==
    ASSUME ListsInv, Program
    PROVE  ListsInv'
<1>0. request \in 1 .. Requests /\ Packets(request) \in 0 .. 8 /\ ListLen(request) \in 16 .. 64
  BY ListWords DEF ListsInv, ListsTypeOK
<1>1. CASE StartList
  <2>1. /\ place' = "flag" /\ written = ListLen(request) /\ pointer' = Start
        /\ UNCHANGED <<mem, request, written, cur, td, expects, heard, askew, wild>>
    BY <1>1 DEF StartList, Goto, keyboard, history
  <2>2. ListsTypeOK'
    BY <2>1 DEF ListsInv, ListsTypeOK
  <2>3. WordsInPlace'
    BY <1>0, <2>1 DEF ListsInv, WordsInPlace
  <2>4. OnTheList'
    BY <2>1 DEF ListsInv, OnTheList, Walking
  <2> QED
    BY <2>2, <2>3, <2>4 DEF ListsInv
<1>2. CASE CheckFlag
  <2>1. /\ place = "flag" /\ UNCHANGED <<mem, request, pointer, cur, td, expects, heard, askew, wild>>
        /\ \/ place' = "message" /\ written' = written
           \/ place' = "submit" /\ written' = 0
    BY <1>2 DEF CheckFlag, walk, keyboard, history
  <2>2. ListsTypeOK'
    BY <1>0, <2>1 DEF ListsInv, ListsTypeOK
  <2>3. WordsInPlace'
    BY <1>0, <2>1 DEF ListsInv, WordsInPlace, Out, Walking
  <2>4. OnTheList'
    BY <2>1 DEF ListsInv, OnTheList, Walking
  <2> QED
    BY <2>2, <2>3, <2>4 DEF ListsInv
<1>3. CASE ReadMessage \/ ClearMessage \/ Refuse
  <2>1. /\ UNCHANGED <<mem, request, written, pointer, cur, td, expects, heard, askew, wild>>
        /\ place \notin {"submit", "stray"} /\ place' \in {"clear", "check", "message", "retry"}
    BY <1>3 DEF ReadMessage, ClearMessage, Refuse, Goto, walk, keyboard, history
  <2>2. ListsTypeOK'
    BY <2>1 DEF ListsInv, ListsTypeOK
  <2>3. WordsInPlace'
    BY <2>1 DEF ListsInv, WordsInPlace, Out, Walking
  <2>4. OnTheList'
    BY <2>1 DEF ListsInv, OnTheList, Walking
  <2> QED
    BY <2>2, <2>3, <2>4 DEF ListsInv
<1>4. CASE Proceed
  <2>1. /\ request' = request + 1 /\ written' = 0 /\ mem' = Anything
        /\ place' \in {"stray", "submit"} /\ pointer' = 0 /\ cur' = 0
        /\ UNCHANGED <<td, askew, wild>> /\ request < Requests /\ cur = 0
        /\ place = "check"
    BY <1>4 DEF Proceed, Busy, walk, history
  <2>2. request' \in 1 .. Requests
    BY <1>0, <2>1 DEF Requests
  <2>3. Packets(request') \in 0 .. 8 /\ ListLen(request') \in 16 .. 64
    BY <2>2, ListWords
  <2>4. ListsTypeOK'
    BY <2>1, <2>2, <2>3 DEF ListsTypeOK, Anything, Data
  <2>5. WordsInPlace'
    BY <2>1, <2>3, Geometry DEF WordsInPlace, Anything, Data, Out, Walking
  <2>6. OnTheList'
    <3>1. \A k \in 0 .. Packets(request') : cur' # After(k)
      BY <2>1, <2>3, Geometry
    <3>2. ~Walking' /\ td' = <<>> /\ ~askew' /\ ~wild'
      BY <2>1 DEF ListsInv, OnTheList, Walking
    <3> QED
      BY <3>1, <3>2 DEF OnTheList
  <2> QED
    BY <2>4, <2>5, <2>6 DEF ListsInv
<1>5. CASE StartStray
  <2>1. /\ place = "stray" /\ place' = "submit" /\ pointer' = StrayTd
        /\ UNCHANGED <<mem, request, written, cur, td, expects, heard, askew, wild>>
    BY <1>5 DEF StartStray, Goto, keyboard, history
  <2>2. ListsTypeOK'
    BY <2>1 DEF ListsInv, ListsTypeOK
  <2>3. WordsInPlace'
    BY <2>1, Geometry DEF ListsInv, WordsInPlace, Out, Walking
  <2>4. OnTheList'
    BY <2>1 DEF ListsInv, OnTheList, Walking
  <2> QED
    BY <2>2, <2>3, <2>4 DEF ListsInv
<1> QED
  BY <1>1, <1>2, <1>3, <1>4, <1>5, WriteWordKeeps DEF Program

-----------------------------------------------------------------------------
(* What the request at hand has: its address, the length of its list. *)
LEMMA AtHand ==
    ASSUME ListsInv
    PROVE  /\ request \in 1 .. Requests /\ Fits(request)
           /\ Packets(request) \in 0 .. 8 /\ Packets(request) \in 0 .. Packets(request)
           /\ ListLen(request) = 16 + 6 * Packets(request) /\ ListLen(request) \in 16 .. 64
           /\ Request[request].dev \in {0, 512} /\ (Request[request].dev = 0 <=> request = 1)
<1>1. request \in 1 .. Requests
  BY DEF ListsInv, ListsTypeOK
<1>2. Fits(request)
  BY <1>1, RequestsFit
<1>3. Packets(request) \in 0 .. 8 /\ ListLen(request) \in 16 .. 64
  BY <1>1, ListWords
<1>4. Request[request].dev = IF request = 1 THEN 0 ELSE 512
  BY <1>2 DEF Fits
<1> QED
  BY <1>1, <1>2, <1>3, <1>4 DEF ListLen

(* The SETUP packet goes through. *)
LEMMA FirstTransact ==
    ASSUME ListsInv, Transact, cur = Start
    PROVE  /\ cur' = After(0) /\ td' = <<>> /\ ~askew' /\ ~wild'
           /\ expects' = "1" /\ heard' = heard \cup {request} /\ has' = has
           /\ (request = 1 <=> 1 \notin has)
           /\ UNCHANGED messages
           /\ mem' = [a \in Address |-> IF a = \h0508 THEN 3 ELSE mem[a]]
<1>1. IsFirst(td, request) /\ ~askew /\ ~wild
  BY DEF ListsInv, OnTheList, Transact
<1>2. td[3] = Request[request].dev + 208 /\ Request[request].dev \in {0, 512}
  BY <1>1, AtHand DEF IsFirst, SetupTo
<1>3. IsSetup /\ ~IsData /\ ~IsStatus
  BY <1>2 DEF IsSetup, IsData, IsStatus, SetupTo, InFrom
<1>4. td[1] = \h050C /\ td[2] = 8 /\ td[4] = DATA0 /\ td[6] = After(0) /\ After(0) # 0
  BY <1>1, Geometry DEF IsFirst
<1>5. Data \notin {td[1], td[2], td[3], td[4]}
  BY <1>2, <1>4 DEF Data, DATA0
<1>6. Right
  BY <1>3, <1>4 DEF Right
<1>7. Heard
  BY DEF Transact
<1>8. ~askew' /\ ~wild' /\ expects' = "1" /\ heard' = heard \cup {request} /\ has' = has
  BY <1>1, <1>3, <1>5, <1>6, <1>7 DEF Heard
<1>9. request = 1 <=> 1 \notin has
  <2>1. AnswersTo
    BY DEF Transact
  <2>2. Request[request].dev = 0 <=> 1 \notin has
    BY <1>2, <2>1 DEF AnswersTo, SetAddress, SetupTo, InFrom, OutTo
  <2> QED
    BY <2>2, AtHand
<1>10. Received = {}
  BY <1>3 DEF Received
<1> QED
  BY <1>4, <1>8, <1>9, <1>10 DEF Transact

(* A data packet goes through: its buffer is behind the list. *)
LEMMA PacketTransact ==
    ASSUME ListsInv, Transact, NEW k \in 0 .. Packets(request), k < Packets(request), cur = After(k)
    PROVE  /\ cur' = After(k + 1) /\ td' = <<>> /\ ~askew' /\ ~wild'
           /\ expects' = IF k % 2 = 0 THEN "0" ELSE "1"
           /\ heard' = heard /\ has' = has
           /\ UNCHANGED messages
           /\ mem' \in [Address -> Int]
           /\ \A a \in Address : a < Start + 2 * ListLen(request) => mem'[a] = mem[a]
<1>0. k \in Nat /\ cur # Start /\ k + 1 \in 0 .. 9
  <2>1. k \in 0 .. 9 /\ k + 1 \in 0 .. 9
    BY AtHand
  <2> QED
    BY <2>1, Geometry
<1>1. IsPacket(td, request, k) /\ ~askew /\ ~wild /\ expects = IF k % 2 = 0 THEN "1" ELSE "0"
  BY DEF ListsInv, OnTheList, Transact, IsLater
<1>2. td[3] = Request[request].dev + 144 /\ Request[request].dev \in {0, 512}
  BY <1>1, AtHand DEF IsPacket, InFrom
<1>3. /\ td[1] \in Int /\ td[1] >= Start + 2 * ListLen(request) /\ td[2] \in 1 .. 8
      /\ td[4] = IF k % 2 = 0 THEN DATA1 ELSE DATA0
      /\ td[6] = After(k + 1) /\ After(k + 1) # 0
  <2>1. Buffer(td, Packets(request)) /\ td[4] = IF k % 2 = 0 THEN DATA1 ELSE DATA0
    BY <1>1 DEF IsPacket
  <2>2. td[6] = After(k + 1) /\ After(k + 1) # 0
    BY <1>0, <1>1, Geometry DEF IsPacket
  <2>3. \h0520 + 12 * Packets(request) = Start + 2 * ListLen(request)
    BY AtHand DEF Start
  <2> QED
    BY <2>1, <2>2, <2>3 DEF Buffer
<1>4. ~IsSetup /\ IsData /\ ~IsStatus
  BY <1>2, <1>3 DEF IsSetup, IsData, IsStatus, SetupTo, InFrom
<1>5. Data \notin {td[1], td[2], td[3], td[4]}
  <2>1. td[1] > 0
    BY <1>3, AtHand DEF Start
  <2> QED
    BY <1>2, <1>3, <2>1 DEF Data, DATA0, DATA1
<1>6. Right
  BY <1>1, <1>3, <1>4 DEF Right
<1>7. ~askew' /\ ~wild' /\ heard' = heard /\ has' = has /\ expects' = IF k % 2 = 0 THEN "0" ELSE "1"
  BY <1>1, <1>4, <1>5, <1>6 DEF Transact, Heard
<1>8. mem' = [a \in Address |-> IF a \in Received THEN Data ELSE mem[a]]
  BY <1>0 DEF Transact
<1>9. mem' \in [Address -> Int]
  BY <1>8 DEF ListsInv, ListsTypeOK, Data
<1>10. ASSUME NEW a \in Address, a < Start + 2 * ListLen(request)
       PROVE  mem'[a] = mem[a]
  <2>1. a \notin Received
    <3>1. a \in Int /\ Start + 2 * ListLen(request) \in Int
      BY AtHand, Geometry
    <3>2. ~(a >= td[1])
      BY <1>3, <1>10, <3>1
    <3> QED
      BY <3>2 DEF Received
  <2> QED
    BY <1>8, <2>1
<1> QED
  BY <1>3, <1>7, <1>9, <1>10 DEF Transact

(* The status stage goes through, and the list is done. *)
LEMMA LastTransact ==
    ASSUME ListsInv, Transact, cur = After(Packets(request))
    PROVE  /\ cur' = 0 /\ td' = <<>> /\ ~askew' /\ ~wild'
           /\ request \in heard /\ heard' = heard
           /\ has' = has \cup ({request} \cap {SetAddress, SetConfig})
           /\ (request = 1 <=> 1 \notin has)
           /\ Message
           /\ mem' = mem
<1> DEFINE k == Packets(request)
<1>0. k \in 0 .. Packets(request) /\ cur # Start
  <2>1. k \in 0 .. 9 /\ k \in 0 .. Packets(request)
    BY AtHand
  <2> QED
    BY <2>1, Geometry
<1>1. /\ IsLast(td, request) /\ ~askew /\ ~wild /\ expects \in {"0", "1"} /\ request \in heard
  BY <1>0, AtHand DEF ListsInv, OnTheList, Transact, IsLater
<1>2. /\ td[3] \in {Request[request].dev + 144, Request[request].dev + 16}
      /\ Request[request].dev \in {0, 512}
  BY <1>1, AtHand DEF IsLast, InFrom, OutTo
<1>3. td[1] = 0 /\ td[2] = 0 /\ td[4] = DATA1 /\ td[6] = 0
  BY <1>1 DEF IsLast
<1>4. ~IsSetup /\ ~IsData /\ IsStatus
  BY <1>2, <1>3 DEF IsSetup, IsData, IsStatus, SetupTo, InFrom
<1>5. Data \notin {td[1], td[2], td[3], td[4]}
  BY <1>2, <1>3 DEF Data, DATA1
<1>6. Right
  BY <1>1, <1>3, <1>4 DEF Right
<1>7. /\ ~askew' /\ ~wild' /\ heard' = heard
      /\ has' = has \cup ({request} \cap {SetAddress, SetConfig})
  BY <1>1, <1>4, <1>5, <1>6 DEF Transact, Heard
<1>8. request = 1 <=> 1 \notin has
  <2>1. AnswersTo
    BY DEF Transact
  <2>2. Request[request].dev = 0 <=> 1 \notin has
    BY <1>2, <2>1 DEF AnswersTo, SetAddress, SetupTo, InFrom, OutTo
  <2> QED
    BY <2>2, AtHand
<1>9. mem' = [a \in Address |-> mem[a]]
  BY <1>0, <1>4 DEF Transact, Received
<1>10. mem' = mem
  BY <1>9 DEF ListsInv, ListsTypeOK
<1> QED
  BY <1>1, <1>3, <1>7, <1>8, <1>10 DEF Transact

(* A transaction, good or given up. *)
LEMMA TransactKeeps ==
    ASSUME ListsInv, Transact \/ GiveUp
    PROVE  ListsInv'
<1>0. /\ UNCHANGED <<place, request, written, pointer>> /\ td' = <<>> /\ Walking
      /\ mem \in [Address -> Int]
  BY DEF Transact, GiveUp, steps, ListsInv, OnTheList, ListsTypeOK
<1>1. ASSUME mem' \in [Address -> Int], cur' \in Int, Out' => Out,
             mem'[\h0508] \in {mem[\h0508], 0, 3},
             \A i \in 1 .. ListLen(request) :
                i # 5 => mem'[Start + 2 * (i - 1)] = mem[Start + 2 * (i - 1)]
      PROVE  ListsTypeOK' /\ WordsInPlace'
  <2>1. ListsTypeOK'
    BY <1>0, <1>1 DEF ListsInv, ListsTypeOK
  <2>2. mem'[\h0508] \in {Data, 0, 3, \h0013} /\ (mem'[\h0508] = Data => mem[\h0508] = Data)
    BY <1>1 DEF ListsInv, WordsInPlace, Data
  <2> QED
    BY <1>0, <1>1, <2>1, <2>2 DEF ListsInv, WordsInPlace
<1>2. ASSUME mem' = [a \in Address |-> IF a = \h0508 THEN mem'[\h0508] ELSE mem[a]]
      PROVE  \A i \in 1 .. ListLen(request) :
                i # 5 => mem'[Start + 2 * (i - 1)] = mem[Start + 2 * (i - 1)]
  <2> TAKE i \in 1 .. ListLen(request)
  <2>1. i \in 1 .. 64 /\ Start + 2 * (i - 1) \in Address
    BY AtHand, Geometry
  <2>2. Start + 2 * (i - 1) = \h0508 => i = 5
    BY <2>1, Geometry
  <2>3. mem'[Start + 2 * (i - 1)] =
          IF Start + 2 * (i - 1) = \h0508 THEN mem'[\h0508] ELSE mem[Start + 2 * (i - 1)]
    BY <1>2, <2>1
  <2> QED
    BY <2>2, <2>3
<1>3. CASE Transact /\ cur = Start
  <2>1. /\ cur' = After(0) /\ ~askew' /\ ~wild' /\ expects' = "1" /\ heard' = heard \cup {request}
        /\ mem' = [a \in Address |-> IF a = \h0508 THEN 3 ELSE mem[a]]
    BY <1>3, FirstTransact
  <2>2. mem'[\h0508] = 3 /\ mem' \in [Address -> Int]
    BY <1>0, <2>1, Geometry
  <2>10. Out /\ cur' \in Int
    BY <1>0, <2>1, Geometry DEF Out
  <2>11. mem' = [a \in Address |-> IF a = \h0508 THEN mem'[\h0508] ELSE mem[a]]
    BY <2>1, <2>2
  <2>3. ListsTypeOK' /\ WordsInPlace'
    BY <1>1, <1>2, <2>10, <2>11, <2>2
  <2>4. \A m \in 0 .. Packets(request) : After(m) = After(0) => m = 0
    BY AtHand, Geometry
  <2>5. \A m \in 0 .. Packets(request) : cur' = After(m) => m % 2 = 0
    BY <2>1, <2>4
  <2>6. 0 \in 0 .. Packets(request)
    BY AtHand
  <2>7. OnTheList'
    BY <1>0, <2>1, <2>5, <2>6 DEF OnTheList
  <2> QED
    BY <2>3, <2>7 DEF ListsInv
<1>4. ASSUME NEW k \in 0 .. Packets(request), k < Packets(request), cur = After(k), Transact
      PROVE  ListsInv'
  <2>0. k \in 0 .. 8 /\ k + 1 \in 0 .. 9 /\ k + 1 \in 0 .. Packets(request)
    BY <1>4, AtHand
  <2>1. /\ cur' = After(k + 1) /\ ~askew' /\ ~wild' /\ heard' = heard /\ mem' \in [Address -> Int]
        /\ expects' = IF k % 2 = 0 THEN "0" ELSE "1"
        /\ \A a \in Address : a < Start + 2 * ListLen(request) => mem'[a] = mem[a]
    BY <1>4, PacketTransact
  <2>2. \A i \in 1 .. ListLen(request) : mem'[Start + 2 * (i - 1)] = mem[Start + 2 * (i - 1)]
    <3> TAKE i \in 1 .. ListLen(request)
    <3>1. i \in 1 .. 64 /\ Start + 2 * (i - 1) \in Address
      BY AtHand, Geometry
    <3>2. Start + 2 * (i - 1) < Start + 2 * ListLen(request)
      BY <3>1, AtHand, Geometry
    <3> QED
      BY <2>1, <3>1, <3>2
  <2>3. mem'[\h0508] = mem[\h0508]
    BY <2>2, AtHand, Geometry
  <2>9. After(k + 1) \in Int
    BY <2>0, Geometry
  <2>10. Out /\ cur' \in Int
    BY <1>0, <2>1, <2>9 DEF Out
  <2>4. ListsTypeOK' /\ WordsInPlace'
    BY <1>1, <2>10, <2>1, <2>2, <2>3
  <2>5. request \in heard
    BY <1>4 DEF ListsInv, OnTheList
  <2>6. expects' = IF (k + 1) % 2 = 0 THEN "1" ELSE "0"
    BY <2>0, <2>1
  <2>7. \A m \in 0 .. Packets(request) : cur' = After(m) => m = k + 1
    BY <2>0, <2>1, AtHand, Geometry
  <2>8. OnTheList'
    BY <1>0, <2>0, <2>1, <2>5, <2>6, <2>7, Geometry DEF OnTheList
  <2> QED
    BY <2>4, <2>8 DEF ListsInv
<1>5. ASSUME cur' = 0, ~askew', ~wild', mem' \in [Address -> Int],
             mem'[\h0508] \in {mem[\h0508], 0, 3},
             \A i \in 1 .. ListLen(request) :
                i # 5 => mem'[Start + 2 * (i - 1)] = mem[Start + 2 * (i - 1)]
      PROVE  ListsInv'
  <2>1. ~Walking' /\ (Out' => Out)
    BY <1>0, <1>5 DEF Walking, Out
  <2>2. ListsTypeOK' /\ WordsInPlace'
    BY <1>1, <1>5, <2>1
  <2>3. \A m \in 0 .. Packets(request') : cur' # After(m)
    <3>1. \A m \in 0 .. Packets(request) : After(m) # 0
      BY AtHand, Geometry
    <3>2. request' = request
      BY <1>0
    <3> QED
      BY <1>5, <3>1, <3>2
  <2> QED
    BY <1>0, <1>5, <2>1, <2>2, <2>3 DEF ListsInv, OnTheList
<1>6. CASE Transact /\ cur = After(Packets(request))
  BY <1>0, <1>5, <1>6, LastTransact
<1>7. CASE GiveUp
  <2>1. cur' = 0 /\ ~askew' /\ ~wild'
    BY <1>7 DEF GiveUp, history, ListsInv, OnTheList
  <2>2. CASE cur = Start
    <3>1. mem' = [mem EXCEPT ![\h0508] = 0]
      BY <1>7, <2>2 DEF GiveUp
    <3>10. \h0508 \in Address
      BY Geometry
    <3>11. mem' = [a \in Address |-> IF a = \h0508 THEN 0 ELSE mem[a]]
      <4>1. DOMAIN mem = Address /\ mem = [a \in Address |-> mem[a]]
        BY <1>0
      <4>2. DOMAIN mem' = Address /\ mem' = [a \in Address |-> mem'[a]]
        BY <3>1, <4>1
      <4>3. \A a \in Address : mem'[a] = IF a = \h0508 THEN 0 ELSE mem[a]
        BY <3>1, <4>1
      <4> QED
        BY <4>2, <4>3
    <3>2. mem'[\h0508] = 0 /\ mem' = [a \in Address |-> IF a = \h0508 THEN mem'[\h0508] ELSE mem[a]]
          /\ mem' \in [Address -> Int]
      BY <1>0, <3>10, <3>11
    <3> QED
      BY <1>2, <1>5, <2>1, <3>2
  <2>3. CASE cur # Start
    <3>1. mem' = mem
      BY <1>7, <2>3 DEF GiveUp
    <3> QED
      BY <1>0, <1>5, <2>1, <3>1
  <2> QED
    BY <2>2, <2>3
<1> QED
  <2>1. cur = Start \/ \E k \in 0 .. Packets(request) : cur = After(k)
    BY <1>0 DEF ListsInv, OnTheList
  <2>2. ASSUME NEW k \in 0 .. Packets(request)
        PROVE  k < Packets(request) \/ k = Packets(request)
    BY AtHand
  <2> QED
    BY <1>3, <1>4, <1>6, <1>7, <2>1, <2>2

(* The rest of the chip: the pointer, a descriptor, the end of the stray. *)
LEMMA ChipKeeps ==
    ASSUME ListsInv, TakePointer \/ Fetch \/ EndStray
    PROVE  ListsInv'
<1>1. CASE TakePointer
  <2>1. /\ cur = 0 /\ pointer \in {Start, StrayTd} /\ cur' = pointer /\ pointer' = 0
        /\ UNCHANGED <<mem, place, request, written, td, expects, heard, askew, wild>>
    BY <1>1 DEF TakePointer, steps, keyboard, history, ListsInv, ListsTypeOK
  <2>2. td = <<>>
    BY <2>1 DEF ListsInv, OnTheList, Walking
  <2>3. Out' => Out
    BY <2>1, Geometry DEF Out, Walking
  <2>4. ListsTypeOK'
    BY <2>1, Geometry DEF ListsInv, ListsTypeOK
  <2>5. WordsInPlace'
    BY <2>1, <2>3 DEF ListsInv, WordsInPlace
  <2>6. \A m \in 0 .. Packets(request) : cur' # After(m)
    BY <2>1, AtHand, Geometry
  <2>7. OnTheList'
    BY <2>1, <2>2, <2>6 DEF ListsInv, OnTheList, Walking
  <2> QED
    BY <2>4, <2>5, <2>7 DEF ListsInv
<1>2. CASE Fetch
  <2>1. /\ Walking /\ td' = [i \in 1 .. 6 |-> mem[cur + 2 * (i - 1)]]
        /\ UNCHANGED <<mem, place, request, written, pointer, cur, expects, heard, askew, wild>>
    BY <1>2 DEF Fetch, steps, keyboard, history
  <2>2. \A i \in 1 .. ListLen(request) :
            i # 5 => mem[Start + 2 * (i - 1)] = Lists[request][i]
    BY <2>1 DEF ListsInv, WordsInPlace, Out
  <2>3. ASSUME cur = Start
        PROVE  IsFirst(td', request)
    <3>1. ASSUME NEW i \in 1 .. 6, i # 5
          PROVE  td'[i] = SetupTD(request)[i]
      <4>1. i \in 1 .. ListLen(request)
        BY AtHand
      <4>2. td'[i] = mem[Start + 2 * (i - 1)]
        BY <2>1, <2>3
      <4> QED
        BY <2>2, <3>1, <4>1, <4>2, AtHand, ListWords
    <3>2. td'[1] = SetupTD(request)[1] /\ td'[2] = SetupTD(request)[2]
          /\ td'[3] = SetupTD(request)[3] /\ td'[4] = SetupTD(request)[4]
          /\ td'[6] = SetupTD(request)[6]
      BY <3>1
    <3> QED
      BY <3>2, AtHand, FirstIs DEF IsFirst
  <2>4. ASSUME NEW k \in 0 .. Packets(request), cur = After(k)
        PROVE  IsLater(td', request, k)
    <3>1. ASSUME NEW j \in 1 .. 6
          PROVE  td'[j] = Later(request, k)[j]
      <4>1. 10 + 6 * k + j \in 1 .. ListLen(request) /\ 10 + 6 * k + j # 5
        BY AtHand
      <4>2. cur + 2 * (j - 1) = Start + 2 * ((10 + 6 * k + j) - 1)
        BY <2>4, AtHand DEF After, SetupTd, Start
      <4>3. td'[j] = mem[Start + 2 * ((10 + 6 * k + j) - 1)]
        BY <2>1, <4>2
      <4> QED
        BY <2>2, <4>1, <4>3, AtHand, ListWords
    <3>2. td'[1] = Later(request, k)[1] /\ td'[2] = Later(request, k)[2]
          /\ td'[3] = Later(request, k)[3] /\ td'[4] = Later(request, k)[4]
          /\ td'[6] = Later(request, k)[6]
      BY <3>1
    <3> QED
      BY <3>2, AtHand, LaterIs DEF IsLater, IsPacket, IsLast, Buffer
  <2>5. ListsTypeOK' /\ WordsInPlace'
    BY <2>1 DEF ListsInv, ListsTypeOK, WordsInPlace, Out, Walking
  <2>6. OnTheList'
    BY <2>1, <2>3, <2>4 DEF ListsInv, OnTheList, Walking
  <2> QED
    BY <2>5, <2>6 DEF ListsInv
<1>3. CASE EndStray
  <2>1. /\ cur = StrayTd /\ cur' = 0
        /\ UNCHANGED <<mem, place, request, written, pointer, td, expects, heard, askew, wild>>
    BY <1>3 DEF EndStray, steps, keyboard, history
  <2>2. td = <<>> /\ ~Walking'
    BY <2>1 DEF ListsInv, OnTheList, Walking
  <2>3. Out' => Out
    BY <2>1, <2>2 DEF Out
  <2>4. ListsTypeOK' /\ WordsInPlace'
    BY <2>1, <2>3 DEF ListsInv, ListsTypeOK, WordsInPlace
  <2>5. \A m \in 0 .. Packets(request) : cur' # After(m)
    BY <2>1, AtHand, Geometry
  <2>6. OnTheList'
    BY <2>1, <2>2, <2>5 DEF ListsInv, OnTheList
  <2> QED
    BY <2>4, <2>6 DEF ListsInv
<1> QED
  BY <1>1, <1>2, <1>3

(* One step for each side of the bus. *)
LEMMA ListsStep ==
    ASSUME ListsInv, [ListsNext]_lvars
    PROVE  ListsInv'
<1>1. CASE UNCHANGED lvars
  <2>1. UNCHANGED <<mem, place, request, written, got, msg, flag, pointer, cur, td, expects,
                    heard, has, askew, wild>>
    BY <1>1 DEF lvars, steps, messages, walk, keyboard, history
  <2>2. Out' = Out /\ Walking' = Walking
    BY <2>1 DEF Out, Walking
  <2>3. ListsTypeOK' /\ WordsInPlace'
    BY <2>1, <2>2 DEF ListsInv, ListsTypeOK, WordsInPlace
  <2>4. OnTheList'
    BY <2>1, <2>2 DEF ListsInv, OnTheList
  <2> QED
    BY <2>3, <2>4 DEF ListsInv
<1> QED
  BY <1>1, ProgramKeeps, TransactKeeps, ChipKeeps DEF ListsNext

(* The memory, the program and the chip always fit together. *)
LEMMA ListsInvariant == ListsSpec => []ListsInv
BY ListsStart, ListsStep, PTL DEF ListsSpec

(* Submitting a request again (the loops of main.c around each wait for    *)
(* the message) does no harm: the descriptors the chip fetches are whole,  *)
(* and every packet is the one the keyboard waits for.                     *)
THEOREM SubmittedAgain == ListsSpec => []AgainIsHarmless
<1>1. ListsInv => AgainIsHarmless
  <2> SUFFICES ASSUME ListsInv
               PROVE  AgainIsHarmless
    OBVIOUS
  <2>1. Walking => cur = Start \/ \E k \in 0 .. Packets(request) : cur = After(k)
    BY DEF ListsInv, OnTheList
  <2>2. 0 \in 0 .. Packets(request)
    BY AtHand
  <2> QED
    BY <2>1, <2>2 DEF ListsInv, OnTheList, AgainIsHarmless
<1> QED
  BY <1>1, ListsInvariant, PTL

-----------------------------------------------------------------------------
(* What UsbKeyboard sees of the state. *)
Begun == cur \notin {0, Start, StrayTd}
Seen == <<AsPlace, AsList, AsStarted, AsRunning, Begun, request, got, msg, flag, heard, has>>

(* The other variables of UsbKeyboard are constants here. *)
LEMMA SeenIsAll == UNCHANGED Seen => UNCHANGED Driver!dvars
BY DEF Seen, Begun, Driver!dvars, Driver!usbvars, Driver!chip, Driver!messages, Driver!transfer,
   Driver!keyboard, Driver!driver, Driver!history

(* Once the control byte is written the list is that of the request. *)
LEMMA ListAtHand ==
    ASSUME ListsInv
    PROVE  /\ mem[\h0508] # Data =>
                AsList = [req |-> request, ctl |-> IF mem[\h0508] = 3 THEN "ok"
                                                   ELSE IF mem[\h0508] = \h0013 THEN "active" ELSE "error"]
           /\ Out \/ place \notin {"submit", "stray"} => mem[\h0508] # Data
BY AtHand DEF ListsInv, WordsInPlace, AsList

(* A word of the list: the fifth is Submit, the others are not seen. *)
LEMMA WriteWordRefines ==
    ASSUME ListsInv, WriteWord
    PROVE  Driver!Submit \/ UNCHANGED Seen
<1> DEFINE n == written + 1
<1>0. written \in Nat /\ ListsInv'
  BY AtHand, WriteWordKeeps DEF ListsInv, ListsTypeOK
<1>1. /\ UNCHANGED <<place, request, got, msg, flag, pointer, cur, heard, has>>
      /\ written' = n /\ place = "submit"
  BY DEF WriteWord, messages, walk, keyboard
<1>2. UNCHANGED <<AsStarted, AsRunning, Begun>>
  BY <1>1 DEF AsStarted, AsRunning, Begun
<1>3. mem'[\h0508] = IF n = 5 THEN \h0013 ELSE mem[\h0508]
  <2>1. n \in 1 .. 64 /\ mem \in [Address -> Int] /\ Start + 2 * written = Start + 2 * (n - 1)
    BY <1>0, AtHand DEF WriteWord, ListsInv, ListsTypeOK
  <2>2. mem'[\h0508] = IF \h0508 = Start + 2 * (n - 1) THEN Lists[request][n] ELSE mem[\h0508]
    BY <2>1, Geometry DEF WriteWord
  <2>3. \h0508 = Start + 2 * (n - 1) <=> n = 5
    BY <2>1, Geometry
  <2>4. Lists[request][5] = \h0013
    BY AtHand, ListWords, FirstIs
  <2> QED
    BY <2>2, <2>3, <2>4
<1>4. CASE n = 5
  <2>1. AsPlace = "submit" /\ AsPlace' = "start"
    BY <1>0, <1>1, <1>4 DEF AsPlace
  <2>2. AsList' = [req |-> request, ctl |-> "active"]
    BY <1>1, <1>3, <1>4 DEF AsList, Data
  <2>3. ~Driver!Overtakes
    <3>1. CASE mem[\h0508] = Data
      <4>1. ~Out
        BY <3>1, ListAtHand
      <4>2. AsStarted # "list"
        BY <4>1, Geometry DEF AsStarted, Out, ListsInv, ListsTypeOK
      <4>3. ~Driver!Walking
        BY <4>1 DEF Driver!Walking, Driver!Poll, AsRunning, Requests, Out, Walking
      <4> QED
        BY <4>2, <4>3 DEF Driver!Overtakes
    <3>2. CASE mem[\h0508] # Data
      <4>1. AsList.req = request
        BY <3>2, ListAtHand
      <4> QED
        BY <4>1 DEF Driver!Overtakes
    <3> QED
      BY <3>1, <3>2
  <2> QED
    BY <1>1, <1>2, <2>1, <2>2, <2>3
       DEF Driver!Submit, Driver!Goto, Driver!chip, Driver!messages, Driver!keyboard, Begun
<1>5. CASE n # 5
  <2>1. AsPlace' = AsPlace
    BY <1>0, <1>1, <1>5 DEF AsPlace
  <2>2. AsList' = AsList
    BY <1>1, <1>3, <1>5 DEF AsList
  <2> QED
    BY <1>1, <1>2, <2>1, <2>2 DEF Seen
<1> QED
  BY <1>4, <1>5

(* The other steps of the program are those of UsbKeyboard. *)
LEMMA ProgramRefines ==
    ASSUME ListsInv, Program
    PROVE  Driver!Driver \/ UNCHANGED Seen
<1> USE DEF Driver!usbvars, Driver!chip, Driver!messages, Driver!transfer, Driver!keyboard,
        Driver!history, Driver!Goto
<1>0. mem[\h0508] # Data => AsList.req = request
  BY ListAtHand
<1>1. CASE WriteWord
  BY <1>1, WriteWordRefines DEF Driver!Driver
<1>2. CASE StartList
  <2>1. /\ place = "submit" /\ place' = "flag" /\ written = ListLen(request) /\ pointer' = Start
        /\ UNCHANGED <<mem, request, got, msg, flag, cur, heard, has>>
    BY <1>2 DEF StartList, Goto, messages, keyboard
  <2>2. AsPlace = "start" /\ AsPlace' = "flag"
    BY <2>1, AtHand DEF AsPlace
  <2>3. AsStarted' = "list" /\ UNCHANGED <<AsList, AsRunning, Begun>>
    BY <2>1, Geometry DEF AsStarted, AsList, AsRunning, Begun
  <2>4. Driver!Start
    BY <2>1, <2>2, <2>3 DEF Driver!Start, Begun
  <2> QED
    BY <2>4 DEF Driver!Driver
<1>3. CASE CheckFlag
  <2>1. /\ place = "flag" /\ place' = (IF flag THEN "message" ELSE "submit")
        /\ place' = "submit" => written' = 0
        /\ UNCHANGED <<mem, request, got, msg, flag, pointer, cur, heard, has>>
    BY <1>3 DEF CheckFlag, messages, walk, keyboard
  <2>2. AsPlace = "flag" /\ AsPlace' = place' /\ UNCHANGED <<AsList, AsStarted, AsRunning, Begun>>
    BY <2>1 DEF AsPlace, AsList, AsStarted, AsRunning, Begun
  <2>3. Driver!CheckFlag
    BY <2>1, <2>2 DEF Driver!CheckFlag, Begun
  <2> QED
    BY <2>3 DEF Driver!Driver
<1>4. CASE ReadMessage \/ ClearMessage \/ Refuse
  <2>1. /\ UNCHANGED <<mem, request, pointer, cur, heard, has>>
        /\ place \in {"message", "clear", "check"} /\ place' # "submit"
    BY <1>4 DEF ReadMessage, ClearMessage, Refuse, Goto, walk, keyboard
  <2>2. /\ AsPlace = place /\ AsPlace' = place'
        /\ UNCHANGED <<AsList, AsStarted, AsRunning, Begun>>
    BY <2>1 DEF AsPlace, AsList, AsStarted, AsRunning, Begun
  <2>3. ReadMessage => Driver!ReadMessage
    BY <2>1, <2>2 DEF ReadMessage, Goto, Driver!ReadMessage, Begun
  <2>4. ClearMessage => Driver!ClearMessage
    <3>1. request # Driver!Poll
      BY AtHand DEF Driver!Poll, Requests
    <3> QED
      BY <2>1, <2>2, <3>1 DEF ClearMessage, Driver!ClearMessage, Begun
  <2>5. Refuse => Driver!Refuse
    <3>1. ASSUME Refuse
          PROVE  AsList.ctl # "ok"
      BY <2>1, <3>1, ListAtHand DEF Refuse, Goto, Accepted
    <3> QED
      BY <2>1, <2>2, <3>1 DEF Refuse, Goto, messages, Driver!Refuse, Driver!Accepted, Begun
  <2> QED
    BY <1>4, <2>3, <2>4, <2>5 DEF Driver!Driver
<1>5. CASE Proceed
  <2>1. /\ place = "check" /\ mem[\h0508] = 3 /\ pointer = 0 /\ cur = 0
        /\ request' = request + 1 /\ written' = 0 /\ mem' = Anything
        /\ place' = (IF request + 1 = SetConfig THEN "stray" ELSE "submit")
        /\ UNCHANGED <<got, msg, flag, pointer, cur, heard, has>>
    BY <1>5 DEF Proceed, Accepted, Busy, messages, walk, keyboard
  <2>2. AsList = [req |-> request, ctl |-> "ok"]
    BY <2>1 DEF AsList, Data
  <2>3. AsList' = [req |-> request, ctl |-> "ok"]
    <3>1. mem'[\h0508] = Data
      BY <2>1, Geometry DEF Anything
    <3>2. request' # SetAddress /\ request' - 1 = request
      BY <2>1, AtHand DEF SetAddress
    <3> QED
      BY <3>1, <3>2 DEF AsList
  <2>4. /\ AsPlace = "check" /\ AsPlace' = place'
        /\ UNCHANGED <<AsStarted, AsRunning, Begun>>
    BY <2>1 DEF AsPlace, AsStarted, AsRunning, Begun
  <2>5. Driver!Proceed
    BY <2>1, <2>2, <2>3, <2>4 DEF Driver!Proceed, Driver!Accepted, Begun
  <2> QED
    BY <2>5 DEF Driver!Driver
<1>6. CASE StartStray
  <2>1. /\ place = "stray" /\ place' = "submit" /\ pointer' = StrayTd
        /\ UNCHANGED <<mem, request, written, got, msg, flag, cur, heard, has>>
    BY <1>6 DEF StartStray, Goto, messages, keyboard
  <2>2. AsStarted' = "stray" /\ UNCHANGED <<AsList, AsRunning, Begun>>
    BY <2>1, Geometry DEF AsStarted, AsList, AsRunning, Begun
  <2>3. AsPlace = "stray" /\ AsPlace' = "submit"
    BY <2>1 DEF AsPlace, ListsInv, WordsInPlace
  <2>4. Driver!StartStray
    BY <2>1, <2>2, <2>3 DEF Driver!StartStray, Begun
  <2> QED
    BY <2>4 DEF Driver!Driver
<1> QED
  BY <1>1, <1>2, <1>3, <1>4, <1>5, <1>6 DEF Program

(* What a list does in UsbKeyboard, for a list of the enumeration. *)
LEMMA AtWorkOnIt ==
    ASSUME ListsInv, Walking
    PROVE  /\ Driver!AtWork /\ AsRunning = request /\ Driver!Walking
           /\ request \in 1 .. Requests /\ request # Driver!Poll
           /\ AsList.req = request
           /\ \A c \in {"ok", "error"} :
                [AsList EXCEPT !.ctl = c] = [req |-> request, ctl |-> c]
<1>1. AsRunning = request
  BY DEF AsRunning, Walking
<1>2. request \in 1 .. Requests
  BY AtHand
<1>3. Driver!Poll = 10
  BY DEF Driver!Poll, Requests
<1>4. mem[\h0508] # Data
  BY ListAtHand DEF Out
<1>5. ASSUME NEW c \in {"ok", "error"}
      PROVE  [AsList EXCEPT !.ctl = c] = [req |-> request, ctl |-> c]
  BY <1>4, ListAtHand
<1> QED
  BY <1>1, <1>2, <1>3, <1>4, <1>5, ListAtHand DEF Driver!Walking, Driver!AtWork, Requests

(* A keyboard with an address hears the requests after the first. *)
LEMMA AnswersHere ==
    ASSUME ListsInv, request = 1 <=> 1 \notin has
    PROVE  Driver!Answers(request)
<1>1. CASE request = 1
  BY <1>1 DEF Driver!Answers, SetAddress
<1>2. CASE request # 1
  <2>1. request # SetAddress /\ request \in 2 .. Requests /\ request # Driver!Poll
    BY <1>2, AtHand DEF SetAddress, Requests, Driver!Poll
  <2>2. SetAddress \in has
    BY <1>2 DEF SetAddress
  <2> QED
    BY <2>1, <2>2 DEF Driver!Answers
<1> QED
  BY <1>1, <1>2

(* The chip's steps: the SETUP packet, the end of a list, a descriptor or  *)
(* a data packet that is not seen.                                         *)
LEMMA ChipRefines ==
    ASSUME ListsInv, TakePointer \/ Fetch \/ Transact \/ GiveUp \/ EndStray
    PROVE  Driver!Beside(Driver!Surroundings) \/ UNCHANGED Seen
<1> USE DEF Driver!chip, Driver!messages, Driver!transfer, Driver!keyboard, Driver!driver
<1>0. UNCHANGED <<place, request, written, got>> /\ UNCHANGED AsPlace
  BY DEF TakePointer, Fetch, Transact, GiveUp, EndStray, steps, AsPlace
<1>1. ASSUME Driver!Take \/ Driver!Hear \/ Driver!Serve \/ Driver!Fail \/ Driver!Stray
      PROVE  Driver!Beside(Driver!Surroundings)
  BY <1>0, <1>1 DEF Driver!Beside, Driver!Surroundings
<1>2. CASE TakePointer
  <2>1. /\ cur = 0 /\ pointer \in {Start, StrayTd} /\ cur' = pointer /\ pointer' = 0
        /\ UNCHANGED <<mem, msg, flag, heard, has>>
    BY <1>2 DEF TakePointer, messages, keyboard, ListsInv, ListsTypeOK
  <2>2. AsStarted = (IF pointer = Start THEN "list" ELSE "stray") /\ AsStarted' = "none"
    BY <2>1, Geometry DEF AsStarted
  <2>3. /\ AsRunning = 0 /\ AsRunning' = IF pointer = Start THEN request ELSE Requests + 2
        /\ ~Begun /\ ~Begun'
    BY <1>0, <2>1, Geometry DEF AsRunning, Begun
  <2>4. pointer = Start => AsList.req = request
    BY ListAtHand DEF Out
  <2>5. UNCHANGED AsList
    BY <1>0, <2>1 DEF AsList
  <2>6. Driver!Take
    BY <2>1, <2>2, <2>3, <2>4, <2>5
       DEF Driver!Take, Driver!AtWork, Driver!Nothing, Driver!StrayList, Driver!Poll, Requests, Begun
  <2> QED
    BY <1>1, <2>6
<1>3. CASE Fetch
  BY <1>0, <1>3 DEF Fetch, steps, messages, keyboard, Seen, AsList, AsStarted, AsRunning, Begun
<1>4. CASE Transact /\ cur = Start
  <2>1. /\ cur' = After(0) /\ heard' = heard \cup {request} /\ has' = has
        /\ (request = 1 <=> 1 \notin has) /\ UNCHANGED <<msg, flag, pointer>>
        /\ mem' = [a \in Address |-> IF a = \h0508 THEN 3 ELSE mem[a]]
    BY <1>4, FirstTransact DEF messages, Transact
  <2>2. AsList' = [req |-> request, ctl |-> "ok"]
    BY <1>0, <2>1, Geometry DEF AsList, Data
  <2>3. Walking /\ ~Begun /\ Begun' /\ AsRunning' = request /\ UNCHANGED AsStarted
    BY <1>0, <1>4, <2>1, Geometry DEF Walking, Begun, AsRunning, AsStarted
  <2>4. Driver!Answers(request)
    BY <2>1, AnswersHere
  <2>5. Driver!Hear
    BY <2>1, <2>2, <2>3, <2>4, AtWorkOnIt DEF Driver!Hear, Driver!Control, Begun
  <2> QED
    BY <1>1, <2>5
<1>5. ASSUME NEW k \in 0 .. Packets(request), k < Packets(request), cur = After(k), Transact
      PROVE  UNCHANGED Seen
  <2>1. /\ cur' = After(k + 1) /\ UNCHANGED <<heard, has, msg, flag, pointer>>
        /\ \A a \in Address : a < Start + 2 * ListLen(request) => mem'[a] = mem[a]
    BY <1>5, PacketTransact DEF messages, Transact
  <2>2. mem'[\h0508] = mem[\h0508]
    BY <2>1, AtHand, Geometry DEF Start
  <2>3. k \in 0 .. 9 /\ k + 1 \in 0 .. 9
    BY AtHand
  <2>4. After(k) \notin {0, Start, StrayTd} /\ After(k + 1) \notin {0, Start, StrayTd}
    BY <2>3, Geometry
  <2> QED
    BY <1>0, <1>5, <2>1, <2>2, <2>4 DEF Seen, AsList, AsStarted, AsRunning, Begun
<1>6. ASSUME Walking, cur' = 0, Message, UNCHANGED <<pointer, heard>>
      PROVE  Driver!Finish /\ Begun' = FALSE /\ AsRunning' = 0
  BY <1>0, <1>6, AtWorkOnIt
     DEF Driver!Finish, Driver!Message, Driver!Nothing, AsRunning, AsStarted, Begun, Message
<1>7. CASE Transact /\ cur = After(Packets(request))
  <2>1. /\ cur' = 0 /\ request \in heard /\ UNCHANGED <<heard, pointer>>
        /\ has' = has \cup ({request} \cap {SetAddress, SetConfig})
        /\ (request = 1 <=> 1 \notin has) /\ Message /\ mem' = mem
    BY <1>7, LastTransact DEF Transact
  <2>2. Packets(request) \in 0 .. 9
    BY AtHand
  <2>3. Begun /\ Walking
    BY <1>7, <2>2, Geometry DEF Begun, Walking
  <2>4. Driver!Answers(request)
    BY <2>1, AnswersHere
  <2>5. UNCHANGED AsList
    BY <1>0, <2>1 DEF AsList
  <2>6. Driver!Serve
    BY <1>6, <2>1, <2>3, <2>4, <2>5, AtWorkOnIt DEF Driver!Serve, Begun
  <2> QED
    BY <1>1, <2>6
<1>8. CASE GiveUp
  <2>1. /\ Walking /\ cur' = 0 /\ Message /\ UNCHANGED <<pointer, heard, has>>
        /\ mem' = IF cur = Start THEN [mem EXCEPT ![\h0508] = 0] ELSE mem
    BY <1>8 DEF GiveUp, keyboard, ListsInv, OnTheList
  <2>2. Begun <=> cur # Start
    BY <2>1 DEF Begun, Walking
  <2>3. CASE cur = Start
    <3>1. mem'[\h0508] = 0
      BY <2>1, <2>3, Geometry DEF ListsInv, ListsTypeOK
    <3>2. AsList' = [req |-> request, ctl |-> "error"]
      BY <1>0, <3>1 DEF AsList, Data
    <3> QED
      BY <1>1, <1>6, <2>1, <2>2, <2>3, <3>2, AtWorkOnIt DEF Driver!Fail, Driver!Control, Begun
  <2>4. CASE cur # Start
    <3>1. UNCHANGED AsList
      BY <1>0, <2>1, <2>4 DEF AsList
    <3> QED
      BY <1>1, <1>6, <2>1, <2>2, <2>4, <3>1, AtWorkOnIt DEF Driver!Fail, Begun
  <2> QED
    BY <2>3, <2>4
<1>9. CASE EndStray
  <2>1. /\ cur = StrayTd /\ cur' = 0 /\ Message /\ UNCHANGED <<mem, pointer, heard, has>>
    BY <1>9 DEF EndStray, keyboard
  <2>2. /\ AsRunning = Requests + 2 /\ AsRunning' = 0 /\ ~Begun /\ ~Begun'
        /\ UNCHANGED <<AsList, AsStarted>>
    BY <1>0, <2>1, Geometry DEF AsRunning, Begun, AsList, AsStarted
  <2>3. Driver!Stray
    BY <2>1, <2>2
       DEF Driver!Stray, Driver!AtWork, Driver!Nothing, Driver!StrayList, Driver!Poll, Requests,
           Driver!Message, Message, Begun
  <2> QED
    BY <1>1, <2>3
<1> QED
  <2>1. Transact => Walking
    BY DEF Transact, ListsInv, OnTheList
  <2>2. Transact => cur = Start \/ \E k \in 0 .. Packets(request) : cur = After(k)
    BY <2>1 DEF ListsInv, OnTheList
  <2>3. ASSUME NEW k \in 0 .. Packets(request)
        PROVE  k < Packets(request) \/ k = Packets(request)
    BY AtHand
  <2> QED
    BY <1>2, <1>3, <1>4, <1>5, <1>7, <1>8, <1>9, <2>2, <2>3

(* UsbLists implements the steps of UsbKeyboard: each of the program's and *)
(* the chip's is one of UsbKeyboard, or is not seen there.                 *)
THEOREM ListsAreOneAccess == ListsSpec => ImplementsDriver
<1>1. ListsInv /\ [ListsNext]_lvars => [Driver!KeyboardNext]_(Driver!dvars)
  <2> SUFFICES ASSUME ListsInv, [ListsNext]_lvars
               PROVE  Driver!KeyboardNext \/ UNCHANGED Driver!dvars
    OBVIOUS
  <2>1. CASE UNCHANGED lvars
    <3>1. UNCHANGED Seen
      BY <2>1 DEF lvars, steps, messages, walk, keyboard, history, Seen, AsPlace, AsList,
             AsStarted, AsRunning, Begun
    <3> QED
      BY <3>1, SeenIsAll
  <2>2. CASE Program
    BY <2>2, ProgramRefines, SeenIsAll DEF Driver!KeyboardNext
  <2>3. CASE TakePointer \/ Fetch \/ Transact \/ GiveUp \/ EndStray
    BY <2>3, ChipRefines, SeenIsAll DEF Driver!KeyboardNext
  <2> QED
    BY <2>1, <2>2, <2>3 DEF ListsNext
<1> QED
  BY <1>1, ListsInvariant, PTL DEF ListsSpec, ImplementsDriver

-----------------------------------------------------------------------------
(* The walk of the chip stays where it is until it has fetched a           *)
(* descriptor, then it goes on to one behind it, or it ends with a message *)
(* to the program.                                                         *)
WalkGoesOn ==
    \/ cur' = cur /\ (td' = td \/ (td = <<>> /\ td' # <<>>))
    \/ cur < cur' /\ cur' <= After(8) /\ Walking'
    \/ cur' = 0 /\ Message

LEMMA TransactGoesOn ==
    ASSUME ListsInv, Transact
    PROVE  WalkGoesOn
<1>1. CASE cur = Start
  <2>1. cur' = After(0)
    BY <1>1, FirstTransact
  <2> QED
    BY <1>1, <2>1 DEF WalkGoesOn, Walking, After, SetupTd, Start, StrayTd
<1>2. ASSUME NEW k \in 0 .. Packets(request), k < Packets(request), cur = After(k)
      PROVE  WalkGoesOn
  <2>1. cur' = After(k + 1) /\ k + 1 \in 0 .. 8 /\ k \in 0 .. 8
    BY <1>2, PacketTransact, AtHand
  <2>2. cur < cur' /\ cur' <= After(8)
    BY <1>2, <2>1 DEF After, SetupTd
  <2>3. cur' # 0 /\ cur' # StrayTd
    BY <2>1, Geometry
  <2> QED
    BY <2>2, <2>3 DEF WalkGoesOn, Walking
<1>3. CASE cur = After(Packets(request))
  BY <1>3, LastTransact DEF WalkGoesOn
<1>4. cur = Start \/ \E k \in 0 .. Packets(request) : cur = After(k)
  BY DEF Transact, ListsInv, OnTheList
<1>5. \A k \in 0 .. Packets(request) : k < Packets(request) \/ k = Packets(request)
  BY AtHand
<1> QED
  BY <1>1, <1>2, <1>3, <1>4, <1>5

(* The countdown under WalkEnds: whatever the program writes in the        *)
(* meantime, the chip goes forward through the descriptors of a list, none *)
(* of them twice, and the list ends no later than at the last descriptor   *)
(* and with the message the loops of main.c wait for.                      *)
THEOREM WalksGoForward == ListsSpec => [][Walking => WalkGoesOn]_lvars
<1>1. ListsInv /\ [ListsNext]_lvars => [Walking => WalkGoesOn]_lvars
  <2> SUFFICES ASSUME ListsInv, ListsNext, Walking PROVE WalkGoesOn
    OBVIOUS
  <2>1. CASE Program \/ TakePointer
    <3>1. cur' = cur /\ td' = td
      BY <2>1, Geometry
         DEF Program, WriteWord, StartList, CheckFlag, ReadMessage, ClearMessage, Proceed,
             StartStray, Refuse, TakePointer, Walking, walk
    <3> QED
      BY <3>1 DEF WalkGoesOn
  <2>2. CASE Fetch
    <3>1. cur' = cur /\ td = <<>> /\ td' = [i \in 1 .. 6 |-> mem[cur + 2 * (i - 1)]]
      BY <2>2 DEF Fetch
    <3>2. td' # <<>>
      <4>1. DOMAIN td' = 1 .. 6 /\ 1 \in 1 .. 6
        BY <3>1
      <4> QED
        BY <4>1
    <3> QED
      BY <3>1, <3>2 DEF WalkGoesOn
  <2>3. CASE Transact
    BY <2>3, TransactGoesOn
  <2>4. CASE GiveUp
    BY <2>4 DEF GiveUp, WalkGoesOn
  <2>5. CASE EndStray
    BY <2>5 DEF EndStray, Walking
  <2> QED
    BY <2>1, <2>2, <2>3, <2>4, <2>5 DEF ListsNext
<1> QED
  BY <1>1, ListsInvariant, PTL DEF ListsSpec
=============================================================================
