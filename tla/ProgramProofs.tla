--------------------------- MODULE ProgramProofs ---------------------------
(***************************************************************************)
(* What the table of statements tells the checker and the converter, for   *)
(* every file and every hash: the program makes only calls that the hash   *)
(* map is correct for, gets from it what the file declares, and has warned *)
(* of every name that it then finds no statement for.                      *)
(***************************************************************************)
EXTENDS Program, HashMapProofs

(* The program's calls are calls.                                          *)
LEMMA ProgramNextIsNext == [ProgramNext]_vars => [Next]_vars
  BY DEF ProgramNext, Next, Call, vars

(* What a file is made of.                                                 *)
LEMMA FileType ==
  ASSUME NEW f \in Files
  PROVE  /\ Len(f) \in Nat /\ Len(f) <= Len(Addr) /\ Len(Addr) \in Nat
         /\ \A t \in 1..Len(f) : f[t].var \in Keys /\ f[t].uses \in Seq(Keys) /\ Len(f[t].uses) \in Nat
         /\ \A t \in 1..Len(f) : \A j \in 1..Len(f[t].uses) : f[t].uses[j] \in Keys
         /\ \A t \in 1..Len(f) : Addr[t] \in Values
  <1>1. f \in Seq([var : Keys, uses : Seq(Keys)]) /\ Len(f) <= Len(Addr) /\ Addr \in Seq(Values)
    BY FilesAssumption
  <1>2. Len(f) \in Nat /\ Len(Addr) \in Nat
    BY <1>1, LenProperties
  <1>3. \A t \in 1..Len(f) : f[t] \in [var : Keys, uses : Seq(Keys)]
    BY <1>1, ElementOfSeq
  <1>4. \A t \in 1..Len(f) : f[t].var \in Keys /\ f[t].uses \in Seq(Keys) /\ Len(f[t].uses) \in Nat
    BY <1>3, LenProperties
  <1>5. \A t \in 1..Len(f) : \A j \in 1..Len(f[t].uses) : f[t].uses[j] \in Keys
    BY <1>4, ElementOfSeq
  <1>6. \A t \in 1..Len(f) : Addr[t] \in Values
    BY <1>1, <1>2, ElementOfSeq
  <1> QED
    BY <1>1, <1>2, <1>4, <1>5, <1>6

(* The last of some statements.                                            *)
LEMMA LastIs ==
  ASSUME NEW n \in Nat, NEW T \in SUBSET (1..n), T # {}
  PROVE  \E m \in T : (\A o \in T : o <= m) /\ Last(T) = Addr[m]
  <1> DEFINE J == {n - t : t \in T}
  <1>1. J \in SUBSET Nat /\ J # {}
    <2>1. \A t \in T : n - t \in Nat
      OBVIOUS
    <2> QED
      BY <2>1
  <1> HIDE DEF J
  <1>2. PICK x \in J : \A y \in J : x <= y
    BY <1>1, Smallest
  <1>3. \E m \in T : \A o \in T : o <= m
    <2>1. PICK m \in T : x = n - m
      BY <1>2 DEF J
    <2>2. \A o \in T : n - o \in J
      BY DEF J
    <2>3. \A o \in T : o <= m
      BY <1>2, <2>1, <2>2
    <2> QED
      BY <2>3
  <1> QED
    BY <1>3 DEF Last

(* A name has a last declaration when it is declared.                      *)
LEMMA DeclaredLast ==
  ASSUME file \in Files, NEW m \in 0..Len(file), NEW x
  PROVE  /\ Last(Declares(m, x)) \in Values \cup {NULL}
         /\ Last(Declares(m, x)) = NULL <=> Declares(m, x) = {}
  <1>1. /\ Len(file) \in Nat /\ NULL \notin Values
        /\ \A t \in 1..Len(file) : Addr[t] \in Values
    BY FileType, HashMapAssumption
  <1>2. m \in Nat /\ Declares(m, x) \in SUBSET (1..m)
    BY <1>1 DEF Declares
  <1>3. ASSUME Declares(m, x) # {}
        PROVE  Last(Declares(m, x)) \in Values
    <2>1. PICK t \in Declares(m, x) : Last(Declares(m, x)) = Addr[t]
      BY <1>2, <1>3, LastIs
    <2>2. t \in 1..Len(file)
      BY <1>1, <1>2, <2>1
    <2> QED
      BY <1>1, <2>1, <2>2
  <1> QED
    BY <1>1, <1>3 DEF Last

(* One statement more: it is the last of the name it declares.             *)
LEMMA NextDeclared ==
  ASSUME file \in Files, NEW n \in Nat, n < Len(file), NEW x
  PROVE  Last(Declares(n + 1, x)) = IF file[n + 1].var = x THEN Addr[n + 1] ELSE Last(Declares(n, x))
  <1>1. CASE file[n + 1].var = x
    <2> DEFINE T == Declares(n + 1, x)
    <2>1. n + 1 \in Nat /\ T \in SUBSET (1..(n + 1)) /\ n + 1 \in T
      BY <1>1 DEF Declares
    <2> HIDE DEF T
    <2>2. PICK m \in T : (\A o \in T : o <= m) /\ Last(T) = Addr[m]
      <3>1. T # {}
        BY <2>1
      <3> QED
        BY <2>1, <3>1, LastIs
    <2>3. m = n + 1
      BY <2>1, <2>2
    <2> QED
      BY <1>1, <2>2, <2>3 DEF T
  <1>2. CASE file[n + 1].var # x
    <2>1. Declares(n + 1, x) = Declares(n, x)
      BY <1>2 DEF Declares
    <2> QED
      BY <1>2, <2>1
  <1> QED
    BY <1>1, <1>2

(* Before the first statement no name has an address.                      *)
LEMMA NothingDeclared ==
  ASSUME NEW x
  PROVE  Last(Declares(0, x)) = NULL
  BY DEF Declares, Last

-----------------------------------------------------------------------------
(* The calls of main, and what they do to the table.                       *)
LEMMA MainCalls == MainInv /\ [MainStep \/ MainOver]_allvars => [ProgramNext]_vars
  <1> SUFFICES ASSUME MainInv, [MainStep \/ MainOver]_allvars PROVE [ProgramNext]_vars
    OBVIOUS
  <1>1. /\ file \in Files /\ s \in 0..Len(file) /\ u \in Nat /\ Len(file) \in Nat
        /\ stage = "insert" => s < Len(file)
        /\ stage \in {"check", "convert"} => s >= 1
    BY FileType DEF MainInv
  <1>2. CASE Refuse \/ OpenInput \/ Parsed \/ NextStatement \/ NextConverted \/ WriteOutput \/ MainOver
    BY <1>2 DEF Refuse, OpenInput, Parsed, NextStatement, NextConverted, WriteOutput, MainOver, GoTo, allvars
  <1>3. CASE AskDeclared
    <2>1. s + 1 \in 1..Len(file) /\ Exists(file[s + 1].var)
      BY <1>1, <1>3 DEF AskDeclared
    <2> QED
      BY <1>1, <2>1, FileType DEF ProgramNext
  <1>4. CASE InsertStmt
    <2>1. stage = "insert" /\ Insert(file[s + 1].var, Addr[s + 1], FALSE)
      BY <1>4 DEF InsertStmt
    <2>2. s + 1 \in 1..Len(file)
      BY <1>1, <2>1
    <2> QED
      BY <1>1, <2>1, <2>2, FileType DEF ProgramNext
  <1>5. CASE AskUsed
    <2>1. s \in 1..Len(file) /\ u < Len(file[s].uses) /\ Exists(file[s].uses[u + 1])
      BY <1>1, <1>5 DEF AskUsed
    <2>2. u + 1 \in 1..Len(file[s].uses)
      BY <1>1, <2>1, FileType
    <2> QED
      BY <1>1, <2>1, <2>2, FileType DEF ProgramNext
  <1>6. CASE LookUp
    <2>1. s \in 1..Len(file) /\ u < Len(file[s].uses) /\ Get(file[s].uses[u + 1])
      BY <1>1, <1>6 DEF LookUp
    <2>2. u + 1 \in 1..Len(file[s].uses)
      BY <1>1, <2>1, FileType
    <2> QED
      BY <1>1, <2>1, <2>2, FileType DEF ProgramNext
  <1>7. CASE Release \/ TableWorks
    BY <1>7 DEF Release, TableWorks, ProgramNext
  <1>8. CASE UNCHANGED allvars
    BY <1>8 DEF allvars
  <1> QED
    BY <1>2, <1>3, <1>4, <1>5, <1>6, <1>7, <1>8 DEF MainStep

(* Asked for a name, the table tells of its last statement so far.         *)
LEMMA TableTells ==
  ASSUME MainInv, NEW k \in Keys, stage \notin Over
  PROVE  /\ Exists(k) => answer'.found <=> Declares(Inserted, k) # {}
         /\ Get(k) => answer'.found = Last(Declares(Inserted, k))
  <1>1. /\ Shape /\ Contents[k] = Last(Declares(Inserted, k))
        /\ file \in Files /\ Inserted \in 0..Len(file)
    BY ShapeNow, FileType DEF MainInv, IInv, Inserted
  <1>2. Contents[k] = NULL <=> Declares(Inserted, k) = {}
    BY <1>1, DeclaredLast
  <1>3. ASSUME Exists(k)
        PROVE  answer'.found <=> Declares(Inserted, k) # {}
    <2>1. pc = "idle" /\ answer'.found = (Found(Bucket(k), k) # {})
      BY <1>3 DEF Exists
    <2> QED
      BY <1>1, <1>2, <2>1, LookUpFinds, ContentsNow
  <1>4. ASSUME Get(k)
        PROVE  answer'.found = Last(Declares(Inserted, k))
    <2>1. pc = "idle" /\ answer'.found = IF Found(Bucket(k), k) = {} THEN NULL
                                         ELSE Bucket(k)[First(Found(Bucket(k), k))].value
      BY <1>4 DEF Get
    <2>2. answer'.found = Contents[k]
      BY <1>1, <2>1, LookUpFinds, ContentsNow
    <2> QED
      BY <1>1, <2>2
  <1> QED
    BY <1>3, <1>4

(* What a step does to what the table says.                                *)
LEMMA MainEffect ==
  ASSUME MainInv, [MainStep \/ MainOver]_allvars
  PROVE  /\ IInv'
         /\ InsertStmt => Contents' = [Contents EXCEPT ![file[s + 1].var] = Addr[s + 1]]
         /\ ~InsertStmt /\ ~Release => Contents' = Contents
  <1>1. /\ [Next]_vars /\ IInv /\ TypeOK /\ Placed /\ Shape
        /\ file \in Files /\ s \in 0..Len(file) /\ Len(file) \in Nat
        /\ stage = "insert" => s < Len(file)
        /\ pc # "remove"
    BY MainCalls, ProgramNextIsNext, ShapeNow, FileType DEF MainInv, IInv
  <1>2. IInv'
    BY <1>1, NextInv
  <1>3. ASSUME InsertStmt
        PROVE  Contents' = [Contents EXCEPT ![file[s + 1].var] = Addr[s + 1]]
    <2>1. stage = "insert" /\ Insert(file[s + 1].var, Addr[s + 1], FALSE)
      BY <1>3 DEF InsertStmt
    <2>2. file[s + 1].var \in Keys /\ Addr[s + 1] \in Values
      BY <1>1, <2>1, FileType
    <2>3. \A x \in Keys : \A w \in Values :
            Says(x, w)' <=> IF x = file[s + 1].var THEN w = Addr[s + 1] ELSE Says(x, w)
      BY <1>1, <2>1, <2>2, StepEffect
    <2>4. Shape'
      BY <1>1, StepEffect
    <2> QED
      BY <1>1, <2>2, <2>3, <2>4, ContentsChange
  <1>4. ASSUME ~InsertStmt, ~Release
        PROVE  Contents' = Contents
    <2>1. MoveEntry \/ SwapTables \/ Quiet
      <3>1. CASE \E k \in Keys : Get(k) \/ Exists(k)
        BY <3>1 DEF Quiet
      <3>2. CASE Continue
        BY <1>1, <3>2 DEF Continue, RemoveHead, RemoveChained, RemoveMissed
      <3>3. CASE UNCHANGED vars
        BY <3>3 DEF Quiet
      <3>4. AskDeclared \/ AskUsed \/ LookUp => \E k \in Keys : Get(k) \/ Exists(k)
        <4>2. ASSUME AskDeclared
              PROVE  \E k \in Keys : Exists(k)
          <5>1. s + 1 \in 1..Len(file) /\ Exists(file[s + 1].var)
            BY <1>1, <4>2 DEF AskDeclared
          <5> QED
            BY <1>1, <5>1, FileType
        <4>3. ASSUME AskUsed \/ LookUp
              PROVE  \E k \in Keys : Get(k) \/ Exists(k)
          <5>1. /\ stage \in {"check", "convert"} /\ u < Len(file[s].uses)
                /\ Get(file[s].uses[u + 1]) \/ Exists(file[s].uses[u + 1])
            BY <4>3 DEF AskUsed, LookUp
          <5>2. s \in 1..Len(file) /\ u \in Nat
            BY <1>1, <5>1 DEF MainInv
          <5>3. u + 1 \in 1..Len(file[s].uses)
            BY <1>1, <5>1, <5>2, FileType
          <5> QED
            BY <1>1, <5>1, <5>2, <5>3, FileType
        <4> QED
          BY <4>2, <4>3
      <3>5. \/ Refuse \/ OpenInput \/ Parsed \/ NextStatement \/ NextConverted \/ WriteOutput \/ MainOver
            \/ UNCHANGED allvars
            => UNCHANGED vars
        BY DEF Refuse, OpenInput, Parsed, NextStatement, NextConverted, WriteOutput, MainOver, GoTo, allvars
      <3> QED
        BY <1>4, <3>1, <3>2, <3>3, <3>4, <3>5 DEF MainStep, TableWorks
    <2>2. Shape' /\ \A x \in Keys : \A w \in Values : Says(x, w)' <=> Says(x, w)
      BY <1>1, <2>1, StepEffect
    <2> QED
      BY <1>1, <2>2, ContentsSame
  <1> QED
    BY <1>2, <1>3, <1>4

(* An insertion that frees a value, told to free none, found the key       *)
(* behind the head of its bucket, and leaves the head alone.               *)
LEMMA FreesChained ==
  ASSUME Shape, NEW k \in Keys, NEW v \in Values, Insert(k, v, FALSE), freed' # freed
  PROVE  pc' = "idle" /\ k \in KeysIn /\ ~HeadIs(k)'
  <1>1. OverwriteChained(k, v)
    BY DEF Insert, InsertFirst, OverwriteHead, InsertChained
  <1> DEFINE j == First(Chained(Bucket(k), k))
             c == [Bucket(k) EXCEPT ![j].value = v]
             b == Index(k, s_buckets)
  <1>2. /\ pc = "idle" /\ pc' = "idle" /\ s_buckets' = s_buckets /\ InChain(k)
        /\ buckets' = [buckets EXCEPT ![b] = c]
    BY <1>1 DEF OverwriteChained, SetBucket
  <1>3. Chained(Bucket(k), k) # {} /\ Bucket(k) # <<>> /\ ~HeadIs(k)
    BY <1>2 DEF InChain
  <1>4. Bucket(k) \in Seq(Entries) /\ Len(Bucket(k)) \in Nat
    BY BucketNow, LenProperties DEF Sorted
  <1>5. j \in 2..Len(Bucket(k)) /\ Bucket(k)[j].key = k
    <2>1. Chained(Bucket(k), k) \in SUBSET Nat
      BY <1>4 DEF Chained
    <2>2. j \in Chained(Bucket(k), k)
      BY <1>3, <2>1, FirstIs
    <2> QED
      BY <2>2 DEF Chained
  <1>6. k \in KeysIn
    <2>1. j \in 1..Len(Bucket(k))
      BY <1>4, <1>5
    <2>2. Bucket(k)[j].value \in Values /\ Says(k, Bucket(k)[j].value)
      BY <1>2, <1>5, <2>1, BucketEntry
    <2> QED
      BY <2>2, SetsNow
  <1>7. b \in DOMAIN buckets /\ Bucket(k)' = c
    <2>1. b \in DOMAIN buckets
      BY IndexType DEF Shape, Table
    <2>2. Bucket(k)' = buckets'[b]
      BY <1>2 DEF Bucket
    <2> QED
      BY <1>2, <2>1, <2>2
  <1>8. c # <<>> => c[1] = Bucket(k)[1]
    <2>1. j # 1
      BY <1>4, <1>5
    <2>2. DOMAIN Bucket(k) = 1..Len(Bucket(k)) /\ 1 \in 1..Len(Bucket(k))
      BY <1>4, <1>5, LenProperties
    <2> QED
      BY <2>1, <2>2
  <1> HIDE DEF c, j, b
  <1>9. ~HeadIs(k)'
    BY <1>3, <1>7, <1>8 DEF HeadIs
  <1> QED
    BY <1>2, <1>6, <1>9

-----------------------------------------------------------------------------
(* What the table says of the names, step by step.                         *)
LEMMA MainInit == ProgramInit => MainInv
  <1> SUFFICES ASSUME ProgramInit PROVE MainInv
    OBVIOUS
  <1>1. IInv /\ D!Init
    BY InitInv, DictionaryInit DEF ProgramInit
  <1>2. \A x \in Keys : Contents[x] = NULL
    BY <1>1 DEF D!Init
  <1>3. file \in Files /\ stage = "start" /\ s = 0 /\ u = 0 /\ asked = {} /\ resolved = {} /\ pc = "idle"
    BY DEF ProgramInit, Init
  <1>4. \A x \in Keys : Contents[x] = Last(Declares(Inserted, x))
    BY <1>2, <1>3, NothingDeclared DEF Inserted
  <1>5. Len(file) \in Nat
    BY <1>3, FileType
  <1>6. FoundAsDeclared /\ FreedOnlyChained /\ UnresolvedWereWarned
    BY <1>3 DEF FoundAsDeclared, FreedOnlyChained, UnresolvedWereWarned
  <1>7. AllAsked
    BY <1>3, <1>5 DEF AllAsked, Checked
  <1> QED
    BY <1>1, <1>3, <1>4, <1>5, <1>6, <1>7 DEF MainInv, Over

(* Every step of main keeps the invariant.                                 *)
LEMMA MainNext == MainInv /\ [MainStep \/ MainOver]_allvars => MainInv'
  <1> SUFFICES ASSUME MainInv, [MainStep \/ MainOver]_allvars PROVE MainInv'
    OBVIOUS
  <1>1. /\ IInv /\ Shape /\ IInv'
        /\ file \in Files /\ s \in 0..Len(file) /\ u \in Nat /\ Len(file) \in Nat
        /\ stage \in {"start", "parse", "declare", "insert", "check", "convert", "write", "release"} \cup Over
        /\ stage \in {"start", "parse"} => s = 0
        /\ stage = "insert" => s < Len(file)
        /\ stage \in {"check", "convert", "abort", "corrupt"} => s >= 1
        /\ pc # "remove" /\ (stage \in {"abort", "corrupt"} => pc = "idle")
        /\ stage \notin Over => (\A x \in Keys : Contents[x] = Last(Declares(Inserted, x))) /\ AllAsked
        /\ FoundAsDeclared /\ FreedOnlyChained /\ UnresolvedWereWarned
    BY MainEffect, ShapeNow, FileType DEF MainInv, IInv
  <1>2. ~InsertStmt /\ ~Release => Contents' = Contents
    BY MainEffect
  <1>3. file' = file /\ pc' # "remove"
    <2>1. file' = file
      BY DEF MainStep, Refuse, OpenInput, Parsed, AskDeclared, InsertStmt, AskUsed, NextStatement, LookUp,
             NextConverted, WriteOutput, Release, TableWorks, MainOver, GoTo, mainvars, allvars
    <2>2. [ProgramNext]_vars
      BY MainCalls
    <2>3. \A k, v : Insert(k, v, FALSE) => pc' # "remove"
      BY DEF Insert, InsertFirst, OverwriteHead, OverwriteChained, InsertChained
    <2>4. pc' # "remove"
      BY <1>1, <2>2, <2>3 DEF ProgramNext, Continue, Get, Exists, MoveEntry, SwapTables,
                              RemoveHead, RemoveChained, RemoveMissed, Free, vars
    <2> QED
      BY <2>1, <2>4
  (* What is left to show of a step that inserts nothing.                  *)
  <1>4. ASSUME ~InsertStmt, ~Release, stage' \notin Over => stage \notin Over /\ Inserted' = Inserted
        PROVE  stage' \notin Over => \A x \in Keys : Contents'[x] = Last(Declares(Inserted, x))'
    BY <1>1, <1>2, <1>3, <1>4 DEF Declares
  <1>5. UNCHANGED <<asked, resolved>> => FoundAsDeclared' /\ UnresolvedWereWarned'
    BY <1>1, <1>3 DEF FoundAsDeclared, Declares, UnresolvedWereWarned
  <1>6. stage' \notin {"abort", "corrupt"} => FreedOnlyChained'
    BY DEF FreedOnlyChained
  (* A step that asks nothing may not count a name as checked.             *)
  <1>asks. ASSUME UNCHANGED asked, stage \notin Over,
                   \A t \in 1..Len(file) : \A j \in 1..Len(file[t].uses) : Checked(t, j)' => Checked(t, j)
            PROVE  AllAsked'
    BY <1>1, <1>3, <1>asks DEF AllAsked
  (* The steps.                                                            *)
  <1>7. CASE Refuse \/ OpenInput \/ Parsed \/ WriteOutput
    <2>1. /\ UNCHANGED <<vars, s, u, asked, resolved>>
          /\ \/ stage' \in {"exit 1", "assert"}
             \/ stage = "start" /\ stage' = "parse"
             \/ stage = "parse" /\ stage' = "declare"
             \/ stage = "write" /\ stage' = "release"
      BY <1>7 DEF Refuse, OpenInput, Parsed, WriteOutput, GoTo
    <2>2. ~InsertStmt /\ ~Release
      BY <2>1 DEF InsertStmt, Release
    <2>3. stage' \notin Over => stage \notin Over /\ Inserted' = Inserted
      BY <1>3, <2>1 DEF Inserted, Over
    <2>4. stage' \notin Over => \A x \in Keys : Contents'[x] = Last(Declares(Inserted, x))'
      BY <1>4, <2>2, <2>3
    <2>5. FoundAsDeclared' /\ FreedOnlyChained' /\ UnresolvedWereWarned'
      BY <1>5, <1>6, <2>1
    <2>6. stage' \notin Over => AllAsked'
      BY <1>1, <1>3, <1>asks, <2>1, <2>3 DEF Checked, Over
    <2> QED
      BY <1>1, <1>3, <2>1, <2>4, <2>5, <2>6 DEF MainInv, Over
  <1>8. CASE AskDeclared
    <2>1. /\ stage = "declare" /\ s < Len(file) /\ stage' = "insert" /\ UNCHANGED <<s, u, asked, resolved>>
          /\ ~InsertStmt /\ ~Release
      BY <1>8 DEF AskDeclared, InsertStmt, Release
    <2>2. stage \notin Over /\ Inserted' = Inserted
      BY <1>3, <2>1 DEF Inserted, Over
    <2>3. stage' \notin Over => \A x \in Keys : Contents'[x] = Last(Declares(Inserted, x))'
      BY <1>4, <2>1, <2>2
    <2>4. FoundAsDeclared' /\ FreedOnlyChained' /\ UnresolvedWereWarned'
      BY <1>5, <1>6, <2>1
    <2>5. AllAsked'
      BY <1>1, <1>3, <1>asks, <2>1, <2>2 DEF Checked, Over
    <2> QED
      BY <1>1, <1>3, <2>1, <2>3, <2>4, <2>5 DEF MainInv, Over
  <1>9. CASE InsertStmt
    <2>0. PICK k \in Keys : k = file[s + 1].var
      <3>1. s + 1 \in 1..Len(file)
        BY <1>1, <1>9 DEF InsertStmt
      <3> QED
        BY <1>1, <3>1, FileType
    <2>1. /\ stage = "insert" /\ s' = s + 1 /\ u' = 0 /\ Insert(k, Addr[s + 1], FALSE)
          /\ stage' \in {"check", "abort", "corrupt"} /\ (stage' # "check" => freed' # freed)
          /\ UNCHANGED <<asked, resolved>>
      BY <1>9, <2>0 DEF InsertStmt
    <2>2. s < Len(file) /\ s + 1 \in 1..Len(file) /\ k \in Keys /\ Addr[s + 1] \in Values
      BY <1>1, <2>1, FileType
    <2>3. \A x \in Keys : Contents[x] = Last(Declares(s, x))
      BY <1>1, <2>1 DEF Inserted, Over
    <2>4. \A x \in Keys : Contents'[x] = Last(Declares(s + 1, x))
      <3>1. Contents' = [Contents EXCEPT ![k] = Addr[s + 1]]
        BY <1>9, <2>0, MainEffect
      <3>2. Contents \in [Keys -> Values \cup {NULL}]
        BY <1>1, ContentsNow
      <3>3. \A x : Last(Declares(s + 1, x)) = IF k = x THEN Addr[s + 1] ELSE Last(Declares(s, x))
        <4>1. s \in Nat
          BY <1>1
        <4> QED
          BY <1>1, <2>0, <2>2, <4>1, NextDeclared
      <3> QED
        BY <2>2, <2>3, <3>1, <3>2, <3>3
    <2>5. stage' \notin Over => \A x \in Keys : Contents'[x] = Last(Declares(Inserted, x))'
      <3>1. stage' \notin Over => Inserted' = s + 1
        BY <2>1 DEF Inserted, Over
      <3> QED
        BY <1>3, <2>4, <3>1 DEF Declares
    <2>6. stage' \in {"abort", "corrupt"} => pc' = "idle" /\ FreedOnlyChained'
      <3>1. ASSUME stage' # "check"
            PROVE  pc' = "idle" /\ k \in KeysIn /\ ~HeadIs(k)'
        BY <1>1, <2>1, <2>2, <3>1, FreesChained
      <3>2. k \in KeysIn => Declares(s, k) # {}
        <4>1. k \in KeysIn => Contents[k] # NULL
          BY <1>1, <2>2, SetsNow, ContentsNow, HashMapAssumption
        <4>2. Contents[k] = Last(Declares(s, k))
          BY <2>2, <2>3
        <4> QED
          BY <4>1, <4>2 DEF Last
      <3>3. file' = file /\ s' - 1 = s
        BY <1>1, <1>3, <2>1
      <3>4. file'[s'].var = k
        BY <1>3, <2>0, <2>1
      <3>5. Declares(s - 1, file[s].var)' = Declares(s, k)
        BY <1>1, <3>4, <3>3 DEF Declares
      <3>6. HeadIs(file[s].var)' <=> HeadIs(k)'
        BY <3>4 DEF HeadIs, Bucket
      <3> QED
        BY <3>1, <3>2, <3>5, <3>6 DEF FreedOnlyChained
    <2>7. FoundAsDeclared' /\ FreedOnlyChained' /\ UnresolvedWereWarned'
      BY <1>5, <1>6, <2>1, <2>6
    <2>8. s' \in 0..Len(file') /\ u' \in Nat /\ s' >= 1
      BY <1>1, <1>3, <2>1, <2>2
    <2>9. stage' \notin Over => AllAsked'
      <3>1. ASSUME stage' = "check", NEW t \in 1..Len(file), NEW j \in 1..Len(file[t].uses), Checked(t, j)'
            PROVE  Checked(t, j)
        <4>1. s' = s + 1 /\ u' = 0 /\ t \in Nat /\ j \in Nat /\ j >= 1
          BY <2>1, <3>1, FileType
        <4> QED
          BY <1>1, <2>1, <3>1, <4>1 DEF Checked
      <3> QED
        BY <1>1, <1>asks, <2>1, <3>1 DEF Over
    <2> QED
      BY <1>1, <1>3, <2>1, <2>5, <2>6, <2>7, <2>8, <2>9 DEF MainInv, Over
  <1>10. CASE AskUsed
    <2>1. /\ stage = "check" /\ u < Len(file[s].uses) /\ Exists(file[s].uses[u + 1])
          /\ asked' = asked \cup {[stmt |-> s, name |-> file[s].uses[u + 1], found |-> answer'.found]}
          /\ u' = u + 1 /\ UNCHANGED <<stage, s, resolved>> /\ ~InsertStmt /\ ~Release
      BY <1>10 DEF AskUsed, InsertStmt, Release
    <2>2. s \in 1..Len(file) /\ Inserted = s /\ Inserted' = Inserted /\ stage \notin Over
      BY <1>1, <1>3, <2>1 DEF Inserted, Over
    <2>3. stage' \notin Over => \A x \in Keys : Contents'[x] = Last(Declares(Inserted, x))'
      BY <1>4, <2>1, <2>2
    <2> DEFINE k == file[s].uses[u + 1]
    <2>4. k \in Keys
      <3>1. u + 1 \in 1..Len(file[s].uses)
        BY <1>1, <2>1, <2>2, FileType
      <3> QED
        BY <1>1, <2>2, <3>1, FileType
    <2>5. answer'.found <=> Declares(s, k) # {}
      BY <2>1, <2>2, <2>4, TableTells
    <2> HIDE DEF k
    <2>6. asked' = asked \cup {[stmt |-> s, name |-> k, found |-> answer'.found]}
      BY <2>1 DEF k
    <2>7. FoundAsDeclared'
      BY <1>1, <1>3, <2>1, <2>5, <2>6 DEF FoundAsDeclared, Declares
    <2>8. u' \in Nat /\ FreedOnlyChained' /\ stage' \notin {"abort", "corrupt"}
      BY <1>1, <1>6, <2>1
    <2>9. AllAsked'
      <3>1. SUFFICES ASSUME NEW t \in 1..Len(file), NEW j \in 1..Len(file[t].uses), Checked(t, j)'
                     PROVE  \E b \in BOOLEAN : [stmt |-> t, name |-> file[t].uses[j], found |-> b] \in asked'
        BY <1>3 DEF AllAsked
      <3>2. CASE Checked(t, j)
        BY <1>1, <2>1, <2>2, <3>2 DEF AllAsked
      <3>3. CASE ~Checked(t, j)
        <4>1. t = s /\ j = u + 1
          BY <1>1, <2>1, <2>2, <3>1, <3>3, FileType DEF Checked
        <4>2. (answer'.found) \in BOOLEAN
          BY <2>1 DEF Exists
        <4> QED
          BY <2>1, <4>1, <4>2
      <3> QED
        BY <3>2, <3>3
    <2>10. UnresolvedWereWarned'
      BY <1>1, <2>1 DEF UnresolvedWereWarned
    <2> QED
      BY <1>1, <1>3, <2>1, <2>2, <2>3, <2>7, <2>8, <2>9, <2>10 DEF MainInv, Over
  <1>11. CASE NextStatement
    <2>1. /\ stage = "check" /\ UNCHANGED <<vars, asked, resolved>> /\ ~InsertStmt /\ ~Release
          /\ \/ s < Len(file) /\ stage' = "declare" /\ s' = s /\ u' = u
             \/ ~(s < Len(file)) /\ stage' = "convert" /\ s' = 1 /\ u' = 0
      BY <1>11 DEF NextStatement, InsertStmt, Release
    <2>2. s \in 1..Len(file) /\ stage \notin Over /\ Inserted' = Inserted
      BY <1>1, <1>3, <2>1 DEF Inserted, Over
    <2>3. stage' \notin Over => \A x \in Keys : Contents'[x] = Last(Declares(Inserted, x))'
      BY <1>4, <2>1, <2>2
    <2>4. FoundAsDeclared' /\ FreedOnlyChained' /\ UnresolvedWereWarned'
      BY <1>5, <1>6, <2>1
    <2>5. s' \in 0..Len(file') /\ u' \in Nat /\ (stage' = "convert" => s' >= 1)
      BY <1>1, <1>3, <2>1, <2>2
    <2>6. stage' \in {"declare", "convert", "write"} /\ pc' = pc
      BY <2>1 DEF vars
    <2>7. AllAsked'
      <3>1. u = Len(file[s].uses)
        BY <1>11 DEF NextStatement
      <3>2. ASSUME NEW t \in 1..Len(file), NEW j \in 1..Len(file[t].uses), Checked(t, j)'
            PROVE  Checked(t, j)
        BY <1>1, <2>1, <2>2, <3>1, <3>2, FileType DEF Checked
      <3> QED
        BY <1>asks, <2>1, <2>2, <3>2
    <2> QED
      BY <1>1, <1>3, <2>3, <2>4, <2>5, <2>6, <2>7 DEF MainInv, Over
  <1>12. CASE LookUp
    <2>1. /\ stage = "convert" /\ u < Len(file[s].uses) /\ Get(file[s].uses[u + 1])
          /\ resolved' = resolved \cup {[stmt |-> s, name |-> file[s].uses[u + 1], found |-> answer'.found]}
          /\ u' = u + 1 /\ UNCHANGED <<stage, s, asked>> /\ ~InsertStmt /\ ~Release
      BY <1>12 DEF LookUp, InsertStmt, Release
    <2>2. s \in 1..Len(file) /\ Inserted = Len(file) /\ Inserted' = Inserted /\ stage \notin Over
      BY <1>1, <1>3, <2>1 DEF Inserted, Over
    <2>3. stage' \notin Over => \A x \in Keys : Contents'[x] = Last(Declares(Inserted, x))'
      BY <1>4, <2>1, <2>2
    <2> DEFINE k == file[s].uses[u + 1]
    <2>4. k \in Keys
      <3>1. u + 1 \in 1..Len(file[s].uses)
        BY <1>1, <2>1, <2>2, FileType
      <3> QED
        BY <1>1, <2>2, <3>1, FileType
    <2>5. answer'.found = Last(Declares(Len(file), k))
      BY <2>1, <2>2, <2>4, TableTells
    <2> HIDE DEF k
    <2>6. resolved' = resolved \cup {[stmt |-> s, name |-> k, found |-> answer'.found]}
      BY <2>1 DEF k
    <2>7. FoundAsDeclared'
      BY <1>1, <1>3, <2>1, <2>5, <2>6 DEF FoundAsDeclared, Declares
    <2>8. u' \in Nat /\ FreedOnlyChained' /\ stage' \notin {"abort", "corrupt"}
      BY <1>1, <1>6, <2>1
    <2>9. AllAsked'
      BY <1>asks, <2>1, <2>2 DEF Checked
    <2>10. UnresolvedWereWarned'
      <3>1. ASSUME answer'.found = NULL
            PROVE  [stmt |-> s, name |-> k, found |-> FALSE] \in asked
        <4>1. Declares(Len(file), k) = {}
          <5>1. Len(file) \in 0..Len(file)
            BY <1>1
          <5>2. Last(Declares(Len(file), k)) = NULL
            BY <2>5, <3>1
          <5> QED
            BY <1>1, <5>1, <5>2, DeclaredLast
        <4>2. Declares(s, k) = {}
          BY <1>1, <2>2, <4>1 DEF Declares
        <4>3. PICK b \in BOOLEAN : [stmt |-> s, name |-> k, found |-> b] \in asked
          <5>1. u + 1 \in 1..Len(file[s].uses) /\ Checked(s, u + 1)
            BY <1>1, <2>1, <2>2, FileType DEF Checked
          <5> QED
            BY <1>1, <2>2, <5>1 DEF AllAsked, k
        <4>4. ~b
          BY <1>1, <4>2, <4>3 DEF FoundAsDeclared
        <4> QED
          BY <4>3, <4>4
      <3> DEFINE new == [stmt |-> s, name |-> k, found |-> answer'.found]
      <3>2. new.found = NULL => [stmt |-> new.stmt, name |-> new.name, found |-> FALSE] \in asked
        BY <3>1
      <3>3. resolved' = resolved \cup {new} /\ asked' = asked
        BY <2>1, <2>6
      <3> HIDE DEF new
      <3> QED
        BY <1>1, <3>2, <3>3 DEF UnresolvedWereWarned
    <2> QED
      BY <1>1, <1>3, <2>1, <2>2, <2>3, <2>7, <2>8, <2>9, <2>10 DEF MainInv, Over
  <1>13. CASE NextConverted
    <2>1. /\ stage = "convert" /\ UNCHANGED <<vars, asked, resolved>> /\ ~InsertStmt /\ ~Release /\ u' = 0
          /\ \/ s < Len(file) /\ stage' = "convert" /\ s' = s + 1
             \/ stage' = "write" /\ s' = s
      BY <1>13 DEF NextConverted, InsertStmt, Release
    <2>2. s \in 1..Len(file) /\ stage \notin Over /\ Inserted' = Inserted
      BY <1>1, <1>3, <2>1 DEF Inserted, Over
    <2>3. stage' \notin Over => \A x \in Keys : Contents'[x] = Last(Declares(Inserted, x))'
      BY <1>4, <2>1, <2>2
    <2>4. FoundAsDeclared' /\ FreedOnlyChained' /\ UnresolvedWereWarned'
      BY <1>5, <1>6, <2>1
    <2>5. s' \in 0..Len(file') /\ u' \in Nat /\ (stage' = "convert" => s' >= 1)
      BY <1>1, <1>3, <2>1, <2>2
    <2>6. stage' \in {"declare", "convert", "write"} /\ pc' = pc
      BY <2>1 DEF vars
    <2>7. AllAsked'
      BY <1>1, <1>asks, <2>1, <2>2 DEF Checked
    <2> QED
      BY <1>1, <1>3, <2>3, <2>4, <2>5, <2>6, <2>7 DEF MainInv, Over
  <1>14. CASE Release
    <2>1. stage' = "exit 0" /\ UNCHANGED <<s, u, asked, resolved>>
      BY <1>14 DEF Release
    <2>2. FoundAsDeclared' /\ FreedOnlyChained' /\ UnresolvedWereWarned'
      BY <1>5, <1>6, <2>1
    <2>3. stage = "release"
      BY <1>14 DEF Release
    <2> QED
      BY <1>1, <1>3, <2>1, <2>2, <2>3 DEF MainInv, Over
  <1>15. CASE TableWorks \/ MainOver \/ UNCHANGED allvars
    <2>1. UNCHANGED mainvars /\ (Continue \/ UNCHANGED vars)
      BY <1>15 DEF TableWorks, MainOver, allvars
    <2>2. UNCHANGED <<file, stage, s, u, asked, resolved>>
      BY <2>1 DEF mainvars
    <2>3. ~InsertStmt /\ ~Release
      BY <1>1, <2>2 DEF InsertStmt, Release
    <2>4. stage' \notin Over => stage \notin Over /\ Inserted' = Inserted
      BY <2>2 DEF Inserted
    <2>5. stage' \notin Over => \A x \in Keys : Contents'[x] = Last(Declares(Inserted, x))'
      BY <1>4, <2>3, <2>4
    <2>6. stage \in {"abort", "corrupt"} => UNCHANGED vars
      BY <1>1, <2>1 DEF Continue, MoveEntry, SwapTables, RemoveHead, RemoveChained, RemoveMissed
    <2>7. FreedOnlyChained'
      <3>1. CASE stage \in {"abort", "corrupt"}
        BY <1>1, <2>2, <2>6, <3>1 DEF FreedOnlyChained, Declares, HeadIs, Bucket, Index, vars
      <3>2. CASE stage \notin {"abort", "corrupt"}
        BY <1>6, <2>2, <3>2
      <3> QED
        BY <3>1, <3>2
    <2>8. stage' \in {"abort", "corrupt"} => pc' = "idle"
      BY <1>1, <2>2, <2>6 DEF vars
    <2>9. stage' \notin Over => AllAsked'
      BY <1>asks, <2>2, <2>4 DEF Checked
    <2> QED
      BY <1>1, <1>3, <1>5, <2>2, <2>5, <2>7, <2>8, <2>9 DEF MainInv
  <1> QED
    BY <1>7, <1>8, <1>9, <1>10, <1>11, <1>12, <1>13, <1>14, <1>15 DEF MainStep

(* The invariant of main.                                                  *)
LEMMA MainInvariant == MainSpec => []MainInv
  BY MainInit, MainNext, PTL DEF MainSpec

(* Whatever statements a file has and however their names collide, the     *)
(* checker and the converter are told what the file declares.              *)
THEOREM NamesFound == MainSpec => []FoundAsDeclared
  <1>1. MainInv => FoundAsDeclared
    BY DEF MainInv
  <1> QED
    BY <1>1, MainInvariant, PTL

(* The converter makes a variable of no name of the file that the user was *)
(* not warned of, in whatever statements it is declared and used.          *)
THEOREM UnresolvedWarned == MainSpec => []UnresolvedWereWarned
  <1>1. MainInv => UnresolvedWereWarned
    BY DEF MainInv
  <1> QED
    BY <1>1, MainInvariant, PTL

(* Memory of the arena is freed only for a name that is declared again and *)
(* is behind another one in its bucket.                                    *)
THEOREM FreesOnlyChained == MainSpec => []FreedOnlyChained
  <1>1. MainInv => FreedOnlyChained
    BY DEF MainInv
  <1> QED
    BY <1>1, MainInvariant, PTL
=============================================================================
