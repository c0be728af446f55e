# Verification of the SK combinators interpreter

TLA+ models of the interpreter in this repository, what TLC checks of them on
small instances, and what TLAPS proves of them for all. Paths are relative to
the root of the repository; `interpreter.c` is
`src/lib/interpreter/src/interpreter.c`, and likewise for `arena.c`,
`hashmap.c`, `hashtable.c`, `ast.c`, `parser.y` and `lexer.x`.

## 1. The system

`main` (`src/src/main.c`) runs one file through a line of phases in one thread.
Nearly everything is allocated from one arena and nothing is given back before
the end.

| component | state | operations | used by |
|---|---|---|---|
| arena (`arena.c`) | chain of arenas: memory, `ptr`, bitmap, `s_nodes`; a size header before each allocation | create, create_aligned, alloc, free, realloc, reset, destroy | all |
| lexer (`lexer.x`) | text, line, column, the location of the last match | `yylex` | parser |
| parser (`parser.y`) | bison's stack, the token read ahead | `yyparse` builds the AST; `yyerror` | main |
| syntax trees (`ast.c`) | statements `[var, expr, sk_expr]`, expressions IDENT / ABS / APP | constructors, deep copies | parser, converter |
| hash map (`hashmap.c`) | buckets with chains, element count, load factor | insert, get, exists, remove, free, growth | hash table |
| hash table, scope stack (`hashtable.c`) | name to statement; stack of bound names with NULL frame markers | lookups; push, pop, exists, clear | checker, converter |
| checker (`ast_check`) | the table; the stack | prints warnings, fills the table | main |
| converter (`ast_transform`, `_ast_expr_convert`, `_ast_expr_convert_sk`) | none of its own: rewrites the AST, builds SK trees | bracket abstraction with K and eta rules | main, `ast_convert` |
| reducer (`skt_beta_redu`, `skt_copy`, `_skt_get_leftmost`) | the graph of SK nodes, the current root `expr`, an iteration counter | K rule, S rule, copying of a referenced statement | `ast_convert` |
| printers, writer (`ast_print`, `skt_print`, `skt_write`) | a list of flags, one for each level of the tree | print trees, write the `.sk` file | main |

The components interact through calls and through shared memory: the reducer
rewrites in place a graph that other statements, and earlier steps, point into,
and the printers walk what it leaves. There are no threads, messages, retries or
files written concurrently, and nothing survives the process. What is hard is
aliasing, long sequences of destructive steps, order between statements and
between phases (what was declared when it was asked for, what was read when the
parser decided), limits (iterations, arena, stack, table, buffers) and
arithmetic on sizes and offsets.

What makes each component correct:

- **arena**: what is handed out lies in its arena and is never handed out twice;
  the bitmap has room for the bits set and shows what is in use; the header is
  written inside the memory; the sizes it is made with are consistent; the chain
  grows when it has to.
- **lexer, parser**: exactly the language of the grammar, its trees, locations
  that are those of the tokens, messages under the right line, no file that was
  refused is used.
- **converter**: the tree means what the expression means; no bound variable
  escapes; splitting abstractions changes no meaning.
- **reducer**: no dangling child; statements already reduced are never rewritten;
  each step is a step of the SK calculus; reduction stops at the right place;
  every file comes to an end; the assertion on a copy never fails.
- **hash map**: a map, whatever the collisions and however it grew.
- **scope stack, checker**: warns of exactly the undeclared names; stays inside
  its allocation.
- **printers, writer**: they end, they follow no NULL, and what they put out reads
  back as the term of the statement.
- **main**: every path ends, and each phase gets from the table what the file
  declares.

The hazards, each at its line with the properties that watch it, are in
`PROJECT.json`.

## 2. Modules

| module | what it is |
|---|---|
| `Expressions` | expressions as values, used by every phase up to the SK trees |
| `Lexer`, `Parser`, `Messages` | the lexer on a text of pieces; the grammar on bison's machine; how a message finds its source line |
| `Reader` | the three composed: tokens are lexed when the parser asks, errors and warnings look their line up |
| `ReaderProofs` | theorems about `Reader` |
| `Checker` | `ast_check`, `_ast_expr_check` and the scope stack |
| `Convert` | the converter as operators on trees |
| `LambdaCalculus` | de Bruijn terms and beta-eta normal forms, the reference for the converter |
| `Translation` | `ast_transform` and the conversions of a file, with their properties |
| `CheckerProofs` | theorems about `Checker` |
| `AstPrint` | `ast_print` |
| `Front` | main from the check to the SK trees: composes `Checker`, `Translation`, `AstPrint` |
| `BetaRedu` | the reducer, one action per step of the C code |
| `SKTerms` | SK trees as values, and the reduction relation |
| `SKCalculus` | abstract specification: a list of terms, declared and reduced by the rules; terms and reduction are its parameters |
| `BetaReduTerms` | what can be reached in the graph, the terms its nodes stand for, where the reducer stops; the reducer against `SKCalculus` |
| `BetaReduMeaning` | the terms of `BetaReduTerms` taken from `SKTerms`, for TLC |
| `BetaReduProofs` | theorems about `BetaRedu` and `BetaReduTerms` |
| `Output` | the reducer, then `skt_print`, then `skt_write`, on its graphs |
| `OutputProofs` | theorems about `Output` |
| `OutputMeaning` | what a reader gets back from the rows printed and the text written |
| `Test1` | `src/test/test1.ld` as it is parsed, and `src/test/test1.sk` |
| `Dictionary` | abstract specification of a map |
| `HashMap` | the hash map, one action per call, removal and growth in steps; implements `Dictionary` |
| `HashMapProofs` | tables, chains and the effect of each call; theorems about `HashMap` |
| `Program` | every path through `main`, with the table of statements (extends `HashMap`) |
| `ProgramProofs` | theorems about `Program` |
| `Arena` | the allocator, one action per library call |
| `ArithmeticLemmas`, `ArenaProofs` | quotients, least elements, functions defined from number to number; theorems about `Arena` |
| `Creation` | the creation functions of arena and hash map, on integers that wrap |
| `MCBetaRedu`, `MCOutput`, `MCFront`, `MCReader`, `MCProgram`, `MCHashMap`, `MCArena` | inputs for TLC; `MCArena` composes `Creation` with two arenas it makes |

Recursive operators are only in modules TLC evaluates (`SKTerms`, `Convert`,
`LambdaCalculus`, the `MC` modules, ...). `BetaRedu`, `BetaReduTerms`, `Output`,
`HashMap`, `Checker`, `Parser`, `Program` and `Arena` have none: loops and recursion
of the C code are steps there, and what is computed over a graph is a function on
its nodes or on the number of steps.

Some definitions (`StoredLate`, `Crossed`, `OldIndex`, ...) are used by nothing.
They are variants of the definition after them with a likely mistake; replacing
the definition by its variant must break the property that `PROJECT.json`
("mutants") pairs them with, which shows that the property depends on the code.

### Reader: Lexer, Parser, Messages

`Lexer` works on pieces, the matches of flex: a token, blanks, a line break, a
comment to the end of the line, one over any number of lines, a character without a
rule. A piece has the number of its characters up to its first line break, in each
line that is all its own, and behind the last line break.
Each match counts its line breaks, sets `yylloc` and moves `current_column`;
only the rule for a line break sets it back (`lexer.x:7-12, 41`). How flex finds
the matches is left out.

`Parser` is the machine bison makes of the grammar. Its stack holds symbols with
values, and `Shiftable` and `Reducible` say what the topmost ones admit, which is
the table of `src/docs/parser.output` without its numbers. It reads a token
only in states where the next token decides, and reduces without one elsewhere; that
is what makes `yylval` the right value for `lambda_token` (`parser.y:109`), and
`ast` set before the end of the file is seen. `YYMaxDepth` is the limit of its
stack.

`Messages` is the loop that `yyerror` and `_error_underline` share: `fgets` into
a buffer of `SLine` characters, counting reads and not lines. `Reader` calls the
lexer where the parser wants a token and has none, and starts a message either at the
`yylloc` of a syntax error or of the token there was no room for (`memory exhausted`) or,
for a file that was accepted, at the line of any name, which is what
the checker and the converter do. `LineOf` has the line each piece begins in.

### Front: Checker, Translation, AstPrint

The recursion of `_ast_expr_check` is the list `work` of calls and pops still to
be done; `stack` is the scope stack. `PushAll` has the allocation: after the first
overflow the old size is stored again (`hashtable.c:79-91`), so that there is room
for twice the first size; a push to a full stack reads the memory it had before
`realloc`, which may have moved, so that it either works or corrupts the heap.
Each identifier met is recorded with what binds it (`scope`) and whether it was
warned of.

`Transform`, `ConvertExpr` (with `ConvertIdentBody` and `ConvertAppBody` for its
cases), `ConvertSK`, `InFreeVarSet`, `InFreeVarSetSK` follow the C functions case
by case, the eta rules and the look-up of the wrong identifier included. The
node left uninitialised at `interpreter.c:374` is in memory from `calloc` that
nothing used before, so its type is 0, an S node. The hash table is a function
from names to the statement declared last under that name, which is what the
converter finds (`Program` shows it of the real table). Trees are values, because
every sub-tree the converter builds or rewrites has one owner. `Compile` puts a
whole file into the form `BetaRedu` takes.

`Front` runs check, transformation, printing and conversion in main's order on
the same AST. `ast_convert` reduces each statement before it converts the next;
what is converted does not depend on that, except for `sk_expr`, which
`BetaRedu` has.

### BetaRedu

Nodes are addresses: `mem` is the sequence of nodes in order of allocation, NULL
is 0. `[type, left, right, id]` is `struct sk_tree`. `roots`, `expr`, `i` are the
variables of the same name in `ast_convert` and `skt_beta_redu`; `spine` is the
path `_skt_get_leftmost` takes (`depth` its length less one); `todo` and
`copied` are the recursion of `skt_copy`: the calls still to be made, with the
node and the field the result goes into, and the result of the outermost call.

| action | code |
|---|---|
| `ConvertStmt` | `_ast_expr_convert` of the next statement: its nodes enter the arena, references take the `sk_expr` their statement has at that time (`interpreter.c:58-62, 566-594`) |
| `Iterate`, `BudgetSpent` | head of the `for` (76) |
| `WalkLeft`, `Arrived` | `_skt_get_leftmost` (803-812) |
| `KStep`, `SStep`, `RefStep`, `NoRedex` | the branches of the loop body (83-116) |
| `CopyNode`, `CopyReturns` | one call of `skt_copy` (136-192); the assignment of its result (111) |
| `FinishStmt`, `AllConverted` | the rest of the loop of `ast_convert` (63-67) |

A run ends in `"done"`, in `"assert"` (line 112) or in `"full"`: an allocation
beyond the arena, which in the program is a failing assertion. `MaxNodes` counts
SK nodes only. The nodes of a statement are given in post-order; the C code
allocates some in another order and leaves some unused, and nothing depends on
the order. For the same reason a statement that does not fit into the arena
contributes no node, where the program has allocated some before it ends.

### BetaReduTerms, SKCalculus

A node stands for a term when every path from it ends: it is `Grounded`. `TermOf`
is that term, references replaced by what they lead to, and `Endless` for any
other node. The terms are built by `Apply`, `SComb`, `KComb` and `Var`, which like
`Reduces` are constants, so that the same definitions serve the proofs, which hold
for all of them, and TLC, for which `MCBetaRedu.cfg` takes the trees and the
parallel reduction `ReducesTo` of `SKTerms`. `SKCalculus` declares a statement
with the term its code stands for (`Declare`) and reduces the last term
(`Reduce`). `RewritesShared` and `RenamesVariable` are the two ways in which the
code departs from it (section 5).

### Output

`Output` extends `BetaReduTerms`: when it is done, `skt_print` visits every root and
`skt_write` does. Both recursions are the list `work` of visits, of changes to
the list of flags and of tokens still to be written; a row records the flags it
was drawn with, and the text is a sequence of tokens. `"crash"` is a NULL that is
followed, or a row deeper than the list of flags; `"overflow"` is a recursion
deeper than `MaxDepth`, the C stack. The output file may fail to open, which is
the assertion in `skt_write`.

### HashMap, Program

A bucket is the sequence of its entries: head in the array, then chain. `Remove`
starts the loop at `hashmap.c:187`: `RemoveHead` moves the next node into the head
and goes round again, so that `false` is returned for a key that was there;
`MoveEntry` and `SwapTables` are the growth, entry by entry, after which
`load_threshold_factor` is 0. `freed` are the values given to `free`.

`Program` extends it with main's stages and drives the table as the checker and
the converter do, with their real order of questions and insertions; `asked` and
`resolved` record what they were told. The `uses` of a statement are the names in it
that are not on the scope stack, for which alone the checker asks the table
(`interpreter.c:213`). The characters after `file_type` are
whatever the build puts there, so `Refuse` may be taken for any file.

### Arena, Creation

A heap is `[nodes, allocs, status]`: the chain of arenas, each with `ptr` as an
offset from `_arena_get_base_ptr`, `s_nodes` and the set of bits set; all
allocations ever made with arena, offset, size, whether the header still holds
the size (`live`) and whether a caller has the pointer (`held`); and whether the
run goes on. `AfterAlloc`, `AfterFree`, `AfterRealloc`, `AfterReset` are the
library functions from heap to heap, because they call each other; the actions
`Alloc`, `Free`, `Realloc`, `Reset`, `Destroy` apply them. `InterpreterNext` is
what this program uses (allocations and one destroy), `Next` what the library
offers. Callers pass pointers they were given, freed ones included. `"aborted"`
is the assertion at line 312; `"corrupt"` is a free that clears bits behind the
bitmap, where the model stops. `HeapNodes` is how many arenas the C heap has room
for: `malloc` fails after that. Sizes and offsets do not overflow in `Arena`;
`Creation` has the functions where they may, with integers of `Width` bits.

## 3. Runs

| run | asks | answer |
|---|---|---|
| `MCReader` | does the parser accept exactly the language of the grammar (`AcceptsLanguage`) and build its trees (`TreeOfText`); are columns and lines of messages right (`ColumnsRight`, `RightLine`); does reading end (`ReaderEnds`)? | yes, up to the first comment that breaks a line and for lines that fit the buffer; beyond these, never a column too small or a line too late; every text is accepted or refused with a message that ends |
| `MCFront` | are warnings right (`WarningsRight`), is the scope stack inside its allocation (`FitsWhenShallow`), are trees printed right (`AstReadsBack`), are meanings kept (`TransformKeepsMeaning`, `HandledKeepsMeaning`), is every name left in a tree one that was warned of (`LeftWereWarned`), do the walks end (`FrontEnds`)? | yes, for the nesting and the expressions the properties name |
| `MCBetaRedu` | is each rewrite a step of the calculus (`StepReduces`), does reduction stop where it should (`StopsAtHeadNormal`), are finished statements left alone (`FinishedFrozen`), does the assertion hold without forward references (`NoAssertWhenClosed`), does every run end (`Termination`), is `IInv` an invariant? | yes, when no shared partial application is rewritten and no variable renamed |
| `MCOutput` | do text and tree read back as the terms (`ReadsBack`, `DrawnReadsBack`), is no NULL followed without forward references (`NoCrashWhenClosed`), does only a cyclic graph exhaust the C stack (`OverflowOnlyCyclic`), is `test1.sk` written for `test1.ld` (`WritesTest`), is every statement written in the end (`OutputEnds`)? | yes, unless the output cannot be opened, a forward reference is followed, or the statement at hand is cyclic |
| `MCHashMap` | is the table a map (`ImplementsDictionary`), in order through growth and removal (`Placed`, `Removes`, `ShortChains`), with no value freed that can be found (`NoDangling`), and do all calls return (`CallsReturn`)? | yes |
| `MCProgram` | do checker and converter find what the file declares (`FoundAsDeclared`), was every name without a statement warned of (`UnresolvedWereWarned`), when is memory of the arena freed (`FreedOnlyChained`), what was done on each way main ends (`ProgramEnds`)? | yes; memory is freed when a name is redeclared that is behind another in its bucket; main ends with 0 only when every name was looked up, and is stopped at the output file only then |
| `MCArena` | are arenas and maps made as `Arena` and `HashMap` assume (`MadeAsAssumed`); is nothing handed out twice (`Separated`), are bits and headers inside (`BitsInBitmap`, `HeaderInside`), are bitmaps exact (`BitmapsExact`), is `IInv` an invariant? | yes; with blocks, bits are missing once something was freed |
| `MCBetaReduSharing`, `MCBetaReduForward`, `MCFrontConstant`, `MCReaderTrailing`, `MCArenaScale` | the five statements of section 5 | no |

The refinements among them: the reducer against `SKCalculus` (step by step in
`StepReduces`, whole in `MCBetaReduSharing`) and `HashMap` against `Dictionary`.
`Program` extends `HashMap` and calls its actions, so that the table it drives is the
one that implements the dictionary.

**Bounds.**

- `MCReader`: all token sequences of the grammar with up to eight tokens over two
  names, abstractions of two variables and pairs of statements with ten, and every
  sequence that differs from one of these by a token inserted or removed; so each
  rule is used after each other and each error is met at each place. Sequences of
  up to eight tokens over one name come in 29 layouts: gaps of every kind in turn before
  and behind tokens, comments over two and over four lines among them. A buffer of 8 is one that some of the lines do
  not fit; `YYMaxDepth` of 7 one that the nested programs reach.
- `MCFront`: five nodes over three variables, two free names and a declaration is the smallest size with
  an abstraction inside an application inside an abstraction and both eta rules; the
  same size with a bound variable that has the name of the declaration;
  combinators with bodies of four names add the rule for both sides; nesting of seven
  nodes takes a stack of three beyond its allocation. A fuel of 40 normalises all
  the expressions it compares.
- `MCBetaRedu`: a declared combinator (identity, constant, duplicator, swap, one
  that uses its argument twice between free names, S itself) and a statement
  applying it and a free name in all shapes of up to four names, which gives K, S
  and reference redexes at every depth, shared and nested references and copies of
  trees with references; and three statements referring to each other in every
  order. 8 iterations and 40 nodes are used up by some of the files, also in the
  middle of a copy. The real bounds are 500 iterations and a megabyte; nothing in
  the code depends on their size, and the proofs hold for any.
- `MCOutput`: the first kind of files with 24 iterations, files whose statements
  use each other, the file whose graph becomes cyclic, and the test, which needs
  fewer than 24 iterations for each statement. `MaxDepth` of 60 is above the
  depth of every acyclic tree that occurs.
- `MCHashMap`: three keys that collide in one, two and four buckets, two of them also in
  eight; four values, so that a full map can be overwritten; growth from one
  bucket to eight and to the end of the heap. `MCProgram`: three statements over four
  names, from one bucket (main has 32) so that growth happens between
  statements.
- `MCArena`: 32 bytes in blocks of two with words of one byte, requests of one
  block, several, and more than an arena, a chain of two; the same without blocks.
  Creation takes every small size and the neighbours of all powers of two of
  16 bits. Deadlock is not checked for the arena and the map, whose process may
  have ended.

**Fairness.** The program is one sequential process that waits for nothing, so
weak fairness of its step is what running it means: `WF_vars(Step)` in
`BetaRedu`, of `OutputStep`, `MainStep`, `ReaderStep`, `Walk` (the two walks over
the AST in `Front`), and of `Continue` in `HashMap`, which goes on with a call
but makes none. Only the liveness properties need it.

## 4. Proofs

The modules named `...Proofs` are checked by TLAPS to the last leaf, from the
named assumptions of the modules they are about and nothing else:

- `ProgramsAssumption`, `BoundsAssumption` (`BetaRedu`): a file is a sequence of
  statements as the converter makes them; the bounds are numbers.
- `ArenaAssumption`: what the creation functions make sure of, which `MCArena`
  checks as `MadeAsAssumed`, block sizes, and sizes that are numbers.
- `HashMapAssumption`: hashes are numbers, `NULL` is no key and no value, buckets
  are a power of two.
- `InputsAssumption` (`Parser`), `TextsAssumption` (`Reader`): tokens are of the kinds
  the lexer returns, and no look-ahead is not the end of them; a text is cut into pieces of at least a character, its tokens are
  those of the sequence, and the buffer of a message has room for one.
- `FilesAssumption` (`Program`): each statement has an address of its own.
- `ExprsAssumption`, `FilesAssumption`, `DepthAssumption`, `PlainAssumption`
  (`Checker`): what expressions are; `Depth` counts at least the entries that the
  check of an expression pushes, `Plain` says that no application in it has an
  abstraction for a child. `MCFront` defines both by recursion, which TLC finds
  to satisfy the assumptions.

The inductive invariants were first checked by TLC with the constants of the
run of their module: `IInv` of `BetaRedu` and of `Arena` are invariants of `MCBetaRedu`
and `MCArena`; those of `HashMap`, `Checker`, `Program` (`MainInv`), `Output`
(`OutputInv`) and `Reader` (`ReaderInv`) contain the invariants that `MCHashMap`, `MCFront`,
`MCProgram`, `MCOutput` and `MCReader` list, and can be added to their `.cfg`.
Of the reducer's second invariant `GInv` and what is derived from it, TLC checked
`SpineLinked`, `RootsOK`, `Older`, `StopInv`, `InArena` and `RankDescends` with the
constants of `MCBetaRedu`; `Copying` and the output's `DepthInv` quantify over
functions, which TLC cannot enumerate, and are proved only.

**Reducer.** `IInv` is inductive. `HeapOK` alone is not: that an S step keeps
both children needs `SpineOK` (the nodes above the leftmost are applications of
this statement); that a copy ends with both children filled in needs `CopyOK`
(what a copy reads was complete before it began, and it writes only its own
nodes); that it starts from a node at all needs `RefsOK`, which in turn holds
only for files without forward references. `HeapOK` contains the fact that
makes finished statements safe: children of a node of the current statement
(`> base`) are of the current statement, so that only references, which are
never followed for writing, lead out. There is a lemma for each action, and
`StepInv` also shows that nodes up to `base` keep their value, from which
`FinishedNeverChanges` follows.

**Reducer and SK calculus.** The theorems about terms need a second inductive
invariant, `GInv`, on top of `IInv`: the spine really is the left branch of `expr`
(`SpineLinked`); roots of finished statements are below `base`, and nothing up to
`base` leads above it (`RootsOK`, `Older`); and while a copy is made there is a
function from its nodes to those they are copies of, with children linked or still
to be made (`Copying`).

`Grounded` and `Reached` are computed in as many steps as there are nodes, which is
enough: a set of at most n nodes that grows in every step grows in at most n of
them (`Climbs`, a counting argument). From that come the two facts everything else
uses: a node is grounded exactly when all it leads to are (`GroundedFacts`), and the
grounded nodes are the least set like that (`GroundedLeast`), which is the induction
over terms that the provers do not have. `TermFacts` then gives the equations of
`TermOf`.

What a rewrite does to terms is shown on any heap, apart from the machine: `PartKept`
(a part of the graph that no link leaves keeps its terms), `Congruence` (when every
node of such a part has the same links or has become what its term reduces to, all
terms of the part reduce), `KContracts`, `SContracts` and `CopyMeans`. `SContracts`
shows what `RewritesShared` is for: p and q are used again for other terms, so they
must be held by nothing but q and r. `KMeans`, `SMeans`, `CopyNodeMeans`,
`CopyReturnsMeans`, `ConvertMeans` and `FinishMeans` apply this to the actions;
`StepMeans` puts them together. The results:

- `StaysAcyclic`: no graph becomes cyclic without a shared rewrite.
- `StepsReduce`: `StepReduces` for every file, budget and arena.
- `ReducerImplements`: `ImplementsCalculus` for every run with neither a shared rewrite
  nor a renamed variable. That the condition cannot be dropped is what
  `MCBetaReduSharing` shows.

Their only assumption beyond those above is `IsReduction`: that `Reduces` has the
closure properties in `ReductionOn` (reflexive, compatible with application,
closed under the two rules). Any relation with them will do, so the least one does. That
`ReducesTo` has them TLC evaluates for some small terms (`ReductionAssumption` in
`MCBetaRedu`); it is a recursive operator, so for all terms it is not proved, only
read off its definition.

`EveryStepProgresses` is about what could go on for ever. `Rank` counts what is left
of statements, of iterations, of the phases of an iteration and of the nodes that the
spine or the arena can still get; each step makes it smaller (`RankFalls`). That it never
becomes negative is `ArenaBound` and `SpineShort`: in an acyclic graph the nodes of the
left branch are of falling levels (`LevelBefore`), so the walk is no longer than the graph
has nodes. On a cyclic graph there is no such bound.

`StopsCorrect` has an invariant of its own, `StopInv`: the spine that was looked at when
no rule applied still is the left branch when the statement is finished
(`SpineEnds`), and it is all of it (`SpineIsLeft`).

**Output.** `ReducerImplemented` is the composition: what happens before and
during the output is, seen from the reducer, a run of the reducer, so `IInv` holds
of the graph that is printed. `GraphDone` takes from it what the two walks need
when the reducer is done: both children of an application, and what a reference leads
to in a file without forward references. That no walk reads past the list of
flags is `ListOK`: every item of `work` says how long the list is before and after
it, these lengths follow on one another (`Linked`), and the first is the length
the list has. The items for a node keep this because they leave the list as long
as they found it (`BothChildren`, `OneChild`): each flag appended is removed on every path.

How deep the walks go is `DepthInv`. The nodes are grounded in levels, those of a
level leading only to earlier ones (`LevelBefore`); a call d levels below the root is
for a node of level `Len(mem) - d` at most, and level 0 is empty. So walks on
acyclic graphs are not as deep as there are nodes, and `OverflowRight` follows for any
stack with `MaxNodes <= MaxDepth`; with `StaysAcyclic`, so does `OutputNeverOverflows`.
In `MCOutput` the stack is smaller than the arena, and yet suffices for the graphs there.

**Hash map.** The proofs speak of a map by `Says(k, v)`, that an entry for k with
value v is in the table, or in either of the two during growth; `HashMapProofs`
first gives the effect of every action on it (`InsertEffect`, `RemovalEffect`,
`MoveEffect`, ...), and the theorems follow from these effects. `TypeOK /\ Placed`
is inductive. `NoDangling` is not: a value that is freed may be found
under another key unless every value has one key (`OneOwner`).
`ShortChains` needs `Uncrowded`. The load factor is lost in the first growth, and the
count of elements is too high after the removal of a head with successors, so no
bound on the count helps. What holds is a bound on the keys that are *behind* the
head of their bucket (`Crowd`): an insertion adds to them only if it then
compares the count with the threshold, and the count is at least the number
of keys. Growth changes neither the keys nor, in terms of the old number of buckets,
where they belong, and doubling separates keys but never brings any together.
`DictionaryImplemented` is the refinement: each action is an action of `Dictionary`
on `Contents`, or leaves it; removal takes effect in `RemoveHead` or
`RemoveChained` and not in the steps after it, and no step of growth has an effect.

**Program.** `MainInv` adds to `IInv` of the map that, until it is freed, the map
says of every name which of the statements inserted so far declares it last, and that
the checker has asked for every name of the statements it is through with (`AllAsked`).
Its lemma `MainCalls` shows that the map is only called as it was proved for.
`NamesFound` is what checker and converter are told; `UnresolvedWarned`, that a name
without a statement was warned of, needs both parts: that the question was put, and that
the answer was no because no statement declares the name in the whole file;
`FreesOnlyChained`, that memory of the arena reaches `free` only through a name that is
declared again and is behind another in its bucket.

**Checker.** Pops do not match pushes: a pop for an abstraction on the right
has no push, and takes a name that another pop was to take, or finds the stack
empty. So there is no equation between the stack and what is left to be done. What
there is, is a bound: every item of `work` owes the pops from it on (`Owing`), and so
the stack is no higher than `Height(x)` when the turn of x comes. `CallOK` says
of each call x that is left that up to this height only names in the scope of x
(or NULL) are on the stack, and that there is room above it for the depth of x.
The first gives `Warnings`, the second `StackFits`. For plain expressions, where
every pop has its push, `StackOK` makes the bound an equation, and the names around
x are all still there: then nothing else is warned of. Each action replaces
the first item by others that owe as much (`Replaced`, `OwingFront`).

**Arena.** `IInv` says of every heap that pointers are multiples of the stride,
extents are in order and below `ptr`, and below `s_arena`. `Separated` needs the
first two for the next allocation; `BitmapSufficient` is the arithmetic of
`BitsFit`: an allocation whose bytes end below `s_arena` has at most as many blocks
from there as the bitmap has bits, because a bitmap bit stands for `s_block`
bytes but a block takes `s_block + s_word`. There is one lemma for each operation on
heaps, with `ShrinkSound` for those that move no pointer. `BitmapShowsUse` is a
second induction on top of `IInv`: without blocks the bits of an allocation are its
bytes, so that those of two allocations are disjoint (`NoneShared`, from
`Separated`) and `arena_free`, which clears as many bits as the allocation has
bytes, clears exactly its own; with blocks it clears at least its own, which keeps
the bitmap from showing too much and, after the first free, no more than that.

**Reader.** `ReaderInv` joins lexer, parser and messages. `Place` has what makes
`ColumnsRight` inductive: `current_column` is always greater than what is before the
next piece in its line, and exactly one more while no comment has broken a line since the
last line break of its own. `RightLine` needs all three: that `yylineno` is the line
of the next piece (`Place`), that the last match is the token the parser refuses, because
the lexer is called only when the parser has used up what it returned (`Ahead`; also when
the stack is full, because only a token that was shifted and the reductions that need none
come between the last match and that), and that reading goes from line to line as long as lines fit (`Follows`). What is shown at the end of
the input is the last line, although `yylloc` may be one behind it; that a token's line
exists at all is `LinesThere`. `Before`, `LineOf` and `Sum` are recursive functions on an
interval of numbers. That such a function exists and is what its definition
says is `Stepwise`, and what holds at every number is `Upward` (`ArithmeticLemmas`): both
come from the least element of a set of numbers, so that no induction theorem with
an operator as parameter is needed. `TextsAssumption` says what flex guarantees: every match
has a character, and the tokens of the text are those of the sequence.

**Only model-checked.**

- The liveness properties (`Termination`, `OutputEnds`, `FrontEnds`, `ReaderEnds`,
  `ProgramEnds`, `CallsReturn`): the provers have no rules for fairness. Of
  `Termination` everything else is proved, for runs without a shared rewrite
  (`EveryStepProgresses`).
- All that compares with trees that are read back, with the lambda calculus or with a
  language: `ReadsBack`, `DrawnReadsBack`, `WritesTest`, `AstReadsBack`,
  `HandledKeepsMeaning`, `LeftWereWarned`, `TransformKeepsMeaning`,
  `AcceptsLanguage`, `TreeOfText`. They rest on recursive definitions over trees,
  texts or terms, whose values can only be had by induction over data.
- `MadeAsAssumed`: the arithmetic of `Creation` is on bits. `BitmapsExact` is
  `BitmapExact`, which is proved for every arena, of the two arenas of `MCArena`.

## 5. Where code and documents disagree

Each of these has a run that shows it.

1. `src/README.md:7`: an implementation of the SK calculus. The S rule rewrites
   the nodes of `S x` and `S x y` while references may still lead to them
   (`MCBetaReduSharing`, `interpreter.c:89-106`).
2. The assertion at `interpreter.c:112` fails for a reference to a later
   statement at the head (`MCBetaReduForward`).
3. `src/report.pdf` p. 4, rule (TCL 2): the abstraction of x from P without x is
   K P. For a lone identifier P the body is lost (`MCFrontConstant`, 374-403).
4. `src/src/main.c:55`: a file that does not parse ends the run. `ast` is set before
   the end of the file is looked at, so that one with an error behind its last
   statement is used (`MCReaderTrailing`).
5. `src/report.pdf` p. 8: the arenas are a linked list in order to scale. An arena
   that is used up is never found full (`MCArenaScale`, `arena.c:240-247`).

These were met while modelling; the properties exclude the case or state what
the code does instead:

- `src/report.pdf` p. 8: an expression that can reach normal form within the
  iterations will. Reduction stops at the weak head normal form
  (`interpreter.c:116`), which is what `StopsAtHeadNormal` says: `f (d f f)`
  keeps its redex.
- `src/report.pdf` p. 10: a bound variable stays a variable. One that has the
  name of a statement becomes a reference to it (567-586): with `let d = \x -> \y -> x;`
  `let p = \d -> \y -> d y;` becomes d. `Handled` excludes it.
- `src/report.pdf` p. 2, definition 3: x is not free in an abstraction of x. The test
  for free variables looks only at its body (712-734), and the K of (TCL 2) is missing:
  `\x -> \x -> \y -> x` becomes K, not K K. `Handled` excludes it.
- `src/report.pdf` p. 10: bound identifiers are known to the checker. The frame
  marker of an application hides outer ones (235): the inner x of
  `\x -> (\y -> x) x` is warned of; `WarningsRight` promises silence only without
  abstractions as children of applications.
- A root gets the name of its statement whatever it is (63): `let u = f;` becomes
  `u = u`, and the term f is lost; `StepReduces` excludes it (`RenamesVariable`).
- `src/README.md:36-40`: S and K are accepted in source files. The converter has
  no case for them: they are variables with these names.
- `interpreter.c:15`: variables are const. A name declared again takes its new
  value for uses between the declarations, too, because all statements are
  inserted before the first is converted; `FoundAsDeclared` says so.

## 6. Not modelled

- How flex recognises tokens in characters (generated code); how messages mark a
  word in colour; the characters of the lines of printed trees; names and tokens
  that are written next to each other without a blank.
- The contents of allocated bytes, and so what `arena_realloc` copies (it copies the
  new size from the old allocation, `arena.c:124`); `arena_get_size_used` (174 counts
  words as bytes) and `arena_print`, which nothing here uses.
- `stack_size` and `hashtable_size`, which are not called.
- The inside of the hash function: the properties hold for any hashes, and TLC uses
  ones that collide.
- Build files, license.

## 7. What is left

The components are modelled, and of each that can be reasoned about without
recursion the invariants are proved. Not proved, although it could be: that every
value on the stack of `Parser` is of the kind its symbol has (TLC evaluates the
trees in `MCReader`).
