# LogRef: specifications and proofs

LogRef catalogues the log messages of Postgres and resolves rendered log lines
back to the call sites that print them. This directory models its core in TLA+,
checks the models with TLC and proves with TLAPS that the matcher implements its
abstract specification and that the other components are safe. Paths below are
relative to the repository; `scan.rs` is `crates/logref-core/src/scan.rs`, `scan.ts`
is `site/src/scan.ts`, `prefix.ts` its neighbour, `lib.rs` is
`crates/logref-extract/src/lib.rs`, and `updater.yml` is
`.github/workflows/auto-update-pr-branches.yml`.

## Inventory

| Part | State | Operations | What is hard about it | What makes it correct |
|---|---|---|---|---|
| Format lowering (`scan.rs` 184-383) | none | `lower_format`, `render_sample` | spec parsing, `%%`, `%n` | literals maximal and non-empty; a sample matches its own pattern |
| `SpecMatcher` (`scan.rs` 453-868) | compiled tokens, anchor automaton; the recursion of `match_toks` | `build`, `candidates`, `verify`, `match_toks` | backtracking in a regex engine's preference order over bytes of UTF-8 text | same answer as the anchored regex, no slice inside a char, it ends |
| `Scanner` (`scan.rs` 877-1262) | parallel vectors per pattern, lazily built oracle side | `build`, `scan_line`, `scan_line_trigram`, `scan_line_regexset`, their span twins, counts | two prefilters, a cache built on first use, alignment of site and pattern numbers, tie order | three paths, one answer; no match pruned; every site accounted for |
| Wasm boundary (`crates/logref-wasm`, `site/src/packed.ts`) | one flat `i32` buffer per batch | `pack`, `decodePacked` | cursor in step with the writer, UTF-8 against UTF-16 | decoding returns the hits |
| Scan index and line pipeline (`patterns.ts`, `wasmScanner.ts`, `prefix.ts`) | shipped array of sites | `buildScanIndex`, `sitesToJsonl`, `scanLines`, `stripLogPrefix` | numbering across sort and filter | a hit names the site it was lowered from |
| Scan page (`scan.ts`) | scanner promise, textarea, results, status line | load, run, clear, pick a file | awaits, late file reads, failed loads | the page shows the results of its own text |
| Extractor (`crates/logref-extract`) | one-entry file cache | Semgrep JSON to sites, C call text parsers | byte indexes at the end of text, escapes | parsers stay in range; text equals what C would print |
| Coverage attribution (`reproducers/*.py`) | credited sites | join captures to the catalog | basename keys, unique-match rule | a credited site was really hit |
| Cluster harness (`reproducers/lib.sh`) | tracked clusters, port counter | start, wait, capture, tear down | failure between start and track, bounded polls | nothing tracked survives; captures precede teardown |
| PR branch updater (`.github/workflows/auto-update-pr-branches.yml`) | one pass over open PRs | poll, update, report | cancellation, asynchronous merge state | a branch that is behind is eventually updated |
| CLI, search, site build, rendering, schema, benchmarks | none that outlives a call | I/O and formatting | little | not modelled |

The extractor writes the catalog; the site's build lowers it into a scan index;
the page hands that index to `Scanner` through the wasm boundary and scans
lines with it; the CLI calls `Scanner` directly. The reproducers check the
catalog against what a real server logs.

## Modules

| Module | Content | Runs |
|---|---|---|
| `PrintfPattern` | bytes and UTF-8 text, tokens of a lowered format, what each regex fragment matches, the preferred parse (`Captures`) | |
| `AnchorFilter` | the anchor literal of a pattern and the test that makes it a candidate | |
| `RegexOracle` | abstract: one pattern, one line, one answer, the regex crate's | |
| `Lowering` | `lower_format` and `render_sample`, char by char | `lowering`, `lowering_padded` |
| `SpecMatcher` | `candidates`, `verify` and `match_toks` for one pattern and one line | `specmatcher`, `specmatcher_unicode` |
| `ScanOracle` | abstract: a line asked, the ranked answer replied | |
| `Scanner` | `build`, the lazy oracle side and the three scan paths | `scanner`, `scanner_sigma` |
| `LinePipeline` | the site's index, prefix stripping, the packed buffer and its decoder, labelling | `line_pipeline`, `packed_bom` |
| `ScanPage` | the event loop of the Scan page | `scanpage` |
| `CallText` | the extractor's walker over the C text of one call, up to `build_site` | |
| `Extractor` | the extractor's main program over a checkout that may be edited | `extractor`, `extractor_comments` |
| `BranchUpdater` | passes over the open pull requests, GitHub and the authors | `branch_updater` |
| `Sorting` | what a sort returns, which the code leaves to its libraries | |
| `PatternFacts` | lemmas about text, patterns, recursion and sorting | |
| `SpecMatcherProof`, `ScannerProof`, `LoweringProof`, `ExtractorProof`, `LinePipelineProof`, `ScanPageProof`, `BranchUpdaterProof` | the theorems of each component | |
| `MC...` | instances for TLC | |

The modules join where the code does. `Lowering` produces the token sequences
that `SpecMatcher`, `Scanner` and `LinePipeline` take for granted: that they are
patterns (`IsPattern`) is an assumption there and a theorem in `LoweringProof`.
`SpecMatcher` implements `RegexOracle`; `Scanner` builds on that abstract answer
and implements `ScanOracle`; `LinePipeline` takes the answer of `ScanOracle`
through the boundary to the page.

### How the models correspond to the code

*SpecMatcher.* `match_toks` recurses once per spec. The stack of its frames is
the variable `cut`: `cut[i]` is the `pos` of the frame that handles token `i`,
`cut[i + 1]` the end it tries at the moment (`e`, `ls`, `end`). `pc = "walk"`
means a frame is entered, `pc = "fail"` that a call returned false. Each arm of
the `match` is one action when entered (`Char`, `Number`, `Pointer`, `LastGap`,
`GapBeforeLiteral`, `GapBeforeSpec`), and the bodies of its retry loops are
`Shrink`, `NextOccurrence` and `Grow`; the iterative literal loop is `Literal`.
The `caps` slots are the slices between cuts. A position is a byte offset.

*Scanner.* `SkipNoText`, `RejectText`, `CompileSite` and `FinishBuild` are the loop
of `build`; patterns and sites are numbered from 1. A call that needs the oracle
side passes `OnceLock::get_or_init`: unless it is `built`, its two loops run, a
pattern per step (`TallyPattern` counts its trigrams, `FilePattern` puts it into a
bucket or into `always_check`), then `HaveOracle` goes on. `FindCandidates` lists
the candidates of the call in ascending order (`todo`), `Verify` handles one of
them, `Return` sorts. A candidate of `scan_line` is verified with ASCII digits
(`Ascii`, the answer `SpecMatcher` is shown to give), one of the other paths with
the `\d` of the regex crate (`CapturesOn`). The span twins of the paths return the
same hits, so captures are spans and one action stands for both. `str::to_lowercase`
is modelled with its one context-sensitive rule, the final sigma, because the
trigrams depend on it. The capture texts, the escaping of literals and the automata
(Aho-Corasick, memmem, RegexSet) are modelled by what they return.

*Lowering.* One action per turn of each loop: a char, an escaped percent, a
conversion, `%n`, the rejection and the end. `parse_spec` is an operator on the
format and a position; a char is an element of `Char` with its bytes in `Utf8`.
`pieces` says what the programmer meant and `fmt` how it was spelled (`Spells`, by
the grammar of printf(3), `IsConversion`), so
properties can compare the tokens with the meaning and with the lines that
`printf` writes. `printf` is external: `Value` holds the texts an argument may be
written as (`IsValue` says which; a hex float has hex digits), `FieldWidth` the
widths of padded arguments, `Separator` what the locale puts between groups of
digits, and `Printed` adds the sign, the `0x`, the groups and the padding as C does.
Left out are `*m$`,
negative `*` widths, texts of several lines, numbers that are not finite, and the
zero that `%.0d` does not print. The prose of `render_sample` is one word.

*LinePipeline.* The loop of `buildScanIndex` files a page in one of three
buckets per step, `ShipIndex` sorts the index and numbers it. `PackLine` is one
turn of `scan_batch_packed`, with the casts to `i32` (`AsI32`, on a scaled
`I32`); `ReadCount` and `ReadHit` are the two loops of `decodePacked` with the
cursor `p`. A JavaScript string is its UTF-16 units, each written as the bytes it
stands for, so a slice by byte offsets and a slice by units differ where they do
in the code. `marks`, the buffer's length after each line, is a history. The date of
a leading timestamp is one atom (`Stamp`); what the regex of `prefix.ts` 58-61 does
behind it is kept: the run of `[\d:.,+-]`, the optional word meant for a zone, the
blanks and the optional pid (`PastStamp`, from `PastRun`, `PastZone`, `PastPid`). The
regex never needs to back off, since each part is followed by one that may be empty.
The branch of `pack` for an absent group (`core_impl.rs` 139-141) is left out: every
group of a lowered pattern takes part in a match.

*CallText and Extractor.* A text is a sequence of atoms: punctuation, a byte of
a wide char, or a word for a run of identifier chars. The index arithmetic of
the Rust code is kept, `skip_literal` running past the end included; an operator
returns `Panic` where Rust would. `Extractor` keeps the order of the program:
Semgrep's report, all sources read through the one-entry cache, then the output
created, then a line per site through a buffer. A source may be edited after
Semgrep has read it. What Semgrep matches is external.

*BranchUpdater.* The pass is one process (`pc`), a pull request at a time: skip,
poll up to `MaxPolls` times, then file or update it. GitHub is external: it
forgets merge states when the default branch moves, computes them in any order
and at any pace, cancels a job some time after it was told, and may fail a call
before or after it took effect. An update is accepted first (`Accepted`, into
`queued`) and carried out later or given up (`CarryOut`, `GiveUp`). Authors merge,
resolve conflicts and rewrite branches by force meanwhile; `undone` is the history
of what was lost since a pass last asked. What GitHub answers about a branch is a
set (`mergeable_state`): `blocked` stands for blocked, unstable and draft, which may
hide that the branch is behind, and where up to date branches are not required
(`strict` is off) nothing is behind. Passes begin at a push or by hand
(`Dispatch`); the label selector is off, as in the file. An error outside the `try`
(listing, polling, the summary) ends the pass without a report (`AbortPass`).

*ScanPage.* An event handler runs up to its `await`; what follows is a job, and
the browser handles no event while a job is left (`Idle`). `waiting` counts the
calls of `run` that wait for `ready`, `reads` holds the file reads in flight,
which may end in any order or be rejected. A text stands for its own results.

## Runs

| Run | Instance | Shows |
|---|---|---|
| `specmatcher` | all patterns of up to 3 tokens of five families on all lines of up to 3 to 5 pieces: 568,000 states | the walk implements the regex with ASCII digits, captures included; positions are char boundaries; retries follow the preference order; every walk ends |
| `specmatcher_unicode` | the same | **violated**: with the `\d` of the regex crate the answers differ on a non-ASCII digit |
| `scanner` | catalogs of 0 to 5 sites that share trigrams, rank alike, shadow one another, are rejected or have no text; 40-odd lines; any sequence of calls: 59,000 states | the paths agree with `ScanOracle`; the two loops of the oracle side file every pattern in one place; no prefilter loses a match; the report and the parallel vectors account for every site |
| `scanner_sigma` | words that end in a capital sigma | **violated**: the trigram prefilter drops a match |
| `lowering` | every combination of position, flags, width, precision, length and seven conversions, `%a` among them; messages of up to 4 pieces; all strings of up to 4 of nine format chars; up to two values per conversion, negative and wide ones among them, widths 0 and 3, digits grouped: 130,000 states | both loops reject the same formats; the tokens are a pattern and the counts are theirs; modifiers do not change the tokens; a sample resolves; so do the lines `printf` writes for plain formats |
| `lowering_padded` | numbers with widths, `+`, `#` and `'`, and `%a` | **violated**: a number that is padded, signed, grouped or a hex float does not resolve |
| `extractor` | 218 calls of a grammar (escapes, wrapped and plural messages, char constants, nested calls, computed messages) one by one, and three calls over two files that are edited or missing: 53,000 states | each site is the one meant; nothing that is C panics; calls are not torn between versions of a file; tallies and lines agree; the old inventory survives a failure before the output is opened |
| `extractor_comments` | calls with an apostrophe in a comment | **violated**: the message behind it is lost |
| `line_pipeline` | 8 catalogs of up to 8 pages, batches of up to two lines, ASCII and not, behind nothing, a `LEVEL:` or a timestamp with and without zone and pid: 21,000 states | the reader stays in step; the pages shown are those whose format the line renders, in order; each value stands under its own label; the core is the logged message wherever the prefix is unambiguous |
| `packed_bom` | a capture that begins with U+FEFF | **violated**: the decoder drops it |
| `scanpage` | 2 files with text, 1 blank, 5 texts, 4 user events | the results shown are those of the textarea; the summary is that of the results; `Reading` ends |
| `branch_updater` | 3 pull requests (a draft that merges by itself, a fork, a draft), 3 pushes, a pass by hand, 4 polls: 133,000 states | a report names each pull request once; green accounts for the push on every branch; the newest push's pass comes to its end |

*Why the bounds are enough.* In the matcher, the behaviour of a token depends on the
token after it and on the byte classes at its two ends; three tokens give every pair
of neighbours with something before or after it, and the fifth family of longer
messages adds three gaps that backtrack into one another. The alphabet has a member
of every difference of the classes the code tests (a digit that is octal, one that
is not, a hex letter, `-`, `x`, a newline, a wide char, a wide digit). Lines of up
to five pieces are long enough for an occurrence of a literal to fail and a later
one to match. In `Lowering` a turn depends on the run before it and on one
conversion: three pieces give a conversion with text, `%%` or `%n` on both sides,
and the exhaustive strings contain every way a spec can break off. In `LinePipeline`
two lines suffice for a cursor that drifts, and eight pages have every tie of the
two sort keys; `I32` = 128 keeps the casts exact as 2^32 does for real batches. In
`Extractor` three calls over two files make the cache hit, miss and miss again, with
one edit between. In `BranchUpdater` the third push replaces a pass that waits while
another one is being cancelled, and the pass by hand repeats one whose update is
still queued. Branches do not act on each other and the pass is at one at a time, so
one that may be updated gives every interleaving with GitHub and its author; the
others keep the pass busy before and after it. Four page events allow two reads in
flight, a Clear between them and a run asked for before the load. The proofs below
remove these bounds, on patterns, lines, formats, catalogs, files, events and pull
requests, for every property they state.

*State bounds.* `MaxEvents` bounds what the user does, `MaxPushes` the pushes and
`MaxDispatches` the passes by hand;
`MaxPolls` is the constant of `updater.yml`. At most one edit happens per run of
the extractor. Nothing else is cut off. The deadlock check is off where a program
ends (`specmatcher`, `lowering`, `extractor`, `line_pipeline`) or the user may
stop (`scanpage`, `branch_updater`); the scanner always accepts a call, so there
it is on.

*Fairness.* `SpecMatcher` has weak fairness of `Next`: one thread runs a call to
its end. `ScanPage` has weak fairness of `Run` (microtasks run), of the load
settling, and of file reads ending in success or rejection; there is none for
the user. `BranchUpdater` has weak fairness of `StartPass` and `Pass`: the runner
starts a waiting job and a job runs to its end or its timeout; nothing is asked
of GitHub's background computing, of the updates it has queued or of the authors,
so the property holds because the polls are bounded. A pass that an error or the
timeout ends counts as handled there: nobody starts it again. `Scanner`, `Lowering`, `Extractor` and
`LinePipeline` have none: they are straight-line programs whose properties are
safety properties.

## Findings

1. `match_toks` reads ASCII digits, the regex fragment `\d+` Unicode ones
   (`scan.rs` 747 and 264): `%d` matches U+0663 along `scan_line_regexset` only.
   The comment at `scan.rs` 1247-1248 promises identical answers for every line.
2. `to_lowercase` turns a capital sigma into the final form only at the end of a
   word (`scan.rs` 70, 1088), so a literal of the catalog that ends in one may
   share no trigram with a line that contains it. The comment at `scan.rs` 66-68
   calls the prefilter sound.
3. Width and flags are discarded although they change what `printf` writes: a
   number padded with blanks, printed with `+` or `0x`, or with its digits grouped,
   is not in the class its conversion lowers to (`scan.rs` 264, 267). `scan.rs`
   278-281 says they do not affect "what characters can appear". Without any
   modifier, `%a` lowers to a class of floats (246, 268) that lacks the hex digits
   `b`, `c` and `d`.
4. The walker of the extractor knows no comments: an apostrophe in one opens a
   char literal that swallows the messages behind it (`lib.rs` 243). `lib.rs`
   232-236 says that every call is found.
5. `TextDecoder` drops a byte order mark at the start of a capture of a
   non-ASCII line (`packed.ts` 68); `packed.rs` 26-27 calls the reconstruction
   exact for every input.

No page of `site/reference` holds a capital sigma, and `printf` writes ASCII
digits, so 1 and 2 are limits of what the comments promise rather than of what
the catalog meets (a line pasted by a user may hold either). `specmatcher` and
`scanner` therefore read `\d` as ASCII and leave the capital sigma to the
violated run; `PlainLinesResolve` and `CapturesLabelled` are what remains of 3
and 5.

A limit the properties state instead of hiding: `stripLogPrefix` cuts at the last
`LEVEL:` marker, so a message that itself holds one loses its head. The comment
at `prefix.ts` 8-10 speaks of a message that merely mentions a level.
Where there is no marker it drops a leading timestamp, by a regex whose groups are
optional (`prefix.ts` 59): without a zone word the first word of the message is taken
for one and dropped, a message that begins with `[4]` loses it to the pid, and an
offset set off by a blank stays in the core. `CoreIsMessage` excepts exactly these
(`Ambiguous`) and the messages with a marker; each exception is needed, TLC violates
the property without it.
`PlainLinesResolve` in turn is about every format without `%a` whose numbers are not
padded with blanks, ask for no sign, blank or `0x` and group no digits (`Unpadded`);
texts and `%m` may have any width.
`GreenMeansCurrent` does not say that a branch reported as up to date is so. The code
writes "(up to date: blocked)" or "(up to date: unknown)" of branches that may well
be behind; the property excepts the states that say nothing (`Opaque`), conflicts,
and branches that lost the push, or the update that was to bring it, after the pass
last asked.
`PathsAgree` speaks of `scan_line` only where no digit of the line is outside ASCII.

## Proofs

Every theorem holds for all values of the constants that satisfy the named
assumptions of the component. Each rests on an inductive invariant, which TLC
checked on the instance of the run as well (for `LinePipeline` without the
membership of `Reading`, an infinite set; for `Scanner` with the quantifier of
`Filed` over the trigrams of the catalog).

| Module | Theorem | Statement |
|---|---|---|
| `SpecMatcherProof` | `TypeCorrect`, `SlicesNeverSplitChars`, `MatchesAreParses` | `Spec => []TypeOK`, `[]SlicesOnBoundaries`, `[]MatchIsParse` |
| | `RetriesFollowPreference` | `Spec => PreferenceOrder` |
| | `NoParseIsPassedOver` | `Spec => []CompleteInv` |
| | `MatcherIsTheAsciiRegex` | `Spec => ImplementsAsciiRegex`: the refinement |
| `ScannerProof` | `TypeCorrect`, `SitesAreAccounted`, `EachFiledOnce` | `Spec => []TypeOK`, `[]SitesAccountedFor`, `[]FiledOnce` |
| | `NothingIsPruned`, `PathsAgreeWithoutSigma` | `[]NothingPruned` and `PathsAgree` (implements `ScanOracle`) when no literal of the catalog has a capital sigma; `PathsAgree` also needs lines without a wide digit (`NoWideDigits`) |
| | `TwoPathsAgree` | `PathsAgree` for `scan_line` and the RegexSet path, for every catalog, on lines without a wide digit |
| `LoweringProof` | `TypeCorrect`, `LowersToPatterns`, `LoopsAgree` | `Spec => []TypeOK`, `[]TokensArePattern`, `[]VerdictsAgree` |
| | `CountsAreRight`, `SamplesResolve` | `Spec => []CountsAreOfTokens`, `[]SampleResolves` |
| | `ModifiersAreDiscarded`, `PlainLinesAreResolved` | `Spec => []LowersLikeBareForm`, `[]PlainLinesResolve` |
| `ExtractorProof` | `TypeCorrect`, `OneVersionPerRun`, `EndsComplete`, `ReplacedOnlyWhenRead` | `Spec => []TypeOK`, `[]CallsFromOneVersion`, `[]DoneIsComplete`, `OldInventoryKept` |
| | `TalliesAreOfSites` | `Spec => []TalliesOfSites` |
| `ScanPageProof` | `TypeCorrect`, `PageShowsInput`, `SummaryFollowsResults` | `Spec => []TypeOK`, `[]ShownIsInput`, `[]SummaryOfResults` |
| `LinePipelineProof` | `TypeCorrect`, `PagesAreAccounted`, `ReaderInStep` | `Spec => []TypeOK`, `[]PagesAccountedFor`, `[]CursorInStep` |
| | `PagesShownMatch`, `CapturesAreLabelled` | `Spec => []ShownPagesMatch`, `[]CapturesLabelled` |
| | `CoresAreMessages` | `Spec => []CoreIsMessage` |
| `BranchUpdaterProof` | `TypeCorrect`, `GreenIsCurrent`, `PrsFiledOnce` | `Spec => []TypeOK`, `[]GreenMeansCurrent`, `[]EveryPrReported` |

*SpecMatcher.* `AlphabetAssumption` and `InputsAssumption`: lines are well-formed
UTF-8 (the type `str` guarantees it), a pattern has no empty literal and no two
literals in a row, and the byte classes are ASCII. That a match is a parse and
that positions are boundaries are not inductive: when a class gives back a byte,
the new end is a boundary only because the class covered ASCII bytes alone.
`WalkInv` therefore says of each frame that its token's fragment matches between
its two positions and, for a greedy class, that every byte above its floor
belongs to the class. It also says that a call that may still fail never holds
the end of a closing gap, since that arm returns true at once. The rest is one
lemma per action, reduced through `TryKeeps`, `TryBeforeLiteralKeeps` or
`RetryKeeps` to whether the new end makes its token pass. `PatternFacts` supplies
the reasons: an occurrence of well-formed text lies on boundaries
(`OccurrenceOnBoundaries`, by the first char that could be split), a char's end is
a boundary, a run of ASCII bytes may be cut anywhere, and a gap that grows by a
char other than newline remains a gap.

The refinement adds what the walk has ruled out. `CompleteInv` is `WalkInv`
and: no parse agrees with the frames up to some token and has an end there that
the regex prefers to the frame's (`NoneBetter`); in a call that returned false, no
parse agrees with all frames (`Refuted`); a line that does not match has no parse.
Each retry loop enumerates the ends that its token allows, so a step from one end
to the next passes over no parse. A match is then a parse that no other beats,
which is what `Captures` chooses (`UnbeatenIsCaptures`). That the recursive
`Parses` of the oracle holds exactly the cuts whose segments match
(`AllAsciiParses`) follows token by token, as a climb over the positions it has
reached; that the early exits, minimal length and missing anchor, lose nothing is
`ParsesLeaveRoom` and `CutsAreCandidates`.

*Scanner.* `CatalogAssumption` (what `Lowering` proves of a lowered format, and
lines that are UTF-8) and `CharAssumption` (a code point names one char, and texts
and their lowercase are chars). `ScannerInv` is `CatalogInv` (every pattern is that
of the site at its number, the report counts the sites passed), `OracleInv` and
`CallInv` (the candidates left ascend; the hits so far are the matches below
them). `OracleInv` follows the two loops: the counts are those of the patterns counted
so far (`Tallied`), the buckets and `always_check` those of the patterns filed so far
(`Filed`), and nothing is filed before all are counted; each turn keeps it
(`TallyStep`, `FileStep`). `EachFiledOnce` is what is left at the end of the loops: the
rarest trigram is one because rarity orders the trigrams (`RarestIsOne`,
`HomeOfPattern`). No match is pruned by the anchor because a parse holds its anchor literal
(`ParsesAreCandidates`), by the trigrams because lowering is char by char once no
literal has a capital sigma, so a substring's trigrams are the line's. Stable
sorting is `Ranked` by a linear order (`RankedSorts`). That `scan_line` verifies as the
regex does where a line has no wide digit is `AsciiCaptures`: the segments that match
are the same (`AsciiSegments`), hence the parses (`AsciiParses`). Both hypotheses are
sharp: the instance of run `scanner` satisfies them, that of `scanner_sigma` violates
one, that of `specmatcher_unicode` the other, and the conclusion with it.

*Lowering.* `LoweringAssumption` and `SampleAssumption`: `Utf8` gives each char its
bytes, a lead byte first, and the bytes of the canned values of `render_sample` are
the ASCII ones that name them ("4" is a digit, "w" no newline); the format is any
string, well-formed or not. `TypeOK` needs that `parse_spec` ends inside the format
when it finds a conversion (`SpecInside`, `KnownIsChar`). `TokensArePattern` is
inductive together with it: the last token of the first loop is never a literal, so
a flushed run cannot follow one, and the pending run is well-formed. For
`LoopsAgree` the two loops have nothing in common but the format. `LoopsInv` keeps
the positions of the first loop as a path (`Path`). The second loop starts on that
path and can only leave it at its end, where the first one stopped; there both stop
for the same reason because a conversion has a canned value exactly when it has a
class or is `%n` (`SampleOfKnown`). `CountsInv` is about the run that is not flushed
yet as well: its chars are counted before they are a token's (`TotalsGrow`,
`CharCounts`), and the group of a spec is its rank among the spec tokens
(`LabelsGrow`). `SampleInv` joins the path with the samples up to its positions
(`Samples`): while the first loop runs, the sample up to where it stands is a text
the tokens so far parse, followed by the pending run (`Renders`, `RendersGrow`,
`FlushRenders`); the second loop walks that path and has written the sample up to
where it stands. Each canned value is in the language of its class (`CannedFits`,
`MadeMatches`), cuts lie between whole chars, so the finished sample has a parse and
therefore captures (`ParseIsFound`, `ParsedIsCaptured`).

The last two theorems are about formats that somebody meant. `PiecesAssumption` says
that `fmt` is the spelling of `pieces`, chars and conversions of C's grammar.
`parse_spec` reads such a conversion to its end and finds its letter
(`SpelledSpec`): no part can begin with a char of the part before it, the one
exception, a width that would begin with 0, being excluded by the grammar itself.
`PiecesInv` then keeps the first loop at the beginning of a piece, with the
tokens and the pending run equal to the bare form of the pieces before it.
For the lines, `PrintedAssumption` says of each text in `Value` that `printf` may
write it for its conversion, and names the bytes of the minus sign, the zero and
the blank. It does not confine a text to the class of its conversion: that it is in
there is `ValueFits`, for every conversion but `%a`. Zeros
between sign and digits keep a number in it, and blanks keep a text in it
(`PrintedParts`, `WrittenFits`). `Renderable` follows the lines piece by piece as
`Renders` followed the sample (`RenderableGrows`, `LinesAreRendered`), so each one
has a parse by the bare form, that is, by the tokens. The hypothesis of
`PlainLinesResolve` is needed: run `lowering_padded` is the counterexample without it.

*Extractor.* `CallTextAssumption` and `CheckoutAssumption`: Semgrep's results name
files and lines of the checkout, counted from 1, and source texts are over the
atoms of the walker. `ExtractorInv` has a part per piece of state: `Texts`,
`Report`, `Lists`, `InventoryShape`; the cache holds a text the file has had
(`CacheOfPast`) and after a match it is the text the match was read from
(`LastIsCached`); calls read so far come from one version; and
the matches, sites and lines are in the report's order (`InTurn`). `EndsComplete`
is the point of the last one: the inventory of a run that ends has a line for each
site, no matter what was edited. `TalliesAreOfSites` has an invariant of its own,
`TallyInv`: a tally counts the sites of each key, and appending a site raises the
count of its key alone, or adds the key with a count of one.

*LinePipeline.* `LoweredAssumption` (what `Lowering` returns), `PagesAssumption` (no
two pages of a catalog have the same slug), `TextAssumption` (texts are bytes, an
ASCII byte is a char) and `SizeAssumption`: catalogs, lines and literals are shorter
than half of 2^32. That is what a wasm memory can hold, since no Rust object has
more than `isize::MAX` bytes, and it is what makes the casts to `i32` harmless
(`NumbersFit`), on which the reader depends. `PipelineInv` has five parts.
`IndexInv`: the pages passed are counted, and the scannable ones among them are in
the list, each once. `ShippedInv`: the shipped sites are that list by specificity,
and the scanner's number `n` is site `n`. `BufferInv`: between mark `k` and mark
`k + 1` the buffer holds the block of line `k`'s answer (`Block`), which never moves
when more is written (`PlacedLater`). `ReaderInv`: the cursor stands where the hit
to be read next begins in that block (`CursorAt`, with `Starts` for the hits'
places), and what has been decoded is the answer, read back. `ShownInv`: the page
shows the labels of what was decoded. `BlockReads` and `HitReads` say that reading
at such a place gives the packed hit and ends at the next one, so no count can put
the reader out of step. The two theorems about what is shown then relate a site
number to its page on both sides (`SitePages`, `PageSites`) and both encodings of a
capture to the same text (`CaptureIsText`): on an ASCII line a UTF-16 unit is a byte
(`AsciiUnits`), and a byte order mark is not ASCII. That this mark is left out on
other lines is in the statement (`TextDecode`); without it the theorem would
contradict run `packed_bom`. `CoresAreMessages` needs to know how a line is logged
(`LoggedAssumption`): a message without blanks at its ends, behind nothing, a
timestamp with or without zone and pid, or a prefix that ends with a `LEVEL:` marker.
If the message holds no marker, none reaches into it either, since a level is no
blank and no colon; the last marker of the line is therefore the prefix's, and what
is trimmed behind it is blank. A timestamp has no marker (`StampUnmarked`), and the
regex ends where it does (`StampEnds`): its runs stop at the first char outside their
class (`PastRunIs`), so a word behind the blanks is the zone if there is one, and the
message's own first word only in the case that `Ambiguous` names.

*ScanPage.* `PageInv` counts the work under way: waiting runs, jobs and reads are
no more than the events that began them, no job is left before the load
settles, results never precede the load. `UpToDate` is the heart: unless the load
failed, a run waits or is due, or the text was edited, what is shown is
`Results(input)`.

*BranchUpdater.* `UpdaterInv` follows the pass along the list: pull requests below
`at` are filed in one section, those from `at` on in none (`FiledBefore`), all
are at a report (`FiledAtEnd`); a state is settled before it is acted upon
(`SettledBefore`). For `GreenMeansCurrent` the branch at hand has the push when its
state is `clean` under the strict rule, and every step of GitHub or an author that
takes the push or its update away puts the branch into `undone` (`EnvironmentNotes`).

*The prover's encoding.* The SMT backend of this tlapm takes every value for a
sequence, which makes some false goals provable. All obligations were therefore
also discharged with that axiom confined to sequences; they do not depend on it.

*Only model-checked.* `EventuallyDecided`, `ReadingEnds` and `PushesAreHandled`
are liveness. `SitesAsMeant` and `OnlyEditsPanic` of `Extractor` are about what the
walker of `CallText` computes: nested recursions over a text, of a position and a
depth, and in `literal_text` over ever shorter texts. What such a definition
computes for every text needs induction over data for each of them.

## Not modelled

- *Coverage attribution* (`reproducers/*.py`): scripts that join text files other
  tools wrote, in one pass. The rules that could go wrong are conventions that no
  text of the repository states as a promise; they stay listed as hazards.
- *Cluster harness* (`reproducers/lib.sh`) and *reproducer scenarios*: their state
  is that of the Postgres servers they start; a model would be of Postgres.
- *Command-line resolver, site search, site build and rendering, schema and build
  scripts, benchmarks*: I/O, formatting and declarations, without state that
  outlives a call.
- Of the *wasm boundary*: `scanLine` and `scanBatch`, which return copies of the
  same hits, and the generated wrappers. Of the *line pipeline*: the memoized
  loader `wasmHost.ts`, a single assignment. Of the *index model*: JSON parsing and
  substring search.
- Hazards without a property: which of two files picked is shown last (the code
  has no rule), and the wrapped sum of a long hex escape, which `CallText` models
  (`U32`) but no C program contains. Of the page, a `Reading` line after a failed load
  or a rejected read, which the code leaves (`ReadingEnds` excepts both). Of the
  updater, a branch whose state stays unknown for four polls or says nothing of the
  push: the report names the state and calls it up to date. Of the line pipeline, the
  timestamps whose regex takes a part of the message with them. The last three are
  exceptions that the properties name.

## Open

Every safety and action property of the runs is a theorem but the two of the
walker. A proof of them would start from texts that are rows of lexemes (an atom, a
closed literal), show that each recursion of `CallText` only stops between two of
them, and that a substring between such places is a row of lexemes again.

## Running

    tlc -workers 2 -config MCSpecMatcher.cfg MCSpecMatcher
    tlc -workers 2 -config MCScanner.cfg MCScanner
    tlc -workers 2 -config MCLowering.cfg MCLowering
    tlc -workers 2 -config MCExtractor.cfg MCExtractor
    tlc -workers 2 -config MCLinePipeline.cfg MCLinePipeline
    tlc -workers 2 -config MCScanPage.cfg MCScanPage
    tlc -workers 2 -config MCBranchUpdater.cfg MCBranchUpdater
    tlapm PatternFacts.tla
    tlapm SpecMatcherProof.tla
    tlapm ScannerProof.tla
    tlapm LoweringProof.tla
    tlapm ExtractorProof.tla
    tlapm LinePipelineProof.tla
    tlapm ScanPageProof.tla
    tlapm BranchUpdaterProof.tla

The runs that end in a violation use the other configurations of these modules
(`MCSpecMatcherUnicode.cfg`, `MCScannerSigma.cfg`, `MCLoweringPadded.cfg`,
`MCExtractorComments.cfg`, `MCLinePipelineBom.cfg`).
