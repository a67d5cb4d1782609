---------------------------- MODULE MCModelFiles ----------------------------
(* Tokens of a letter, the characters the format treats apart, and two scalars of
   three bytes, one of them an ideographic space. Scalars are above 1000. *)
EXTENDS ModelFiles

a == 1097
sp == 1032
nl == 1010
brace == 1123
box == 1423
ni == 1320
wide == 1300

MCUtf8 ==
  a :> <<97>> @@ sp :> <<32>> @@ nl :> <<10>> @@ brace :> <<123>>
    @@ box :> <<226, 144, 163>> @@ ni :> <<228, 189, 160>> @@ wide :> <<227, 128, 128>>

MCBlank == {sp, nl, wide}
MCEscaped == {nl}
MCBraces == {brace}

Base(unit) ==
  LET ascii == IF unit = "byte" THEN <<<<97>>, <<32>>, <<10>>, <<123>>>>
               ELSE <<<<a>>, <<sp>>, <<nl>>, <<brace>>>>
  IN ascii \o [i \in 1..8 |-> <<(<<226, 144, 163, 228, 189, 160, 227, 128>>)[i]>>]

Output(unit, l, r) ==
  IF unit = "byte" THEN l \o r ELSE FromBytes(ToBytes(l) \o ToBytes(r))

\* The model with some special tokens, initial units and merges.
Model(unit, specials, units, pairs, valid) ==
  LET outputs == [i \in DOMAIN pairs |-> Output(unit, pairs[i][1], pairs[i][2])]
      vocab == specials \o Base(unit) \o units \o outputs
  IN [vocab |-> vocab,
      merges |-> [i \in DOMAIN pairs |->
        [left |-> pairs[i][1], right |-> pairs[i][2], target |-> Len(vocab) - Len(pairs) + i]],
      specials |-> Len(specials), valid |-> valid]

Eot(unit) == IF unit = "byte" THEN <<<<123, 97>>>> ELSE <<<<brace, a>>>>

ByteTrained ==
  [c \in {"spaced", "boxed", "spoiled"} |->
     CASE c = "spaced" -> Model("byte", Eot("byte"), << >>,
            <<<<<<32>>, <<97>>>>, <<<<123>>, <<10>>>>, <<<<32, 97>>, <<97>>>>>>, TRUE)
       [] c = "boxed" -> Model("byte", << >>, << >>,
            <<<<<<226>>, <<144>>>>, <<<<226, 144>>, <<163>>>>, <<<<32>>, <<97>>>>,
              <<<<226, 144, 163>>, <<32, 97>>>>>>, TRUE)
       [] c = "spoiled" -> Model("byte", << >>, << >>, <<<<<<97>>, <<97>>>>>>, FALSE)]

UnicodeTrained ==
  [c \in {"spaced", "boxed", "spoiled"} |->
     CASE c = "spaced" -> Model("unicode", Eot("unicode"), << >>,
            <<<<<<sp>>, <<a>>>>, <<<<brace>>, <<nl>>>>, <<<<228>>, <<189>>>>,
              <<<<228, 189>>, <<160>>>>, <<<<ni>>, <<a>>>>>>, TRUE)
       [] c = "boxed" -> Model("unicode", << >>, <<<<box>>>>,
            <<<<<<box>>, <<box>>>>, <<<<sp>>, <<box>>>>, <<<<sp, box>>, <<a>>>>>>, TRUE)
       [] c = "spoiled" -> Model("unicode", << >>, << >>, <<<<<<a>>, <<a>>>>>>, FALSE)]

MCTrained == "byte" :> ByteTrained @@ "unicode" :> UnicodeTrained
MCCorpora == {"spaced", "boxed", "spoiled"}

MCSetups ==
  {[tool |-> t, unit |-> u, format |-> f] :
     t \in {"cli", "python"}, u \in {"byte", "unicode"}, f \in {"gpt2", "unitoken"}}

\* Text with ideographic spaces: a word of two of them, or a unit of one.
WideTrained ==
  "byte" :> ("wide" :> Model("byte", << >>, << >>,
               <<<<<<227>>, <<128>>>>, <<<<227, 128>>, <<128>>>>,
                 <<<<227, 128, 128>>, <<227, 128, 128>>>>>>, TRUE))
    @@ "unicode" :> ("wide" :> Model("unicode", << >>, <<<<wide>>>>,
                       <<<<<<wide>>, <<wide>>>>, <<<<wide, wide>>, <<a>>>>>>, TRUE))
WideCorpora == {"wide"}

=============================================================================
