-------------------------- MODULE TemplateRenderer --------------------------
(***************************************************************************)
(* TemplateRenderer.render() and the templates of prisma/seed.ts.  A text  *)
(* is a sequence of pieces; only what the renderer's pattern tells apart   *)
(* is kept of it: text that stays, {{name}}, {name}, and a value put in.   *)
(***************************************************************************)
EXTENDS Sequences

Piece(kind, name) == [kind |-> kind, name |-> name]

Plain == Piece("plain", "")
Token(name) == Piece("token", name)     \* {{name}}
Brace(name) == Piece("brace", name)     \* {name}: plain text to the renderer
Value(name) == Piece("value", name)

\* `variables` are the names that have a value; another token stays as written.
\* A value is put in as it is: tokens inside it are not looked at again.
Render(text, variables) ==
  [i \in DOMAIN text |->
     IF text[i].kind = "token" /\ text[i].name \in variables
     THEN Value(text[i].name) ELSE text[i]]

Placeholders(text) ==
  { piece \in { text[i] : i \in DOMAIN text } : piece.kind \in {"token", "brace"} }

-----------------------------------------------------------------------------
\* The three templates of the seed; "formal" becomes the active one.
SeededTemplates ==
  [formal |->
     [subject |-> <<Plain>>,
      body |-> <<Plain, Brace("customerName"), Plain, Brace("service"), Plain,
                 Brace("date"), Plain, Brace("time"), Plain>>],
   friendly |->
     [subject |-> <<Plain, Brace("customerName"), Plain>>,
      body |-> <<Plain, Brace("customerName"), Plain, Brace("service"), Plain,
                 Brace("date"), Plain, Brace("time"), Plain>>],
   minimal |->
     [subject |-> <<Plain, Brace("service")>>,
      body |-> <<Plain, Brace("customerName"), Plain, Brace("service"), Plain,
                 Brace("date"), Plain, Brace("time"), Plain>>]]
=============================================================================
