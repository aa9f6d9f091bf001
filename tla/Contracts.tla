------------------------------ MODULE Contracts ------------------------------
(***************************************************************************)
(* What a body or a query string may hold: the class-validator decorators  *)
(* of a DTO, and the ValidationPipe that applies them in every service and *)
(* gateway.                                                                *)
(*                                                                         *)
(* A value is abstracted to its kind and a number: the length of a text,   *)
(* the value of an integer, 1 for the others.                              *)
(***************************************************************************)
EXTENDS Naturals, FiniteSets

Kinds == {"text", "uuid", "email", "url", "date", "status", "contentType",
          "sourceType", "category", "int", "list", "object"}

Value(kind, n) == [kind |-> kind, n |-> n]

\* No bound from above.
Unbounded == 1000000

\* @IsString @MinLength @MaxLength; @IsInt @Min @Max; and the decorators that
\* ask for one kind of value: @IsUUID, @IsEnum, @IsUrl, @IsDateString, @IsArray.
Text(min, max) == [kind |-> "text", min |-> min, max |-> max, optional |-> FALSE]
Int(min, max) == [kind |-> "int", min |-> min, max |-> max, optional |-> FALSE]
A(kind) == [kind |-> kind, min |-> 1, max |-> 1, optional |-> FALSE]

\* @IsOptional
Optional(rule) == [rule EXCEPT !.optional = TRUE]

Title == Text(1, 200)
AnyText == Text(0, Unbounded)

\* Is a value of a sent field valid?  To @IsString an enumeration, an address or
\* a date is a string like any other, and enableImplicitConversion has turned a
\* number or a list into one before the decorators look.
Accepts(rule, value) ==
    /\ value.kind = rule.kind \/ (rule.kind = "text" /\ value.kind # "object")
    /\ value.n \in rule.min..rule.max

\* A DTO: field -> rule.  A handler whose parameter is of type any, or of a
\* plain type, is not validated.
Dto(fields) == [strict |-> TRUE, fields |-> fields]
Unchecked == [strict |-> FALSE, fields |-> [f \in {} |-> AnyText]]

\* ValidationPipe({ whitelist, forbidNonWhitelisted, transform }): every field
\* sent is known and valid, and every field that is not optional is sent.
Valid(dto, body) ==
    dto.strict =>
        /\ DOMAIN body \subseteq DOMAIN dto.fields
        /\ \A f \in DOMAIN dto.fields :
              IF f \in DOMAIN body THEN Accepts(dto.fields[f], body[f])
              ELSE dto.fields[f].optional

Required(dto) == {f \in DOMAIN dto.fields : ~dto.fields[f].optional}

-----------------------------------------------------------------------------
(* The bodies worth trying against some DTOs: the smallest valid body, and *)
(* that body with one field left out, added, or at a boundary.             *)

Below(n) == IF n = 0 THEN 0 ELSE n - 1
Smallest(rule) == Value(rule.kind, rule.min)

Boundaries(rule) ==
    {Value(rule.kind, n) : n \in {Below(rule.min), rule.min, rule.max, rule.max + 1}}

SmallestBody(dto) == [f \in Required(dto) |-> Smallest(dto.fields[f])]

Without(body, f) == [g \in DOMAIN body \ {f} |-> body[g]]
With(body, f, value) == [g \in DOMAIN body \cup {f} |-> IF g = f THEN value ELSE body[g]]

Variations(dto, dtos) ==
    LET body == SmallestBody(dto)
        fields == UNION {DOMAIN d.fields : d \in dtos}
    IN {body} \cup {Without(body, f) : f \in fields}
       \cup UNION {UNION {{With(body, f, v) : v \in Boundaries(d.fields[f])} :
                             f \in DOMAIN d.fields} : d \in dtos}

Bodies(dtos) == UNION {Variations(d, dtos) : d \in dtos}
=============================================================================
