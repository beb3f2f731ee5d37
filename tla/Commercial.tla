----------------------------- MODULE Commercial -----------------------------
(***************************************************************************)
(* What a project costs and what it is sold for: the total of              *)
(* GET /resource-profile (routes/resourceProfile.ts), the Commercial tab   *)
(* (client, financialCalculations.ts) and the exported profile (client,    *)
(* useResourceProfileExport.ts), which compute from the same rows.         *)
(*                                                                         *)
(* The terms of a sale are [rates, proRata, discounts, tax]: the day rate  *)
(* of each role id or None, the places of the people who are billed for    *)
(* their planned allocation, a set of [of, type, value] where of is a role *)
(* id, or None for the whole project, and a percentage or None.            *)
(***************************************************************************)
EXTENDS ResourceProfileView

DayRate(terms, id) == Or(terms.rates[id], 0)

(* The people of a row: what each is there for and what each is assigned.  *)
(* The aggregate of the role, if it is assigned anything, comes first.     *)
PeopleOfRow(project, role, assignment) ==
  LET made == Cardinality(DOMAIN assignment.spans) - Len(role.people)
      given(h) == SumOver({g \in assignment.given : g.holder = h}, LAMBDA g : g.days)
  IN  [h \in DOMAIN assignment.spans |->
         [place |-> h - made, actual |-> given(h),
          planned |-> IF h > made THEN PersonDays(project, role, h - made) ELSE given(h)]]

(* getNamedResourceBillableDays                                            *)
BillableDays(terms, person) ==
  IF person.place \in terms.proRata THEN person.planned ELSE person.actual

(* The rows of a role that has a rate: one for each of its people, or one. *)
RoleCosts(project, role, row, assignment, terms) ==
  LET people == PeopleOfRow(project, role, assignment)
      cost(days) == [of |-> role.id, amount |-> days * terms.rates[role.id]]
  IN  IF terms.rates[role.id] = None THEN <<>>
      ELSE IF role.people = <<>> THEN <<cost(row.allocated)>>
      ELSE [h \in DOMAIN people |-> cost(BillableDays(terms, people[h]))]

(* Discounts of a role are taken from each of its rows; a fixed amount too.*)
Reduction(discount, amount) ==
  IF discount.type = "PERCENTAGE" THEN (discount.value * amount) \div 100 ELSE discount.value

Net(terms, cost) ==
  cost.amount - SumOver({d \in terms.discounts : d.of = cost.of},
                        LAMBDA d : Reduction(d, cost.amount))

Gross(costs) == SumOver(DOMAIN costs, LAMBDA i : costs[i].amount)
NetTotal(terms, costs) == SumOver(DOMAIN costs, LAMBDA i : Net(terms, costs[i]))

(* An overhead costs the rate of the role it is linked to, if it is.       *)
OverheadCosts(project, rows, terms) ==
  SumOver({o \in project.overheads : o.role # None},
          LAMBDA o : OverheadDays(project, rows, o) * DayRate(terms, o.role))

(* computeCommercialData                                                   *)
Priced(net, gross, terms) ==
  LET after == net - SumOver({d \in terms.discounts : d.of = None}, LAMBDA d : Reduction(d, net))
  IN  [gross |-> gross, after |-> after, grand |-> after + (Or(terms.tax, 0) * after) \div 100]

Commercial(project, rows, assignments, terms) ==
  LET overheads == OverheadCosts(project, rows, terms)
      costs == [i \in DOMAIN rows |->
                  RoleCosts(project, project.roles[i], rows[i], assignments[i], terms)]
  IN  Priced(overheads + SumOver(DOMAIN rows, LAMBDA i : NetTotal(terms, costs[i])),
             overheads + SumOver(DOMAIN rows, LAMBDA i : Gross(costs[i])), terms)

(* summary.totalCost                                                       *)
TotalCost(project, rows, terms) ==
  SumOver(DOMAIN rows, LAMBDA i : rows[i].allocated * DayRate(terms, project.roles[i].id))
    + OverheadCosts(project, rows, terms)

(* buildProfileCsv: whoever is listed is priced for the days assigned.     *)
ExportedRow(project, role, row, assignment, terms) ==
  DayRate(terms, role.id) *
    IF role.people = <<>> THEN row.allocated ELSE SumOver(assignment.given, LAMBDA g : g.days)

Exported(project, rows, assignments, terms) ==
  SumOver(DOMAIN rows, LAMBDA i :
    ExportedRow(project, project.roles[i], rows[i], assignments[i], terms))
    + OverheadCosts(project, rows, terms)
=============================================================================
