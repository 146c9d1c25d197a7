---------------------------- MODULE MCMigration ----------------------------
(* A small old database for TLC: two spellings of one zone, a CNAME beside
   another record, two spellings of one host name and of one address, a zone
   that PowerDNS refuses, and a disabled domain. *)
EXTENDS Migration

CONSTANTS u1, u2

MCNames == {"a.", "A", "b", "c", "__c", "www.a"}

MCCanonical ==
  [n \in MCNames |-> IF n = "A" THEN "a." ELSE IF n = "www.a" THEN "w" ELSE n]

Row(n, t, text, form, ttl) ==
  [name |-> n, type |-> t, text |-> text, form |-> form, prio |-> 10, ttl |-> ttl]

Zone1 == << Row("a.", "SOA", "soa", "plain", 0),
            Row("a.", "NS", "ns", "plain", 60),
            Row("A", "NS", "ns", "dotted", 120),
            Row("A", "CNAME", "x", "plain", 60),
            Row("www.a", "A", "1", "plain", 60),
            Row("www.a", "A", "1", "zeros", 60),
            Row("www.a", "MX", "mx", "plain", 60) >>

Zone2 == << Row("b", "SOA", "soa", "plain", 60), Row("b", "SOA", "soa2", "plain", 60) >>

Zone3 == << Row("c", "SOA", "soa", "plain", 60), Row("www.a", "CNAME", "x", "plain", 60) >>

MCRows == RowsOf(Zone1) \cup RowsOf(Zone2) \cup RowsOf(Zone3)

Domain(n, disabled, owner, editors, rows) ==
  [name |-> n, disabled |-> disabled, owner |-> owner, editors |-> editors, rows |-> rows]

MCLegacy == << Domain("a.", FALSE, u1, {u1, u2}, Zone1),
               Domain("A", FALSE, u2, {}, Zone2),
               Domain("b", FALSE, u1, {}, Zone2),
               Domain("c", FALSE, Nobody, {u2}, Zone3),
               Domain("__c", TRUE, u1, {}, Zone1) >>

=============================================================================
