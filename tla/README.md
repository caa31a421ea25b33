# TLA+ models of DS_Assignment2

The repository holds three independent Go programs that talk gRPC:

* `q1` - a load balancer in front of backend servers that register in etcd;
* `q2` - a MapReduce master and its workers, which share files;
* `q3` - a payment system: clients, a payment gateway, banks.

`q3` carries the hard part of the repository - a two-phase exchange over
account locks, retries under one transaction id, processes that panic. All
three are modelled and proved about: every invariant, action property and refinement that
a passing run checks is also a theorem for all values of the constants (see
*Proofs*).

## Inventory

### q3, payment system

| component | state | operations | source |
|---|---|---|---|
| bank server | per account `CurrBalance` and `isLocked` (an atomic flag without owner), both in memory only | `PrepareTransaction` (check the request, then take the lock in at most `maxAcquireLockAttempts` tries), `CommitTransaction` (check the request, check the lock, change the balance, unlock; a failed check panics), `ReleaseResource` (unlock), `CheckBalance`; start: load the customers, register at the gateway, listen | `q3/server/bank_server` |
| payment gateway | `BankServers` (name to address), `UserTransactions` (transaction id to outcome) | interceptor (token), `Authenticate`, `GetBalance`, `MakePayment` (validate, look the id up, prepare debit, prepare credit, commit debit, commit credit, release the debit if the second prepare fails), `BankServerDiscovery` | `q3/server/payment_gateway` |
| client, payment request | transaction id, attempt counter | `sendPaymentRequest`, `ClientRequestInterceptor` (the same request again after a deadline or an "in progress" answer) | `q3/client/logging.go`, `main.go` |
| client, offline queue | `requestQueue`, `isSetOffline`, `startTime` | `setOffline`, `isOffline`, `queueRequest`, `deQueueRequest`, `processRequestQueue` | `q3/client/requests.go` |
| client, session | token, number of failed logins | `main`: the login loop, then the menu beside the goroutine of the queue; payments, balance enquiries, offline mode, exit | `q3/client/main.go` |
| error values | none | `IsEqual` compares the message texts | `q3/common/errors.go` |

Every request runs in a goroutine of its own at the client's interceptor, at
the gateway and at the bank. A goroutine goes on when its caller has given up:
the gateway's prepare calls have a deadline, its commit and release calls have
none, and no handler looks at its context. The behaviours that make it hard:

* the balance is tested before the lock is taken, and again, in another RPC,
  before it is changed; the change itself is an unsynchronised read and write;
* any commit or release clears the lock flag, whoever has set it;
* a prepare that timed out at the gateway takes the lock later, for good;
* the outcome of a transaction is stored after the prepares and again after
  the commits; a retry may read it in between;
* a failed outcome lets the id start again, and the banks ignore the id;
* a bank that panics or crashes loses balances and locks, and its name cannot
  be registered again;
* a gateway that is started again has forgotten the outcome of every
  transaction and the address of every bank, and no bank registers twice: it
  takes payments again only for banks that are restarted too, with the
  balances of their file;
* `checkUserValidity` panics for a token that has expired since the
  interceptor saw it, and `BankServers` is read without its mutex: both stop
  the gateway with everything it remembers;
* the menu and the queue's goroutine send requests at the same time, and a
  request that was stored keeps the token of the login, which may have expired
  when it is sent.

What makes the parts correct: locks are exclusive and are given back, no
update is lost and no account overdrawn, a payment moves its money once and
completely or not at all, the recorded status agrees with the money, a user is
told something and what he is told is true.

### q1, load balancer

| component | state | operations | source |
|---|---|---|---|
| load balancer | `availableServers`, `loadStatus`, `rrIndex` under one mutex | `discoverBackends` (a loop that copies etcd's list every two seconds), `ReportLoadRPC`, `LoadBalancerRPC` with the policies PF, RR, LL | `q1/server/load_balancer` |
| backend | an etcd lease | register, keep alive, report its load every second, `BackendRPC` | `q1/server/backend_server` |
| client | none | ask the balancer, then the backend it names | `q1/client` |
| etcd (external) | keys with leases | `Put`, `Get`, `KeepAlive`, expiry | library |

Hard: the emptiness test is outside the mutex (`main.go:153`); `rrIndex`
survives a shrinking list (`119`); round robin advances twice per request
(`122`, `129`); a backend registers before it listens and never registers
again after its lease is lost. Correct when: the server chosen was in the last
list seen, no policy indexes past the list, a load report survives a
discovery, round robin serves every server.

### q2, MapReduce

| component | state | operations | source |
|---|---|---|---|
| master | `mapCounter`, `reduceCounter` under a mutex, channels `mapDone`, `reduceDone` of capacity 1, `workerPorts` | start the workers, send the map tasks, wait, send the reduce tasks, wait, ask the workers to exit; `MapResultRPC`, `ReduceResultRPC` | `q2/master` |
| worker | none beside its files | `MapRPC` and `ReduceRPC` start a goroutine and return, `ExitRPC`; the tasks write and read `mapper_output/`, `reduce_output/` | `q2/worker` |

Hard: reduce tasks read what map tasks wrote, ordered only by a counter and a
channel; directories count as mappers but get no task, so the count is never
reached; a task that fails kills its worker and is not given to another one;
extra workers are started for the reducers and never get one
(`workerPorts[i % numMappers]`, `master/main.go:205`). Correct when: no reduce
task starts before every intermediate file is complete, each word ends in one
output with the right count, the job ends when nothing fails.

Every hazard is listed at its line in `PROJECT.json`.

## Modules

| module | models |
|---|---|
| `BankServer` | all banks: one call of the gateway is `c = <<payment, attempt, kind>>`, `rpc[c]` the point its handler has reached |
| `PaymentGateway` | the gateway: one handler per `h = <<payment, attempt>>`, `pc[h]` the call it waits for or the answer it gave |
| `PaymentClient` | the retry loop, `client[p]` and `attempt[p]` |
| `PaymentSystem` | the composition, its fairness, its properties |
| `Ledger` | the abstract specification: a payment is debited at most once, unless an answer was lost, and credited at most once per debit, each in one step |
| `MCPayment` | the instances TLC checks |
| `PaymentSession`, `MCSession` | a session of one user: the login, `main`'s menu and the queue's goroutine (`OfflineQueue`, by `INSTANCE`) over `PaymentSystem`, with balance enquiries down to `CheckBalance`; an instance |
| `PaymentLockProofs`, `PaymentSafetyProofs`, `PaymentLedgerProofs` | theorems about `PaymentSystem`: types and locks; balances, exchanges and orphaned locks; status and money, the refinement of `Ledger` |
| `PaymentSessionProofs` | a session is a behaviour of `PaymentSystem` and of `OfflineQueue`; its types and what it shows the user |
| `OfflineQueue`, `OfflineProofs`, `Outbox` | the client's menu loop and queue consumer; theorems about them; what they promise: a request is kept until it is sent, and sent once |
| `BackendServer` | the q1 backends with their etcd keys and leases, load reports |
| `LoadBalancer` | discovery, load reports and the choice of a server under the three policies |
| `BackendTasks` | the three tasks of the backends as functions, and what each ought to compute |
| `LoadBalancing`, `MCLoadBalancing`, `LoadBalancingProofs` | the composition with the clients, properties; instances; theorems |
| `MapReduceTasks` | the data of a q2 job: lines, their merging, the expected result |
| `MapReduceWorker` | worker processes, map and reduce goroutines, the files between them |
| `MapReduceMaster`, `MCMapReduce` | the master's main goroutine and result handlers, composition and properties; instances |
| `MapReduceJob` | the abstract job: map everything, then reduce, then announce success |
| `MapReduceProofs` | theorems about `MapReduceMaster` |
| `RecursionTheorems` | lemmas about induction, recursion and sums over a set, for the proofs about loops and folds |

The payment modules extend each other in this order, since a handler of the
gateway and the bank it waits for share the state of the call between them.

**Banks.** `PrepareRefuse`, `PrepareAccept`, `AcquireLock` and `AcquireBusy`
are `PrepareTransaction`, with the window between the test of the request and
the lock; one `AcquireBusy` is one failed attempt and its sleep.
`CommitValidate`, `CommitLockCheck`, `CommitLoad`, `CommitStore` and
`CommitUnlock` are `CommitTransaction`; `+=` on the balance is a load and a
store. `CommitPanic` is either failed assertion and takes the process down,
since nothing recovers it. A bank process goes `new`, `registered`, `serving`;
`BankCrash` kills it and `BankRestart` starts a new process (`restarting`),
which the gateway refuses if it knows the name. The model keeps the variables
of a dead bank as they were when it died. Nobody reads them: they stand for
what had happened until then. When a new process is accepted, by a gateway
that has been restarted, its memory takes their place (`FreshMemory`): the
balances of the file, no lock, and every call made to an earlier process is
`gone`.

**Gateway.** Each action of `MakePayment` runs from one call it waits for to
the next. Steps merged into one: the token's second parse, the test of the
banks and the look-up of the id (`BankServers` only grows, and the look-up is
the only step under `transMutex`), and the storing of the status after
`sendPrepare` with the sending of the first commit. The second merge hides no
state a client can see: between the store and the call the handler only reads
`BankServers`, which holds both banks by then. A call fails when the bank
rejects it, when it does not serve, when its deadline passes (prepares) or
when its connection breaks (any of them); `PrepareLost` and `CallLost` are
this choice. `GivenUp` says that a call to a process that does not listen is
lost, while one that has arrived goes on. `GatewayRestart` starts a process
with empty maps; the handlers of the old one are answered with an error, as a
broken connection is. The banks are not told. `GatewayCrash` is the process
killed, or ended by a balance enquiry whose token has expired.

**Client.** `DeadlineExceeded` may come at any time while an attempt waits,
also when its answer has already been given.

**Offline queue.** `sendRequest` asks `isOffline` first and then stores or
sends; the model keeps the two apart in both goroutines (`EnterRequest` and
`MenuQueues`/`MenuSends`, `sendRequest` and `QueueAgain`/`ConsumerSends`). The
consumer looks at the head (`Peek`), works on it and then removes the head
(`deQueueRequest`). `elapsed` stands for the clock: the flag stays set until
somebody asks after the interval. A request that is sent is one step here;
`PaymentClient` has what happens to it, and `PaymentSession` puts the two
together.

**Session.** A payment or enquiry makes its steps while the menu or the queue's
consumer is at `online` with it (`Working`); the return of the call is the
step `MenuSends` or `ConsumerSends` of `OfflineQueue`. An enquiry goes from
the client through the interceptor, `GetBalance` and `CheckBalance` of the
bank and back (`AskBalance`, `AuthEnquiry`, `GetBalance`, `CheckBalance`,
`EnquiryReturns`), with the deadline and retries of a payment. `Login` is the
loop that asks for a password; what is typed is the user's free choice.
`known` is a history variable for `ShownAfterPaid`.

**Load balancer.** Everything done under `mutexLock` is one step; discovery is
two, since etcd's answer is old by the time the mutex is taken, and so is a
request: the test for an empty list is outside the mutex (`LoadBalancerRPC`),
the choice inside it (`getBackendServer`). `IndexPanic` is the index out of
range, which ends the process. A backend is `registered` before it is
`serving`; a load report is sent, and handled later, perhaps after its sender
has died or left the list. The client's call is two steps, and its server may
die in between; `executeTask` computes the answer from the task and its
number.

**MapReduce.** `pc` and `next` are the place and loop variable of the master's
`main`. A request to a worker is two steps, its acceptance by whoever listens
on the port and its answer, so that the worker may die in between. A map task
creates its files in one step and writes one word per step; a reduce task
reads one file per step. `port` keeps what the master was told by the
operating system when it probed, so two workers can have the same. A worker
that ends itself with `log.Fatalf` over a file is `WorkerDies`, as one that is
killed; `killed` keeps who did, apart from the workers that end because their
port is taken, so that `MasterFailsOnlyWithWorker` can tell them apart.
`PromptStart` is FALSE in `mapreduce_count`: a worker may take longer than the
master's half second, then its port can be handed out again before it listens.
With prompt workers (`mapreduce_ends`) no send fails unless a worker is killed:
`JobCompletes` needs that, and `MasterFailsWithWorkers` implies it. Words are
opaque and their hash is a constant; a line is the sequence of fields it is
split into, because that is what the reducers look at.

Abstractions: amounts are integers (float32 rounding is not modelled); the
kinds of error the gateway stores are one value `failed`; tokens, passwords
and certificates are reduced to "expired or not"; `MaxRetries` and
`MaxAcquireAttempts` are the code's constants made small. The interceptor's
check of the role is left out, since every user of `pg_users.json` is a
customer; so is overflow of `int64` in the tasks of q1, which no number a
client offers reaches. The consumer's look at the flag and at the length of the
queue is one step (`StartDraining`): a user who goes offline between them is
one who goes offline just after, and the consumer asks again before it sends.

## Runs

The customers are those of `q3/sample_data`: alice and bob at bank1, charlie
at bank2.

| run | instance | checks |
|---|---|---|
| `payment_faults` | one transfer, two attempts; one prepare timeout, one broken commit or release connection, two crashes and restarts of banks, death and restart of the gateway | `TypeOK`, `LockHeldByOneTransfer`, `CommitFindsLock`, `NoOrphanedLock`, `StatusMatchesMoney`, `BalanceIsBooked`, `RefinesLedger` |
| `payment_spend` | two payments of alice that her balance cannot both cover, two attempts each | `LockHeldByOneTransfer`, `NonNegativeBalance`, `OneExchangePerPayment`, `BalanceIsBooked`, `RefinesLedger`, `OnlyDebitsPanic` (action property) |
| `payment_crossing` | two payments that lock two accounts in opposite orders | `LocksReleased`, `ClientAnswered` (liveness) |
| `payment_session` | a session with one payment and one enquiry, two attempts each; the user may go offline once, the token may expire once | `SessionTypeOK`, `ShownAfterPaid`, `EnteredIsAnswered`, `SuccessMeansPaid` (the last two liveness) |
| `payment_commit_panic` | two debits of one account | violates `CommitRequestIsValid` |
| `payment_retry_after_drop` | one transfer, two attempts, one broken connection | violates `DebitedAtMostOnce` |
| `offline_queue` | three requests, the user goes offline twice | `TypeOK`, `HeadIsCurrent`, `AtMostOnce`, `RefinesOutbox`, `StoredIsSent` (liveness) |
| `lb_policies` | two servers with two loads, each policy, a task of each type; one server may die, one may lose its lease | `TypeOK`, `LoadsMatchServers`, `PanicNeedsLoss`, `AnswerIsRight`, `LeastLoadChosen` (action property), `UnregisteredLeave`, `KeptServersListed`, `CallsSucceed`, `PanicEndsServers` (the last four liveness) |
| `lb_even` | two servers, round robin, no fault | violates `RoundRobinVisitsAll` |
| `mapreduce_count` | word count of two entries, the second a file or a directory, by two reducers; slow workers, ports handed out twice, one worker dies, stale files | `TypeOK`, `ReducersReadFinalFiles`, `MasterFailsOnlyWithWorker` (action property), `RefinesJob` |
| `mapreduce_ends` | inverted index of the same by three reducers, prompt workers, of which one may die | `RefinesJob`, `JobCompletes`, `WorkersStop` (the last two liveness) |
| `mapreduce_subdir` | the second entry is a directory | violates `ProceedsToReduce` |

What the violations show (`findings` in `PROJECT.json`):

* The balance is tested before the lock is taken. A debit that passed the
  test, waited for the lock and got it after another debit had committed is
  prepared, and its commit fails the assertion "Commit Request Should be
  valid": the bank dies, with all balances.
* When the reply to the last commit is lost the payment is recorded as failed
  though it is complete. A retry under the same id debits the sender again.
* Round robin advances its index twice for each request. With two servers it
  always chooses the same one.
* Directories count as mappers but get no task: the master waits for ever.

Other behaviour of the code that a reader should know of, which the models
contain or exclude but no run is about:

* The status of a payment is set to success before the commits. A retry that
  comes in this window is told success, and a commit may still fail
  (`payment_gateway/rpc.go:126`). A balance asked for right after such an early
  success may still be the old one, so `ShownAfterPaid` counts the answers to
  first attempts only. `SuccessMeansPaid` is checked without lost calls and
  crashes of banks; the gateway may die of a token there.
* A restarted gateway refuses every payment until the banks are restarted, and
  restarted banks have forgotten all payments, on one side of a transfer
  perhaps and not on the other (`Forget` in `Ledger`).
* A stored request is sent with the token of the login. If it has expired the
  user is told so when the queue is processed, and the request is dropped.
* `ErrTimeOut` and `ErrRequestQueued` have the same text, by which `IsEqual`
  compares what has crossed the network (`common/errors.go:24`): a client that
  got the gateway's timeout would tell the user that the request is stored. It
  does not get it, since its own deadline of the same length began earlier.
* A task of any type but 0 and 1 is answered with a Fibonacci number
  (`q1/server/backend_server/tasks.go`), also one that no client offers.
* When discovery empties the list of backends between the test of its length
  and the choice, index 0 is out of range and the load balancer dies
  (`load_balancer/main.go:153`); `PanicNeedsLoss` says that this takes the
  loss of a server.
* A backend whose lease is lost serves on and is never listed again
  (`backend_server/main.go:124`).
* A request stored a second time while the queue is drained is logged as
  processed (`client/requests.go:137`).
* The error of `os.Create` is dropped: without the directory `mapper_output`,
  which no code creates, a job succeeds with empty results
  (`worker/tasks.go:159`). The model takes the directory to be there.
* A line of the inverted index is skipped unless it has two fields, so files
  with a blank in their path are missing from it (`worker/tasks.go:41`). The
  instances have no such path.
* The extra workers get no reduce task (`master/main.go:205`).

The bounds: one payment with two attempts is enough for a retry to meet every
state of the first handler, and one fault of each kind for it to strike at
every point. Two payments are enough for every conflict over a lock: a lock
concerns one account, and each payment has at most one handler at work
(`OneExchangePerPayment`, proved). `MaxAcquireAttempts = 2` has a failed
attempt that is repeated and one that gives up. Two crashes and restarts let
both banks, or one bank twice, lose their memory around the gateway's restart.
The session has one payment and one enquiry: menu and consumer can be at work
with one each, which is all that a user can have under way, since the queue is
processed one by one. All runs of the payments and the session begin when both
banks serve (`ServingInit`), a state that `Spec` reaches before any
request is sent.

In the offline queue three requests make a rotation of the queue visible, and
going offline twice covers before and during a draining. Two servers let the
list of q1 grow and shrink between lengths 0 and 2, and with loads 0 and 1
there are ties and changes of the order; a single client is asked again and
again, and races with discovery and reports, the only other steps that touch
what it reads. Two files whose words go to two reducers, a word in both files
and twice in one, and a reducer more than files are the cases the tasks and
loops of q2 distinguish.

Deadlock is checked for the load balancer. The other systems stop when all
users have been answered, when the user exits or when the job is done or
stuck, as the programs do.

Fairness: weak fairness of every bank handler, every gateway handler, every
client loop, and the start of every bank. Go's scheduler runs a goroutine that
can run, and TCP delivers what is sent while both processes live. Faults and
deadlines are under no fairness. `AcquireBusy` counts its attempts, so weak
fairness of the handler as a whole is enough for it to end. The liveness runs
of the payments have no lost calls and no crashes of banks: after an orphaned
lock or a dead bank the promises do not hold, and commits have no deadline.
The session asks for less: one condition for all goroutines of the banks, one
for those of the gateway and one for the calls of the client, which is enough
because they make finitely many steps. The login is under no fairness: the user may
never type a password.
In q1 discovery, the clients (always another one comes), the start of servers,
the expiry of leases nobody renews, and load reports are fair; in q2 the
master's main goroutine, the task goroutines and the worker processes are; in
the offline queue both goroutines and the clock. `PromptStart` says that half
a second is enough for a worker to listen; the liveness runs assume it, since
the master dies otherwise, and `JobCompletes` and `WorkersStop` are about jobs
over files in which no worker dies.

## Proofs

For every set of banks, accounts and payments and every bound, faults
included, from `BankAssumption` and `GatewayAssumption` alone:

| theorem | states |
|---|---|
| `TypeCorrect` | `Spec => []TypeOK` |
| `LocksExclusive` | `Spec => []LockHeldByOneTransfer` |
| `CommitsFindTheirLock` | `Spec => []CommitFindsLock` |
| `NeverOverdrawn` | `Spec => []NonNegativeBalance` |
| `ExchangesAreAlone` | `Spec => []OneExchangePerPayment` |
| `NoLockOrphaned` | `Spec => []NoOrphanedLock` |
| `StatusAgreesWithMoney` | `Spec => []StatusMatchesMoney` |
| `MoneyIsALedger` | `Spec => RefinesLedger` |
| `BalancesAreBooked` | `Spec => []BalanceIsBooked`, if there are finitely many payments |
| `DebitedOnceUnlessLost` | `Spec => [](drops = 0 => DebitedAtMostOnce)` |
| `PanicsAreDebits` | `Spec => OnlyDebitsPanic` |

For every session of such a system with one user (`SessionAssumption`), whatever
the menu and the queue's goroutine do at the same time:

| theorem | states |
|---|---|
| `SessionIsPaymentSystem` | `SessionSpec => Spec` |
| `SessionIsOfflineQueue` | `SessionSpec => Q!Spec`, the specification of the offline queue |
| `SessionNeverOverdraws` | `SessionSpec => []NonNegativeBalance` |
| `SessionCommitsFindTheirLock` | `SessionSpec => []CommitFindsLock` |
| `SessionTypeCorrect` | `SessionSpec => []SessionTypeOK` |
| `BalanceShownAfterPaid` | `SessionSpec => []ShownAfterPaid` |

For every set of requests and any number of times offline:

| theorem | states |
|---|---|
| `HeadStaysCurrent` | `Spec => []HeadIsCurrent` |
| `NeverSentTwice` | `Spec => []AtMostOnce` |
| `QueueTypeCorrect` | `Spec => []TypeOK` |
| `QueueIsAnOutbox` | `Spec => RefinesOutbox` |

For every set of servers, clients, loads and tasks, with one etcd key for each
server and the positive task numbers the clients make (`BalancerAssumption`,
`TasksAssumption`):

| theorem | states |
|---|---|
| `LoadsAlwaysMatch` | `Spec => []LoadsMatchServers` |
| `BalancingTypeCorrect` | `Spec => []TypeOK` |
| `LeastLoadedIsChosen` | `Spec => LeastLoadChosen` |
| `PanicsAfterLoss` | `Spec => []PanicNeedsLoss` |
| `AnswersAreRight` | `Spec => []AnswerIsRight` |

For every directory, text, hash function, choice of ports and number of
reduce tasks and crashes:

| theorem | states |
|---|---|
| `MasterTypeCorrect` | `Spec => []TypeOK` |
| `ReducersSeeFinalFiles` | `Spec => []ReducersReadFinalFiles` |
| `MasterFailsWithWorkers` | `Spec => MasterFailsOnlyWithWorker` |
| `JobRefined` | `Spec => RefinesJob`, if words are counted, or if no path has white space and no two are equal (`PlainPaths`) |

Without `PlainPaths` the last one is false: the reducers split a line at white
space and skip it unless that gives two fields.

*Types.* `TypeOK` needs to know that accepted calls name existing accounts
(`KnownAccounts`) and from which client states an attempt is sent
(`AttemptBounds`).

*Locks.* A lock is a flag; who owns it is a fact about the order of calls.
`OrderOf(h)` says in which order a handler makes its calls: the commit of the
debit, or the release, only after the prepare has been answered, never both,
and the commit of the credit only after that of the debit. `CallsAheadIdle`
says that calls that still lie ahead have not been made. It follows that a
commit or a release on its way is backed by exactly one prepare that holds the
lock (`CommitHolds`), so the unlock ends that hold and no other
(`UnlockOwners`), and that a prepare takes the flag before anything could end
its hold (`AcquireOwners`). A prepare that comes too late changes nothing: its
handler sends neither commit nor release. `LockInv` is the whole invariant. A
bank that registers again takes its calls and locks with it; that this breaks
the order of no handler at work needs `KnownBanks`: a handler that has begun
its exchange talks to banks the gateway knows, and a known bank is never
replaced.

*Money.* Two commits on their way to one account would be backed by the same
lock, hence are the same call (`CommitsDisjoint`). So the balance a debit's
commit has validated, and the one it has loaded, are still there when it
writes (`Funded`).

*Orphans.* `PreparesAttended` says that a prepare which may still lock, or has
locked, is waited for or will be followed by the call that unlocks, unless one
of the faults of `Excused` has happened; `UnlocksAwaited` that a handler waits
for an unlocking call only where its bank has it. An excuse never goes away
while the bank remembers the lock (`ExcuseRemains`): a timeout is counted, a
dead bank that is known stays dead, and a restarted gateway knows no bank. A
handler that gives up without a timeout or a lost call does so because the
bank has ended (`FailedCall`), since a bank that does not listen yet has done
nothing for any call (`FreshBanks`).

*Status.* A success is recorded before the first commit is sent, so the
invariant says why it is true in the end: a handler still works on the payment
or both commits of one attempt have been applied (`SuccessAccounted`). The
other way round a debit that was sent is waited for, has led to a success, or
is lost with one of the excuses above (`DebitAccounted`). Two handlers never
have a debit of one payment under way together, since exchanges are alone.

*Ledger.* Each step is mapped to the step of `Ledger` that the write of a
balance is; `Funded` says that it writes what `Ledger` would. That a retry
does not debit again unless an answer was lost is the hard part
(`RetriesHopeless`): a payment that is begun again although its first debit
was sent failed before, because a bank died, and the new attempt has to get
past the same bank. `CreditAfterDebit` orders the two; `AppliedToCustomers`
and `UntouchedBalance` carry the balances over the start of a bank.

*What the ledger implies.* `LedgerMove` says of each payment what the steps of
`Ledger` do. From it follow, by induction over the steps of the ledger only,
that a payment is debited twice only after a lost answer - the case of
`payment_retry_after_drop` - and that a balance is the first one without the
booked debits and with the booked credits: an amount is added to one sum of
the account and to its balance (`AmountAdds`), and a bank that forgets starts
both again. A commit panics when one of its checks fails; `CommitFindsLock`
leaves only the cover of a debit, the case of `payment_commit_panic`.

*Session.* Every step of a session is a step of the payment system or leaves it
alone; an enquiry only reads, except that it panics when its token has expired,
which `GatewayCrash` allows for. Towards the queue every call is one step, and
a login that fails is an exit (`LoginFirst`). For the balance a user is shown,
`FirstReply` says that a first attempt is answered "success" only after its
debit, `Spent` that the balance is at most the initial one without the sum of
all debited payments, and `ShownInv` that the payments known when an enquiry
was made are debited and missing from what it read. The sum is a fold by
`CHOOSE` over a set; that it does not depend on the order (`TotalAdds`) and
grows with the set (`SumGrows`, `SumPart`) is proved first. Types need that an
attempt is begun only while some are left (`SessionTypeInv`).

*Exchanges.* While a handler works on a payment its recorded status is "in
progress" or "success" (`Exchange`), and both turn a second handler away.

*Offline queue.* A request can stand in the queue twice, between the moment it
is stored again and the removal of its first copy. `StoredOnce` says that this
concerns the first request only, and only when it has been worked on;
`QueuedUnsent` that nothing behind it has been sent; `MenuIsNew` and
`OnlyEntered` that a request the user enters is in no other place. Together
they are inductive (`QueueInv`): the copy that is removed is the one that was
sent or stored again. For `Outbox` what is pending is what the queue holds and
nobody has sent; `HeadIsDone` says that the copy about to be removed has been
sent or stands in the queue once more.

*Load balancer.* Discovery replaces list and loads together, and a report
changes the load of a server that is in the list or nothing, whoever sent it
and whenever it arrives; that is inductive as it stands. A list has at most
one server for each key (`ListOfKeys`), which bounds `rrIndex` (`TypeInv`).
As long as nothing is lost etcd only grows, so an answer is never longer than
a later one, the list never shrinks, and an index or an emptiness test that was
right stays right (`GrowInv`). `LeastLoadedIsLeast` is the invariant of the
loop of `useLeastLoad`.

*Answers of the backends.* `SumIsRight`: the loop adds the numbers in order,
the definition of a sum in any order. `FibonacciCounts`: the n-th Fibonacci
number counts the sets of numbers up to n - 2 without neighbours, and those
split into the ones that have the greatest number and the ones that do not
(`SparseSplit`). `NthPrimeIsRight`: the least divisor of one more than a common
multiple of the numbers up to n is a prime above n (`AnotherPrime`), so the
search ends (`SearchEnds`); that it tries divisors up to the root only is right
since one of two divisors is small (`TwoDivisors`); and it counts each prime it
passes. A client that has been served holds such an answer (`Served`).

*MapReduce.* `JobInv` says that a counter is the number of tasks whose result
has come in, that only files get a map task, that a channel is filled by the
last result, and that `main` passes it only then. `FileInv` says what is in a
map file at each word: the lines of the words before it. With both, a reduce
task reads complete files. `Calm` is how ports, workers and tasks stand while
the master is at work. A worker that was up on a port is up there still, or
has been killed (`Hosted`), and no step changes that (`PortsStayHeld`); a
worker that has ended without being killed met such a worker on its port; the
port of each map task has answered when the map phase is over, so a reduce
request that is refused goes to the port of a killed worker. Before that, only
a mapper that is still starting can refuse, which `PromptStart` excludes; the
death of a worker on another port never matters. `ReduceInv` says that a reduce
task holds what the reference (`ResultOf`) makes of the entries it has read;
`MergeOneFile` is the induction over the words of one file, in which counting
and indexing differ (`CountedStep`, `IndexedStep`).

*Loops.* The library's induction theorems take an operator as a parameter,
which the provers here cannot instantiate. `RecursionTheorems` states induction
for sets instead (a set with 0 and the successor of each of its numbers holds
all numbers), and that a function can be defined by a first value and a table
of steps. Loops and folds of the models are functions over an interval or a
set's subsets, so these lemmas reach them.

Model-checked only: liveness under fairness, out of the prover's reach
(`LocksReleased`, `ClientAnswered`, `EnteredIsAnswered`, `SuccessMeansPaid`,
`StoredIsSent`, `UnregisteredLeave`, `KeptServersListed`, `CallsSucceed`,
`PanicEndsServers`, `JobCompletes`, `WorkersStop`). `Ledger` lets a payment be
debited again after an answer has been lost; `payment_retry_after_drop` shows
why.

## Not modelled

Logging, certificate scripts, the password hashing tool and protobuf code are
I/O or generated. The texts of errors are left out: an answer is one of the
few the callers act on. `numReduce = 0` (a division by zero in the map tasks),
lines too long for a Scanner and task types other than 0 and 1 (treated as 1)
are outside the q2 model. An attempt of an enquiry that passed its deadline is
not followed further. `PROJECT.json` lists every part with its reason.

## Plan

1. Done: all components but I/O and generated code, with the gateway's
   restart, whole sessions of the client and the tasks of the backends, their
   runs and findings; all invariants, action properties and refinements that
   the passing runs check are theorems.
2. Done: what the findings show happens only under their condition
   (`DebitedOnceUnlessLost`, `PanicsAreDebits`).
3. The safety half of the liveness properties: which states a run could be
   stuck in.
